---------------------------- MODULE PolicyProofs ----------------------------
(***************************************************************************)
(* Theorems about PolicyLifecycle, for every policy an editor can make: of  *)
(* any addresses and function names, lists of any length, integers of any   *)
(* value and wire widths of any size.  In turn: what a form says and that the *)
(* conversions carry it (PoliciesKeepTheirMeaning), that a difference of     *)
(* validated policies is exact (DifferencesAreExact), and that the two        *)
(* validators and the contract agree (ValidatorsAreOfOneMind).              *)
(***************************************************************************)
EXTENDS PolicyLifecycle, FiniteSetTheorems, TLAPS

Integral == Integers_ \cup Flags
AddressLists == {"assets", "recipients", "blocked_recipients"}

-----------------------------------------------------------------------------
(* The fields of a form.                                                   *)

LEMMA FieldsAre ==
  /\ Fields = Integral \cup AddressLists
                \cup {"protocols", "recipient_window_caps", "asset_caps",
                      "protocol_calls_per_window"}
  /\ Integral \cap (AddressLists \cup {"protocols", "recipient_window_caps",
                      "asset_caps", "protocol_calls_per_window"}) = {}
BY DEF Fields, Required, Integers_, Integer128, Unsigned64, Flags, RequiredLists,
       OptionalLists, Integral, AddressLists

LEMMA FormIs ==
  ASSUME NEW p, IsForm(p)
  PROVE  /\ DOMAIN p = Fields
         /\ p.protocols \in Seq(ProtocolRule) \cup NotLists
         /\ p.recipient_window_caps \in Seq(WindowCap) \cup NotLists
         /\ p.asset_caps \in Seq(WindowCap) \cup NotLists
         /\ p.protocol_calls_per_window \in Int \cup {Absent}
         /\ \A f \in AddressLists : p[f] \in Seq(Addresses) \cup NotLists
         /\ \A f \in Integers_ : p[f] \in Int \cup NotLists \cup {Numeral}
         /\ \A f \in Flags : p[f] \in BOOLEAN \cup NotLists
<1>1. DOMAIN p = Fields /\ \A f \in Fields : p[f] \in FieldValues(f)
  <2>1. DOMAIN [f \in Fields |-> p[f]] = Fields
    OBVIOUS
  <2> QED BY <2>1 DEF IsForm
<1>2. /\ FieldValues("protocols") = Seq(ProtocolRule) \cup NotLists
      /\ FieldValues("recipient_window_caps") = Seq(WindowCap) \cup NotLists
      /\ FieldValues("asset_caps") = Seq(WindowCap) \cup NotLists
      /\ FieldValues("protocol_calls_per_window") = Int \cup {Absent}
      /\ \A f \in AddressLists : FieldValues(f) = Seq(Addresses) \cup NotLists
      /\ \A f \in Integers_ : FieldValues(f) = Int \cup NotLists \cup {Numeral}
      /\ \A f \in Flags : FieldValues(f) = BOOLEAN \cup NotLists
  BY DEF FieldValues, AddressLists, Integers_, Integer128, Unsigned64, Flags
<1>3. AddressLists \subseteq Fields /\ Integers_ \subseteq Fields /\ Flags \subseteq Fields
      /\ "protocols" \in Fields /\ "recipient_window_caps" \in Fields
      /\ "asset_caps" \in Fields /\ "protocol_calls_per_window" \in Fields
  BY FieldsAre DEF Integral
<1> QED BY <1>1, <1>2, <1>3

\* ... and such a record is a form.
LEMMA IsAForm ==
  ASSUME NEW p, p = [f \in Fields |-> p[f]],
         p.protocols \in Seq(ProtocolRule) \cup NotLists,
         p.recipient_window_caps \in Seq(WindowCap) \cup NotLists,
         p.asset_caps \in Seq(WindowCap) \cup NotLists,
         p.protocol_calls_per_window \in Int \cup {Absent},
         \A f \in AddressLists : p[f] \in Seq(Addresses) \cup NotLists,
         \A f \in Integers_ : p[f] \in Int \cup NotLists \cup {Numeral},
         \A f \in Flags : p[f] \in BOOLEAN \cup NotLists
  PROVE  IsForm(p)
<1>2. /\ FieldValues("protocols") = Seq(ProtocolRule) \cup NotLists
      /\ FieldValues("recipient_window_caps") = Seq(WindowCap) \cup NotLists
      /\ FieldValues("asset_caps") = Seq(WindowCap) \cup NotLists
      /\ FieldValues("protocol_calls_per_window") = Int \cup {Absent}
      /\ \A f \in AddressLists : FieldValues(f) = Seq(Addresses) \cup NotLists
      /\ \A f \in Integers_ : FieldValues(f) = Int \cup NotLists \cup {Numeral}
      /\ \A f \in Flags : FieldValues(f) = BOOLEAN \cup NotLists
  BY DEF FieldValues, AddressLists, Integers_, Integer128, Unsigned64, Flags
<1>3. ASSUME NEW f \in Fields PROVE p[f] \in FieldValues(f)
  BY <1>2, FieldsAre DEF Integral
<1> QED BY <1>3 DEF IsForm

\* A list is not one of the values that are no lists.
LEMMA ListsAreArrays ==
  /\ \A list \in Seq(Addresses) : isArray(list)
  /\ \A list \in Seq(Names) : isArray(list)
  /\ \A list \in Seq(ProtocolRule) : isArray(list)
  /\ \A list \in Seq(WindowCap) : isArray(list)
<1> DEFINE S == Addresses \cup Names \cup ProtocolRule \cup WindowCap
<1>1. /\ \A list \in Seq(Addresses) : list \in Seq(S)
      /\ \A list \in Seq(Names) : list \in Seq(S)
      /\ \A list \in Seq(ProtocolRule) : list \in Seq(S)
      /\ \A list \in Seq(WindowCap) : list \in Seq(S)
  OBVIOUS
<1>2. \A v \in NotLists : v \notin Seq(S)
  BY PolicyFormsAssumption DEF PolicyFormsAssumption
<1> QED BY <1>1, <1>2 DEF isArray, NotLists

-----------------------------------------------------------------------------
(* What a form says.                                                       *)

LEMMA MeaningIs ==
  ASSUME NEW p
  PROVE  /\ Meaning(p) = [f \in Fields |-> Meaning(p)[f]]
         /\ Meaning(p)["protocols"] = {RuleMeaning(r) : r \in Range(p.protocols)}
         /\ \A f \in AddressLists \cup {"recipient_window_caps", "asset_caps"} :
              Meaning(p)[f] = Items(p[f])
         /\ Meaning(p)["protocol_calls_per_window"] = Or(p.protocol_calls_per_window, 0)
         /\ \A f \in Integral : Meaning(p)[f] = p[f]
<1> DEFINE Says(f) ==
     CASE f = "protocols" -> {RuleMeaning(r) : r \in Range(p.protocols)}
       [] f \in {"assets", "recipients"} \cup OptionalLists \cup {"asset_caps"}
            -> Items(p[f])
       [] f = "protocol_calls_per_window" -> Or(p[f], 0)
       [] OTHER -> p[f]
<1>1. /\ Says("protocols") = {RuleMeaning(r) : r \in Range(p.protocols)}
      /\ \A f \in AddressLists \cup {"recipient_window_caps", "asset_caps"} :
           Says(f) = Items(p[f])
      /\ Says("protocol_calls_per_window") = Or(p.protocol_calls_per_window, 0)
      /\ \A f \in Integral : Says(f) = p[f]
  BY DEF AddressLists, OptionalLists, Integral, Integers_, Integer128, Unsigned64, Flags
<1>2. Meaning(p) = [f \in Fields |-> Says(f)]
  BY DEF Meaning
<1>3. "protocols" \in Fields /\ "protocol_calls_per_window" \in Fields
      /\ AddressLists \cup {"recipient_window_caps", "asset_caps"} \subseteq Fields
      /\ Integral \subseteq Fields
  BY FieldsAre
<1> HIDE DEF Says
<1> QED BY <1>1, <1>2, <1>3

\* Rewriting the pauses of rules, but not what they say, keeps what a list says.
Repaused(ps, v) == [i \in DOMAIN ps |-> [ps[i] EXCEPT !.paused = v[i]]]

LEMMA PausesRewritten ==
  ASSUME NEW ps \in Seq(ProtocolRule), NEW v, NEW qs,
         \A i \in DOMAIN ps : v[i] \in BOOLEAN \cup {Absent},
         qs = Repaused(ps, v)
  PROVE  /\ qs \in Seq(ProtocolRule) /\ DOMAIN qs = DOMAIN ps /\ Len(qs) = Len(ps)
         /\ \A i \in DOMAIN ps : /\ qs[i].contract = ps[i].contract
                                 /\ qs[i].fns = ps[i].fns /\ qs[i].paused = v[i]
<1>1. DOMAIN ps = 1..Len(ps) /\ Len(ps) \in Nat /\ \A i \in DOMAIN ps : ps[i] \in ProtocolRule
  OBVIOUS
<1>2. ASSUME NEW i \in DOMAIN ps
      PROVE  /\ qs[i] \in ProtocolRule /\ qs[i].contract = ps[i].contract
             /\ qs[i].fns = ps[i].fns /\ qs[i].paused = v[i]
  <2>1. qs[i] = [ps[i] EXCEPT !.paused = v[i]]
    BY DEF Repaused
  <2>2. ps[i] \in [contract : Addresses, fns : Seq(Names) \cup NotLists,
                   paused : BOOLEAN \cup {Absent}]
    BY <1>1 DEF ProtocolRule
  <2> QED BY <2>1, <2>2 DEF ProtocolRule
<1>3. qs \in [1..Len(ps) -> ProtocolRule]
  BY <1>1, <1>2 DEF Repaused
<1>4. qs \in Seq(ProtocolRule) /\ Len(qs) = Len(ps)
  BY <1>1, <1>3
<1> QED BY <1>1, <1>2, <1>4

LEMMA PausesKept ==
  ASSUME NEW ps \in Seq(ProtocolRule), NEW v, NEW qs,
         \A i \in DOMAIN ps : /\ v[i] \in BOOLEAN \cup {Absent}
                              /\ Or(v[i], FALSE) = Or(ps[i].paused, FALSE),
         qs = Repaused(ps, v)
  PROVE  {RuleMeaning(r) : r \in Range(qs)} = {RuleMeaning(r) : r \in Range(ps)}
<1>1. /\ DOMAIN qs = DOMAIN ps
      /\ \A i \in DOMAIN ps : /\ qs[i].contract = ps[i].contract
                              /\ qs[i].fns = ps[i].fns /\ qs[i].paused = v[i]
  <2>1. \A i \in DOMAIN ps : v[i] \in BOOLEAN \cup {Absent}
    OBVIOUS
  <2> QED BY <2>1, PausesRewritten
<1>2. \A i \in DOMAIN ps : RuleMeaning(qs[i]) = RuleMeaning(ps[i])
  BY <1>1 DEF RuleMeaning
<1> DEFINE A == {RuleMeaning(r) : r \in Range(qs)}
           B == {RuleMeaning(r) : r \in Range(ps)}
<1>3. /\ \A x : x \in A <=> \E i \in DOMAIN qs : x = RuleMeaning(qs[i])
      /\ \A x : x \in B <=> \E i \in DOMAIN ps : x = RuleMeaning(ps[i])
  BY DEF Range
<1> HIDE DEF A, B
<1>4. ASSUME NEW x PROVE x \in A <=> x \in B
  <2>1. (\E i \in DOMAIN qs : x = RuleMeaning(qs[i]))
          <=> \E i \in DOMAIN ps : x = RuleMeaning(ps[i])
    BY <1>1, <1>2, Zenon
  <2> QED BY <1>3, <2>1, Zenon
<1>5. A = B
  BY <1>4, Zenon
<1> QED BY <1>5 DEF A, B

-----------------------------------------------------------------------------
(* The conversions.                                                        *)

\* q is p with the pauses v, lists and defaults written another way, and its own
\* asset caps: what policyToJson(), policyToScVal() and decodePolicy() make of p.
Carries(p, q, v) ==
  /\ q = [f \in Fields |-> q[f]]
  /\ q.protocols = Repaused(p.protocols, v)
  /\ \A f \in Integral \cup {"assets", "recipients"} : q[f] = p[f]
  /\ \A f \in OptionalLists :
       q[f] \in {p[f], <<>>, Absent} /\ Items(q[f]) = Items(p[f])
  /\ q.protocol_calls_per_window \in Int \cup {Absent}
  /\ Or(q.protocol_calls_per_window, 0) = Or(p.protocol_calls_per_window, 0)
  /\ q.asset_caps \in {p.asset_caps, <<>>, Absent}

Pauses(v, p) ==
  \A i \in DOMAIN p.protocols : /\ v[i] \in BOOLEAN \cup {Absent}
                                /\ Or(v[i], FALSE) = Or(p.protocols[i].paused, FALSE)

LEMMA CarriedForm ==
  ASSUME NEW p, IsForm(p), isArray(p.protocols), NEW q, NEW v, Carries(p, q, v),
         \A i \in DOMAIN p.protocols : v[i] \in BOOLEAN \cup {Absent}
  PROVE  /\ IsForm(q) /\ q.protocols \in Seq(ProtocolRule)
         /\ Readable(p) => Readable(q)
<1>1. p.protocols \in Seq(ProtocolRule)
  BY FormIs DEF isArray, NotLists
<1>2. /\ q.protocols \in Seq(ProtocolRule) /\ DOMAIN q.protocols = DOMAIN p.protocols
      /\ \A i \in DOMAIN p.protocols : q.protocols[i].fns = p.protocols[i].fns
  <2> DEFINE ps == p.protocols
             qs == q.protocols
  <2>1. /\ ps \in Seq(ProtocolRule) /\ \A i \in DOMAIN ps : v[i] \in BOOLEAN \cup {Absent}
        /\ qs = Repaused(ps, v)
    BY <1>1 DEF Carries
  <2> HIDE DEF ps, qs
  <2>2. /\ qs \in Seq(ProtocolRule) /\ DOMAIN qs = DOMAIN ps
        /\ \A i \in DOMAIN ps : qs[i].fns = ps[i].fns
    <3>1. /\ qs \in Seq(ProtocolRule) /\ DOMAIN qs = DOMAIN ps /\ Len(qs) = Len(ps)
          /\ \A i \in DOMAIN ps : /\ qs[i].contract = ps[i].contract
                                  /\ qs[i].fns = ps[i].fns /\ qs[i].paused = v[i]
      BY <2>1, PausesRewritten
    <3> QED BY <3>1
  <2> QED BY <2>2 DEF ps, qs
<1>3. <<>> \in Seq(WindowCap) /\ <<>> \in Seq(Addresses) /\ Absent \in NotLists
  BY DEF NotLists
<1>4. IsForm(q)
  <2>1. /\ q.recipient_window_caps \in {p.recipient_window_caps, <<>>, Absent}
        /\ q.blocked_recipients \in {p.blocked_recipients, <<>>, Absent}
        /\ q.asset_caps \in {p.asset_caps, <<>>, Absent}
        /\ q.assets = p.assets /\ q.recipients = p.recipients
        /\ q.protocol_calls_per_window \in Int \cup {Absent}
        /\ q = [f \in Fields |-> q[f]]
        /\ \A f \in Integers_ : q[f] = p[f]
        /\ \A f \in Flags : q[f] = p[f]
    BY DEF Carries, OptionalLists, Integral
  <2>2. /\ q.recipient_window_caps \in Seq(WindowCap) \cup NotLists
        /\ q.asset_caps \in Seq(WindowCap) \cup NotLists
    BY <1>3, <2>1, FormIs
  <2>3. \A f \in AddressLists : q[f] \in Seq(Addresses) \cup NotLists
    BY <1>3, <2>1, FormIs DEF AddressLists
  <2>4. /\ \A f \in Integers_ : q[f] \in Int \cup NotLists \cup {Numeral}
        /\ \A f \in Flags : q[f] \in BOOLEAN \cup NotLists
    BY <2>1, FormIs
  <2> QED BY <1>2, <2>1, <2>2, <2>3, <2>4, IsAForm
<1>5. ASSUME Readable(p) PROVE Readable(q)
  <2>1. \A f \in RequiredLists : isArray(q[f])
    BY <1>2, <1>5, ListsAreArrays DEF Readable, Carries, RequiredLists
  <2>2. \A f \in OptionalLists : q[f] # Junk
    <3>1. <<>> # Junk /\ Absent # Junk
      BY <1>3, ListsAreArrays, PolicyFormsAssumption DEF PolicyFormsAssumption, isArray
    <3> QED BY <1>5, <3>1 DEF Readable, Carries
  <2>3. \A r \in Items(q.protocols) : RuleShape(r)
    <3>1. \A i \in DOMAIN p.protocols : RuleShape(p.protocols[i])
      BY <1>5 DEF Readable, Items, Range
    <3>2. \A i \in DOMAIN q.protocols : RuleShape(q.protocols[i])
      BY <1>2, <3>1 DEF RuleShape
    <3> QED BY <3>2 DEF Items, Range
  <2> QED BY <2>1, <2>2, <2>3 DEF Readable
<1> QED BY <1>2, <1>4, <1>5

\* What a form says but for its asset caps.
Says(p, caps) == [Meaning(p) EXCEPT !["asset_caps"] = caps]

LEMMA CarriedMeaning ==
  ASSUME NEW p, IsForm(p), isArray(p.protocols), NEW q, NEW v, Carries(p, q, v),
         Pauses(v, p)
  PROVE  Meaning(q) = Says(p, Items(q.asset_caps))
<1>1. p.protocols \in Seq(ProtocolRule)
  BY FormIs DEF isArray, NotLists
<1>2. {RuleMeaning(r) : r \in Range(q.protocols)}
        = {RuleMeaning(r) : r \in Range(p.protocols)}
  <2> DEFINE ps == p.protocols
             qs == q.protocols
  <2>1. /\ ps \in Seq(ProtocolRule)
        /\ \A i \in DOMAIN ps : /\ v[i] \in BOOLEAN \cup {Absent}
                                /\ Or(v[i], FALSE) = Or(ps[i].paused, FALSE)
        /\ qs = Repaused(ps, v)
    BY <1>1 DEF Carries, Pauses
  <2> HIDE DEF ps, qs
  <2>2. {RuleMeaning(r) : r \in Range(qs)} = {RuleMeaning(r) : r \in Range(ps)}
    BY <2>1, PausesKept
  <2> QED BY <2>2 DEF ps, qs
<1>3. /\ \A f \in {"assets", "recipients"} : q[f] = p[f]
      /\ \A f \in OptionalLists : Items(q[f]) = Items(p[f])
      /\ Or(q.protocol_calls_per_window, 0) = Or(p.protocol_calls_per_window, 0)
      /\ \A f \in Integral : q[f] = p[f]
  BY DEF Carries
<1> DEFINE mp == Meaning(p)
           mq == Meaning(q)
<1>4. mp = [f \in Fields |-> mp[f]] /\ mq = [f \in Fields |-> mq[f]]
  BY MeaningIs
<1>5. ASSUME NEW f \in Fields, f # "asset_caps" PROVE mq[f] = mp[f]
  <2>1. CASE f = "protocols"
    BY <1>2, <2>1, MeaningIs
  <2>2. CASE f \in AddressLists \cup {"recipient_window_caps"}
    <3>1. Items(q[f]) = Items(p[f])
      BY <1>3, <2>2 DEF AddressLists, OptionalLists
    <3> QED BY <2>2, <3>1, MeaningIs
  <2>3. CASE f = "protocol_calls_per_window"
    BY <1>3, <2>3, MeaningIs
  <2>4. CASE f \in Integral
    BY <1>3, <2>4, MeaningIs
  <2> QED BY <1>5, <2>1, <2>2, <2>3, <2>4, FieldsAre
<1>6. mq["asset_caps"] = Items(q.asset_caps)
  BY MeaningIs
<1> HIDE DEF mp, mq
<1>7. mq = [mp EXCEPT !["asset_caps"] = Items(q.asset_caps)]
  BY <1>4, <1>5, <1>6
<1> QED BY <1>7 DEF mp, mq, Says

\* Replacing the asset caps replaces what is said of them.
LEMMA CapsReplaced ==
  ASSUME NEW p, IsForm(p), NEW caps \in Seq(WindowCap) \cup NotLists
  PROVE  LET q == [p EXCEPT !.asset_caps = caps] IN
           /\ IsForm(q) /\ Meaning(q) = Says(p, Items(caps))
           /\ Readable(q) <=> Readable(p)
<1> DEFINE q == [p EXCEPT !.asset_caps = caps]
<1>1. /\ q = [f \in Fields |-> q[f]] /\ q.asset_caps = caps
      /\ \A f \in Fields : f # "asset_caps" => q[f] = p[f]
  <2>1. DOMAIN p = Fields /\ "asset_caps" \in Fields
    BY FormIs, FieldsAre
  <2> QED BY <2>1
<1> HIDE DEF q
<1>2. /\ q.protocols = p.protocols
      /\ \A f \in Integral \cup AddressLists
                  \cup {"recipient_window_caps", "protocol_calls_per_window"} : q[f] = p[f]
  BY <1>1, FieldsAre DEF AddressLists
<1>3. IsForm(q)
  <2>1. /\ \A f \in Integers_ : q[f] = p[f]
        /\ \A f \in Flags : q[f] = p[f]
        /\ \A f \in AddressLists : q[f] = p[f]
        /\ q.recipient_window_caps = p.recipient_window_caps
        /\ q.protocol_calls_per_window = p.protocol_calls_per_window
    BY <1>2 DEF Integral
  <2> QED BY <1>1, <1>2, <2>1, FormIs, IsAForm
<1>4. Readable(q) <=> Readable(p)
  BY <1>2 DEF Readable, RequiredLists, OptionalLists, AddressLists
<1> DEFINE mp == Meaning(p)
           mq == Meaning(q)
<1>5. mp = [f \in Fields |-> mp[f]] /\ mq = [f \in Fields |-> mq[f]]
  BY MeaningIs
<1>6. ASSUME NEW f \in Fields, f # "asset_caps" PROVE mq[f] = mp[f]
  <2>1. CASE f = "protocols"
    BY <1>2, <2>1, MeaningIs
  <2>2. CASE f \in AddressLists \cup {"recipient_window_caps"}
    BY <1>2, <2>2, MeaningIs
  <2>3. CASE f = "protocol_calls_per_window"
    BY <1>2, <2>3, MeaningIs
  <2>4. CASE f \in Integral
    BY <1>2, <2>4, MeaningIs
  <2> QED BY <1>6, <2>1, <2>2, <2>3, <2>4, FieldsAre
<1>7. mq["asset_caps"] = Items(caps)
  BY <1>1, MeaningIs
<1> HIDE DEF mp, mq
<1>8. mq = [mp EXCEPT !["asset_caps"] = Items(caps)]
  BY <1>5, <1>6, <1>7
<1>9. Meaning(q) = Says(p, Items(caps))
  BY <1>8 DEF mp, mq, Says
<1> QED BY <1>3, <1>4, <1>9 DEF q

\* A pause by its value: what each conversion makes of it says the same.
LEMMA PauseValues ==
  ASSUME NEW x \in BOOLEAN \cup {Absent}
  PROVE  /\ Or(x, FALSE) \in BOOLEAN /\ Or(Or(x, FALSE), FALSE) = Or(x, FALSE)
         /\ Or(IF x = TRUE THEN TRUE ELSE Absent, FALSE) = Or(x, FALSE)
         /\ Or(Absent, FALSE) = FALSE
<1>1. Absent \notin BOOLEAN /\ Null \notin BOOLEAN
  BY PolicyFormsAssumption DEF PolicyFormsAssumption, NotLists
<1>2. CASE x = Absent
  BY <1>1, <1>2 DEF Or
<1>3. CASE x = TRUE
  BY <1>1, <1>3 DEF Or
<1>4. CASE x = FALSE
  BY <1>1, <1>4 DEF Or
<1> QED BY <1>2, <1>3, <1>4

LEMMA RulePauses ==
  ASSUME NEW p, IsForm(p), isArray(p.protocols)
  PROVE  /\ p.protocols \in Seq(ProtocolRule)
         /\ \A i \in DOMAIN p.protocols : /\ p.protocols[i] \in ProtocolRule
                                          /\ p.protocols[i].paused \in BOOLEAN \cup {Absent}
<1>1. p.protocols \in Seq(ProtocolRule)
  BY FormIs DEF isArray, NotLists
<1>2. \A i \in DOMAIN p.protocols : p.protocols[i] \in ProtocolRule
  BY <1>1
<1>3. \A r \in ProtocolRule : r.paused \in BOOLEAN \cup {Absent}
  BY DEF ProtocolRule
<1> QED BY <1>1, <1>2, <1>3

\* policyToJson().
LEMMA JsonCarries ==
  ASSUME NEW p, IsForm(p), isArray(p.protocols)
  PROVE  \E v : Carries(p, policyToJson(p), v) /\ Pauses(v, p)
<1> DEFINE q == policyToJson(p)
           ps == p.protocols
           v == [i \in DOMAIN ps |-> IF ps[i].paused = TRUE THEN TRUE ELSE Absent]
<1>1. DOMAIN p = Fields
  BY FormIs
<1>2. /\ q = [f \in Fields |-> q[f]]
      /\ q.protocols = [i \in DOMAIN ps |-> JsonRule(ps[i])]
      /\ q.asset_caps = Absent
      /\ \A f \in Fields \ {"protocols", "asset_caps"} : q[f] = p[f]
  BY <1>1, FieldsAre DEF policyToJson
<1>3. q.protocols = Repaused(ps, v)
  BY <1>2 DEF JsonRule, Repaused
<1>4. Pauses(v, p)
  BY RulePauses, PauseValues DEF Pauses
<1> HIDE DEF q, v
<1>5. Carries(p, q, v)
  <2>1. \A f \in Integral \cup {"assets", "recipients"} \cup OptionalLists
               \cup {"protocol_calls_per_window"} : q[f] = p[f]
    BY <1>2, FieldsAre DEF AddressLists, OptionalLists
  <2>2. p.protocol_calls_per_window \in Int \cup {Absent}
    BY FormIs
  <2> QED BY <1>2, <1>3, <2>1, <2>2 DEF Carries
<1> QED BY <1>4, <1>5 DEF q

\* policyToScVal(), field by field.
LEMMA ScValFields ==
  ASSUME NEW p, IsForm(p)
  PROVE  LET q == policyToScVal(p)
             ps == p.protocols IN
         /\ q = [f \in Fields |-> q[f]]
         /\ q.protocols = [i \in DOMAIN ps |-> [ps[i] EXCEPT !.paused = Or(ps[i].paused, FALSE)]]
         /\ \A f \in OptionalLists : q[f] = Or(p[f], <<>>)
         /\ q.protocol_calls_per_window = Or(p.protocol_calls_per_window, 0)
         /\ q.asset_caps = <<>>
         /\ \A f \in Integral \cup {"assets", "recipients"} : q[f] = p[f]
<1> DEFINE q == policyToScVal(p)
           ps == p.protocols
<1>1. DOMAIN p = Fields
  BY FormIs
<1>2. /\ q = [f \in Fields |-> q[f]]
      /\ q.recipient_window_caps = Or(p.recipient_window_caps, <<>>)
      /\ q.blocked_recipients = Or(p.blocked_recipients, <<>>)
      /\ q.protocol_calls_per_window = Or(p.protocol_calls_per_window, 0)
      /\ q.asset_caps = <<>>
      /\ \A f \in Fields \ {"protocols", "recipient_window_caps", "blocked_recipients",
                            "protocol_calls_per_window", "asset_caps"} : q[f] = p[f]
  BY <1>1, FieldsAre, Zenon DEF policyToScVal, AddressLists
<1>3. q.protocols = [i \in DOMAIN ps |-> [ps[i] EXCEPT !.paused = Or(ps[i].paused, FALSE)]]
  BY <1>1, FieldsAre DEF policyToScVal
<1>4. Integral \cup {"assets", "recipients"}
        \subseteq Fields \ {"protocols", "recipient_window_caps", "blocked_recipients",
                            "protocol_calls_per_window", "asset_caps"}
  BY FieldsAre DEF AddressLists
<1> HIDE DEF q
<1> QED BY <1>2, <1>3, <1>4 DEF OptionalLists, q

LEMMA ScValCarries ==
  ASSUME NEW p, IsForm(p), isArray(p.protocols)
  PROVE  \E v : Carries(p, policyToScVal(p), v) /\ Pauses(v, p)
<1> DEFINE q == policyToScVal(p)
           ps == p.protocols
           v == [i \in DOMAIN ps |-> Or(ps[i].paused, FALSE)]
<1>2. /\ q = [f \in Fields |-> q[f]]
      /\ q.protocols = [i \in DOMAIN ps |-> [ps[i] EXCEPT !.paused = Or(ps[i].paused, FALSE)]]
      /\ \A f \in OptionalLists : q[f] = Or(p[f], <<>>)
      /\ q.protocol_calls_per_window = Or(p.protocol_calls_per_window, 0)
      /\ q.asset_caps = <<>>
      /\ \A f \in Integral \cup {"assets", "recipients"} : q[f] = p[f]
  BY ScValFields
<1>3. q.protocols = Repaused(ps, v)
  BY <1>2 DEF Repaused
<1>4. Pauses(v, p)
  BY RulePauses, PauseValues DEF Pauses
<1> HIDE DEF q, v
<1>5. Carries(p, q, v)
  <2>1. \A f \in OptionalLists : q[f] \in {p[f], <<>>, Absent} /\ Items(q[f]) = Items(p[f])
    <3> SUFFICES ASSUME NEW f \in OptionalLists
                 PROVE  q[f] \in {p[f], <<>>, Absent} /\ Items(q[f]) = Items(p[f])
      OBVIOUS
    <3>1. Items(<<>>) = {}
      BY DEF Items, Range
    <3>2. p[f] \in {Absent, Null} => Items(p[f]) = {}
      BY DEF Items, isArray
    <3> QED BY <1>2, <3>1, <3>2 DEF Or
  <2>2. q.protocol_calls_per_window \in Int \cup {Absent}
        /\ Or(q.protocol_calls_per_window, 0) = Or(p.protocol_calls_per_window, 0)
    BY <1>2, FormIs DEF Or
  <2> QED BY <1>2, <1>3, <2>1, <2>2 DEF Carries
<1> QED BY <1>4, <1>5 DEF q

\* decodePolicy().
LEMMA DecodeCarries ==
  ASSUME NEW p, IsForm(p), isArray(p.protocols)
  PROVE  \E v : Carries(p, decodePolicy(p), v) /\ Pauses(v, p)
<1> DEFINE q == decodePolicy(p)
           ps == p.protocols
           v == [i \in DOMAIN ps |-> IF ps[i].paused = TRUE THEN TRUE ELSE Absent]
<1>1. DOMAIN p = Fields
  BY FormIs
<1>2. /\ q = [f \in Fields |-> q[f]]
      /\ q.protocols = [i \in DOMAIN ps |-> DecodedRule(ps[i])]
      /\ \A f \in OptionalLists : q[f] = Omit(p[f], <<>>)
      /\ q.protocol_calls_per_window = Omit(p.protocol_calls_per_window, 0)
      /\ q.asset_caps = Absent
      /\ \A f \in Integral \cup {"assets", "recipients"} : q[f] = p[f]
  <2>1. /\ q = [f \in Fields |-> q[f]]
        /\ q.recipient_window_caps = Omit(p.recipient_window_caps, <<>>)
        /\ q.blocked_recipients = Omit(p.blocked_recipients, <<>>)
        /\ q.protocol_calls_per_window = Omit(p.protocol_calls_per_window, 0)
        /\ q.asset_caps = Absent
        /\ \A f \in Fields \ {"protocols", "recipient_window_caps", "blocked_recipients",
                              "protocol_calls_per_window", "asset_caps"} : q[f] = p[f]
    BY <1>1, FieldsAre DEF decodePolicy, AddressLists
  <2>2. q.protocols = [i \in DOMAIN ps |-> DecodedRule(ps[i])]
    BY <1>1, FieldsAre DEF decodePolicy
  <2>3. Integral \cup {"assets", "recipients"}
          \subseteq Fields \ {"protocols", "recipient_window_caps", "blocked_recipients",
                              "protocol_calls_per_window", "asset_caps"}
    BY FieldsAre DEF AddressLists
  <2> HIDE DEF q
  <2> QED BY <2>1, <2>2, <2>3 DEF OptionalLists
<1>3. q.protocols = Repaused(ps, v)
  BY <1>2 DEF DecodedRule, Repaused
<1>4. Pauses(v, p)
  BY RulePauses, PauseValues DEF Pauses
<1> HIDE DEF q, v
<1>5. Carries(p, q, v)
  <2>1. \A f \in OptionalLists : q[f] \in {p[f], <<>>, Absent} /\ Items(q[f]) = Items(p[f])
    <3> SUFFICES ASSUME NEW f \in OptionalLists
                 PROVE  q[f] \in {p[f], <<>>, Absent} /\ Items(q[f]) = Items(p[f])
      OBVIOUS
    <3>1. Items(<<>>) = {}
      BY DEF Items, Range
    <3>2. /\ p[f] \in {Absent, Null} => Items(p[f]) = {}
          /\ Items(Absent) = {}
      BY DEF Items, isArray
    <3> QED BY <1>2, <3>1, <3>2 DEF Or, Omit
  <2>2. q.protocol_calls_per_window \in Int \cup {Absent}
        /\ Or(q.protocol_calls_per_window, 0) = Or(p.protocol_calls_per_window, 0)
    BY <1>2, FormIs DEF Or, Omit
  <2> QED BY <1>2, <1>3, <2>1, <2>2 DEF Carries
<1> QED BY <1>4, <1>5 DEF q

\* freezePolicy(): what is left says what the policy said without its pauses.
Bare(m) == [m EXCEPT !["protocols"] =
              {[contract |-> r.contract, paused |-> FALSE, fns |-> r.fns] :
                 r \in m["protocols"]}]

LEMMA FreezeCarries ==
  ASSUME NEW p, IsForm(p), isArray(p.protocols)
  PROVE  LET q == WithoutRulePauses(p) IN
           /\ IsForm(q) /\ (Readable(p) => Readable(q))
           /\ Meaning(q) = Bare(Meaning(p))
<1> DEFINE q == WithoutRulePauses(p)
           ps == p.protocols
           qs == q.protocols
           v == [i \in DOMAIN ps |-> Absent]
<1>1. DOMAIN p = Fields
  BY FormIs
<1>2. /\ q = [f \in Fields |-> q[f]]
      /\ qs = [i \in DOMAIN ps |-> [ps[i] EXCEPT !.paused = Absent]]
      /\ \A f \in Fields \ {"protocols"} : q[f] = p[f]
  BY <1>1, FieldsAre DEF WithoutRulePauses
<1>3. qs = Repaused(ps, v)
  BY <1>2 DEF Repaused
<1>4. \A i \in DOMAIN ps : v[i] = Absent
  OBVIOUS
<1> HIDE DEF q, v, ps, qs
<1>5. Carries(p, q, v)
  <2>1. \A f \in Integral \cup {"assets", "recipients", "asset_caps"} \cup OptionalLists
               \cup {"protocol_calls_per_window"} : q[f] = p[f]
    BY <1>2, FieldsAre DEF AddressLists, OptionalLists
  <2>2. p.protocol_calls_per_window \in Int \cup {Absent}
    BY FormIs
  <2> QED BY <1>2, <1>3, <2>1, <2>2 DEF Carries, ps, qs
<1>6. IsForm(q) /\ (Readable(p) => Readable(q))
  BY <1>4, <1>5, CarriedForm DEF ps
<1>7. /\ DOMAIN qs = DOMAIN ps
      /\ \A i \in DOMAIN ps : /\ qs[i].contract = ps[i].contract
                              /\ qs[i].fns = ps[i].fns /\ qs[i].paused = Absent
  <2>1. ps \in Seq(ProtocolRule) /\ \A i \in DOMAIN ps : v[i] \in BOOLEAN \cup {Absent}
    BY <1>4, RulePauses DEF ps
  <2> QED BY <1>3, <1>4, <2>1, PausesRewritten
<1> DEFINE Stripped(m) == [contract |-> m.contract, paused |-> FALSE, fns |-> m.fns]
           A == {RuleMeaning(r) : r \in Range(qs)}
           B == {Stripped(m) : m \in {RuleMeaning(r) : r \in Range(ps)}}
<1>8. A = B
  <2>1. \A i \in DOMAIN ps : RuleMeaning(qs[i]) = Stripped(RuleMeaning(ps[i]))
    <3>1. Or(Absent, FALSE) = FALSE
      BY DEF Or
    <3> QED BY <1>7, <3>1 DEF RuleMeaning
  <2> HIDE DEF Stripped
  <2>2. /\ \A x : x \in A <=> \E i \in DOMAIN qs : x = RuleMeaning(qs[i])
        /\ \A x : x \in B <=> \E i \in DOMAIN ps : x = Stripped(RuleMeaning(ps[i]))
    BY DEF Range
  <2> HIDE DEF A, B
  <2>3. \A x : x \in A <=> x \in B
    <3> SUFFICES ASSUME NEW x PROVE x \in A <=> x \in B
      OBVIOUS
    <3>1. (\E i \in DOMAIN qs : x = RuleMeaning(qs[i]))
            <=> \E i \in DOMAIN ps : x = Stripped(RuleMeaning(ps[i]))
      BY <1>7, <2>1, Zenon
    <3> QED BY <2>2, <3>1, Zenon
  <2> QED BY <2>3, Zenon
<1> DEFINE mp == Meaning(p)
           mq == Meaning(q)
<1>9. mp = [f \in Fields |-> mp[f]] /\ mq = [f \in Fields |-> mq[f]]
  BY MeaningIs
<1>10. ASSUME NEW f \in Fields, f # "protocols" PROVE mq[f] = mp[f]
  <2>0. q[f] = p[f]
    BY <1>2, <1>10
  <2>2. CASE f \in AddressLists \cup {"recipient_window_caps", "asset_caps"}
    BY <2>0, <2>2, MeaningIs
  <2>3. CASE f = "protocol_calls_per_window"
    BY <2>0, <2>3, MeaningIs
  <2>4. CASE f \in Integral
    BY <2>0, <2>4, MeaningIs
  <2> QED BY <1>10, <2>2, <2>3, <2>4, FieldsAre
<1>11. mq["protocols"] = A /\ mp["protocols"] = {RuleMeaning(r) : r \in Range(ps)}
  BY MeaningIs DEF ps, qs
<1> HIDE DEF mp, mq, A
<1>12. mq = [mp EXCEPT !["protocols"] = {Stripped(m) : m \in mp["protocols"]}]
  BY <1>8, <1>9, <1>10, <1>11
<1> QED BY <1>6, <1>12 DEF mp, mq, q, Bare

-----------------------------------------------------------------------------
(* What the guards of the conversions say of a form.                        *)

LEMMA ConfigIsReadable ==
  ASSUME NEW p, IsPolicyConfig(p)
  PROVE  Readable(p)
<1>1. \A f \in RequiredLists : isArray(p[f])
  BY DEF IsPolicyConfig
<1>2. \A f \in OptionalLists : p[f] # Junk
  BY PolicyFormsAssumption DEF PolicyFormsAssumption, IsPolicyConfig, isArray
<1>3. \A r \in Items(p.protocols) : RuleShape(r)
  BY DEF IsPolicyConfig, Items, Range
<1> QED BY <1>1, <1>2, <1>3 DEF Readable

LEMMA EncodingRules ==
  ASSUME NEW p, Encodes(p)
  PROVE  /\ \A f \in Integers_ : EncodingInteger(p[f], f) = {}
         /\ \A f \in AddressLists : EncodingAddresses(p[f], f) = {}
         /\ \A f \in Flags : EncodingBoolean(p[f], f) = {}
         /\ EncodingProtocols(p.protocols) = {}
         /\ EncodingCaps(p.recipient_window_caps) = {}
<1> DEFINE all == validatePolicyForEncoding(p)
<1>0. all = {}
  BY DEF Encodes
<1>1. ASSUME NEW f \in Integers_ PROVE EncodingInteger(p[f], f) \subseteq all
  BY DEF validatePolicyForEncoding
<1>2. ASSUME NEW f \in AddressLists PROVE EncodingAddresses(p[f], f) \subseteq all
  BY DEF validatePolicyForEncoding, AddressLists
<1>3. ASSUME NEW f \in Flags PROVE EncodingBoolean(p[f], f) \subseteq all
  BY DEF validatePolicyForEncoding
<1>4. /\ EncodingProtocols(p.protocols) \subseteq all
      /\ EncodingCaps(p.recipient_window_caps) \subseteq all
  BY DEF validatePolicyForEncoding
<1> HIDE DEF all
<1> QED BY <1>0, <1>1, <1>2, <1>3, <1>4

LEMMA EncodesIsReadable ==
  ASSUME NEW p, Encodes(p)
  PROVE  Readable(p)
<1>0. Absent # Null /\ Absent # Junk /\ Null # Junk
  BY PolicyFormsAssumption DEF PolicyFormsAssumption
<1>1. \A f \in {"assets", "recipients"} : isArray(p[f])
  <2> SUFFICES ASSUME NEW f \in {"assets", "recipients"} PROVE isArray(p[f])
    OBVIOUS
  <2>1. EncodingAddresses(p[f], f) = {} /\ f \in RequiredLists
    BY EncodingRules DEF AddressLists, RequiredLists
  <2> QED BY <1>0, <2>1 DEF EncodingAddresses, When, isArray
<1>2. p.blocked_recipients # Junk
  <2>1. EncodingAddresses(p.blocked_recipients, "blocked_recipients") = {}
    BY EncodingRules DEF AddressLists
  <2> QED BY <1>0, <2>1 DEF EncodingAddresses
<1>3. p.recipient_window_caps # Junk
  BY <1>0, EncodingRules DEF EncodingCaps
<1>4. isArray(p.protocols)
  BY EncodingRules DEF EncodingProtocols
<1>5. \A r \in Items(p.protocols) : RuleShape(r)
  <2> SUFFICES ASSUME NEW r \in Range(p.protocols) PROVE RuleShape(r)
    BY DEF Items
  <2>1. When(r.fns = Absent, <<"protocols", "missing_field">>) = {}
        /\ When(r.fns = Junk, <<"protocols", "invalid_type">>) = {}
    BY <1>4, EncodingRules DEF EncodingProtocols
  <2> QED BY <2>1 DEF When, RuleShape, isArray
<1> QED BY <1>1, <1>2, <1>3, <1>4, <1>5 DEF Readable, RequiredLists, OptionalLists

-----------------------------------------------------------------------------
(* The session.                                                            *)

\* A form that can be read says what it is meant to say.
Kept(form, m) ==
  /\ IsForm(form) /\ IsForm(m)
  /\ Readable(form) => Readable(m) /\ Meaning(form) = Meaning(m)

SessionInv ==
  /\ edits \in 0..MaxEdits
  /\ meant = [place \in Places |-> meant[place]]
  /\ Kept(current, meant["current"])
  /\ json # None => Readable(json) /\ Kept(json, meant["json"])
  /\ installed # None => Readable(installed) /\ Kept(installed, meant["installed"])

LEMMA ReadableLists ==
  ASSUME NEW p, Readable(p)
  PROVE  isArray(p.protocols) /\ isArray(p.assets) /\ isArray(p.recipients)
BY DEF Readable, RequiredLists

\* A form that carries another keeps what that was meant to say.
LEMMA KeptByCarrying ==
  ASSUME NEW p, NEW m, Kept(p, m), Readable(p), NEW q, NEW v, Carries(p, q, v),
         Pauses(v, p), Items(q.asset_caps) = {}
  PROVE  /\ Readable(q) /\ Kept(q, [m EXCEPT !.asset_caps = Absent])
         /\ Items(p.asset_caps) = {} => Kept(q, m)
<1> DEFINE n == [m EXCEPT !.asset_caps = Absent]
<1>1. IsForm(p) /\ IsForm(m) /\ Readable(m) /\ Meaning(p) = Meaning(m)
  BY DEF Kept
<1>2. isArray(p.protocols)
  BY ReadableLists
<1>3. \A i \in DOMAIN p.protocols : v[i] \in BOOLEAN \cup {Absent}
  BY DEF Pauses
<1>4. IsForm(q) /\ Readable(q) /\ Meaning(q) = Says(p, {})
  BY <1>1, <1>2, <1>3, CarriedForm, CarriedMeaning
<1>5. Absent \in NotLists /\ Items(Absent) = {}
  BY DEF NotLists, Items, isArray
<1>6. IsForm(n) /\ Meaning(n) = Says(m, {}) /\ Readable(n)
  BY <1>1, <1>5, CapsReplaced
<1>7. Says(p, {}) = Says(m, {})
  BY <1>1 DEF Says
<1>8. ASSUME Items(p.asset_caps) = {} PROVE Says(p, {}) = Meaning(p)
  <2> DEFINE mp == Meaning(p)
  <2>1. mp = [f \in Fields |-> mp[f]] /\ mp["asset_caps"] = {}
    BY <1>8, MeaningIs
  <2> HIDE DEF mp
  <2>2. [mp EXCEPT !["asset_caps"] = {}] = mp
    BY <2>1
  <2> QED BY <2>2 DEF mp, Says
<1> HIDE DEF n
<1>9. Kept(q, n)
  BY <1>4, <1>6, <1>7 DEF Kept
<1>10. Items(p.asset_caps) = {} => Kept(q, m)
  BY <1>1, <1>4, <1>8 DEF Kept
<1> QED BY <1>4, <1>9, <1>10 DEF n

LEMMA KeptByFreezing ==
  ASSUME NEW p, NEW m, Kept(p, m), Readable(p)
  PROVE  Kept(WithoutRulePauses(p), WithoutRulePauses(m))
<1>1. IsForm(p) /\ IsForm(m) /\ Readable(m) /\ Meaning(p) = Meaning(m)
  BY DEF Kept
<1>2. isArray(p.protocols) /\ isArray(m.protocols)
  BY <1>1, ReadableLists
<1> QED BY <1>1, <1>2, FreezeCarries DEF Kept

LEMMA InitSession == Init => SessionInv
<1> SUFFICES ASSUME Init PROVE SessionInv
  OBVIOUS
<1>1. IsForm(current) /\ edits \in 0..MaxEdits
  BY PolicyLifecycleAssumption DEF Init, PolicyLifecycleAssumption
<1>2. meant = [place \in Places |-> meant[place]] /\ meant["current"] = current
  BY DEF Init, Places
<1>3. Kept(current, meant["current"])
  BY <1>1, <1>2 DEF Kept
<1> QED BY <1>1, <1>2, <1>3 DEF SessionInv, Init

LEMMA StepSession == SessionInv /\ [Next]_vars => SessionInv'
<1> SUFFICES ASSUME SessionInv, [Next]_vars PROVE SessionInv'
  OBVIOUS
<1>0. /\ edits \in 0..MaxEdits
      /\ meant = [place \in Places |-> meant[place]]
      /\ Kept(current, meant["current"])
      /\ json # None => Readable(json) /\ Kept(json, meant["json"])
      /\ installed # None => Readable(installed) /\ Kept(installed, meant["installed"])
      /\ MaxEdits \in Nat
  BY PolicyLifecycleAssumption DEF SessionInv, PolicyLifecycleAssumption
<1>p. "current" \in Places /\ "json" \in Places /\ "installed" \in Places
  BY DEF Places
<1>1. CASE \E f \in Fields : Edit(f)
  <2>1. PICK f \in Fields : Edit(f)
    BY <1>1
  <2>2. edits' \in 0..MaxEdits /\ edits' \in 1..MaxEdits
    BY <1>0, <2>1 DEF Edit
  <2>3. PICK x \in Values(f, edits') : current' = [current EXCEPT ![f] = x]
    BY <2>1 DEF Edit
  <2>4. x \in FieldValues(f)
    BY <2>2, PolicyLifecycleAssumption DEF PolicyLifecycleAssumption
  <2>5. IsForm(current')
    <3>1. IsForm(current) /\ DOMAIN current = Fields
      BY <1>0, FormIs DEF Kept
    <3>2. /\ current' = [g \in Fields |-> current'[g]]
          /\ current'[f] = x /\ \A g \in Fields \ {f} : current'[g] = current[g]
      BY <2>3, <3>1
    <3>3. \A g \in Fields : current[g] \in FieldValues(g)
      BY <3>1 DEF IsForm
    <3> QED BY <2>4, <3>2, <3>3 DEF IsForm
  <2>6. /\ meant' = [place \in Places |-> meant'[place]] /\ meant'["current"] = current'
        /\ meant'["json"] = meant["json"] /\ meant'["installed"] = meant["installed"]
        /\ json' = json /\ installed' = installed
    BY <1>0, <1>p, <2>1 DEF Edit
  <2>7. Kept(current', meant'["current"])
    BY <2>5, <2>6 DEF Kept
  <2> QED BY <1>0, <2>2, <2>6, <2>7 DEF SessionInv
<1>2. CASE Freeze
  <2>1. /\ meant' = [place \in Places |-> meant'[place]]
        /\ meant'["current"] = WithoutRulePauses(meant["current"])
        /\ meant'["json"] = meant["json"] /\ meant'["installed"] = meant["installed"]
        /\ json' = json /\ installed' = installed /\ edits' = edits
        /\ current' = WithoutRulePauses(current)
    BY <1>0, <1>p, <1>2 DEF Freeze, freezePolicy
  <2>2. Readable(current)
    BY <1>2, ConfigIsReadable DEF Freeze
  <2>3. Kept(current', meant'["current"])
    BY <1>0, <2>1, <2>2, KeptByFreezing
  <2> QED BY <1>0, <2>1, <2>3 DEF SessionInv
<1>3. CASE SaveJson
  <2> DEFINE m == meant["current"]
             n == [m EXCEPT !.asset_caps = Absent]
  <2>1. /\ meant' = [place \in Places |-> meant'[place]]
        /\ meant'["json"] = n
        /\ meant'["current"] = meant["current"] /\ meant'["installed"] = meant["installed"]
        /\ current' = current /\ installed' = installed /\ edits' = edits
        /\ json' = policyToJson(current)
    BY <1>0, <1>p, <1>3 DEF SaveJson
  <2>2. Readable(current)
    BY <1>3, ConfigIsReadable DEF SaveJson
  <2>3. IsForm(current) /\ isArray(current.protocols)
    BY <1>0, <2>2, ReadableLists DEF Kept
  <2>4. PICK v : Carries(current, json', v) /\ Pauses(v, current)
    BY <2>1, <2>3, JsonCarries
  <2>5. Items(json'.asset_caps) = {}
    <3>1. DOMAIN current = Fields /\ "asset_caps" \in Fields
      BY <2>3, FormIs, FieldsAre
    <3>2. json'.asset_caps = Absent
      BY <2>1, <3>1 DEF policyToJson
    <3> QED BY <3>2 DEF Items, isArray
  <2>6. Readable(json') /\ Kept(json', n)
    BY <1>0, <2>2, <2>4, <2>5, KeptByCarrying
  <2> HIDE DEF n, m
  <2> QED BY <1>0, <2>1, <2>6 DEF SessionInv
<1>4. CASE Load
  <2>1. /\ meant' = [place \in Places |-> meant'[place]]
        /\ meant'["current"] = meant["json"]
        /\ meant'["json"] = meant["json"] /\ meant'["installed"] = meant["installed"]
        /\ current' = json /\ json' = json /\ installed' = installed /\ edits' = edits
        /\ json # None
    BY <1>0, <1>p, <1>4 DEF Load, policyFromJson, Exists
  <2>2. Kept(current', meant'["current"])
    BY <1>0, <2>1
  <2> QED BY <1>0, <2>1, <2>2 DEF SessionInv
<1>5. CASE Submit
  <2> DEFINE m == meant["current"]
             n == [m EXCEPT !.asset_caps = Absent]
  <2>1. /\ meant' = [place \in Places |-> meant'[place]]
        /\ meant'["installed"] = n
        /\ meant'["current"] = meant["current"] /\ meant'["json"] = meant["json"]
        /\ current' = current /\ json' = json /\ edits' = edits
        /\ installed' = policyToScVal(current)
    BY <1>0, <1>p, <1>5 DEF Submit
  <2>2. Readable(current)
    BY <1>5, EncodesIsReadable DEF Submit
  <2>3. IsForm(current) /\ isArray(current.protocols)
    BY <1>0, <2>2, ReadableLists DEF Kept
  <2>4. PICK v : Carries(current, installed', v) /\ Pauses(v, current)
    BY <2>1, <2>3, ScValCarries
  <2>5. Items(installed'.asset_caps) = {}
    <3>1. DOMAIN current = Fields /\ "asset_caps" \in Fields
      BY <2>3, FormIs, FieldsAre
    <3>2. installed'.asset_caps = <<>>
      BY <2>1, <3>1 DEF policyToScVal
    <3> QED BY <3>2 DEF Items, Range
  <2>6. Readable(installed') /\ Kept(installed', n)
    BY <1>0, <2>2, <2>4, <2>5, KeptByCarrying
  <2> HIDE DEF n, m
  <2> QED BY <1>0, <2>1, <2>6 DEF SessionInv
<1>6. CASE ForeignSet
  <2> DEFINE m == meant["installed"]
             n == [m EXCEPT !.asset_caps = AssetCaps]
             q == [installed EXCEPT !.asset_caps = AssetCaps]
  <2>1. /\ meant' = [place \in Places |-> meant'[place]]
        /\ meant'["installed"] = n
        /\ meant'["current"] = meant["current"] /\ meant'["json"] = meant["json"]
        /\ current' = current /\ json' = json /\ edits' = edits
        /\ installed' = q /\ installed # None
    BY <1>0, <1>p, <1>6 DEF ForeignSet, Exists
  <2>2. AssetCaps \in Seq(WindowCap) \cup NotLists
    BY PolicyLifecycleAssumption DEF PolicyLifecycleAssumption, FieldValues, Integers_,
       Integer128, Unsigned64, Flags
  <2>3. IsForm(installed) /\ IsForm(m) /\ Readable(installed) /\ Readable(m)
        /\ Meaning(installed) = Meaning(m)
    BY <1>0, <2>1 DEF Kept
  <2>4. /\ IsForm(q) /\ Meaning(q) = Says(installed, Items(AssetCaps)) /\ Readable(q)
        /\ IsForm(n) /\ Meaning(n) = Says(m, Items(AssetCaps)) /\ Readable(n)
    BY <2>2, <2>3, CapsReplaced
  <2> HIDE DEF n, m, q
  <2>5. Readable(q) /\ Kept(q, n)
    BY <2>3, <2>4 DEF Kept, Says
  <2> QED BY <1>0, <2>1, <2>5 DEF SessionInv
<1>7. ASSUME Exists(installed), current' = decodePolicy(installed), Decodes(installed)
      PROVE  Kept(current', meant["installed"])
  <2>1. IsForm(installed) /\ Readable(installed) /\ isArray(installed.protocols)
    BY <1>0, <1>7, ReadableLists DEF Kept, Exists
  <2>2. PICK v : Carries(installed, current', v) /\ Pauses(v, installed)
    BY <1>7, <2>1, DecodeCarries
  <2>3. Items(current'.asset_caps) = {}
    <3>1. DOMAIN installed = Fields /\ "asset_caps" \in Fields
      BY <2>1, FormIs, FieldsAre
    <3>2. current'.asset_caps = Absent
      BY <1>7, <3>1 DEF decodePolicy
    <3> QED BY <3>2 DEF Items, isArray
  <2>4. Items(installed.asset_caps) = {}
    BY <1>7 DEF Decodes, Or, Items, isArray, Range
  <2> QED BY <1>0, <1>7, <2>1, <2>2, <2>3, <2>4, KeptByCarrying DEF Exists
<1>8. CASE Decode \/ Fetch
  <2>1. /\ meant' = [place \in Places |-> meant'[place]]
        /\ meant'["current"] = meant["installed"]
        /\ meant'["json"] = meant["json"] /\ meant'["installed"] = meant["installed"]
        /\ json' = json /\ installed' = installed /\ edits' = edits /\ Exists(installed)
    BY <1>0, <1>p, <1>8 DEF Decode, Fetch
  <2>2. \/ current' = decodePolicy(installed) /\ Decodes(installed)
        \/ current' = installed
    BY <1>8 DEF Decode, Fetch, decodePolicyCandidate
  <2>3. Kept(current', meant'["current"])
    BY <1>0, <1>7, <2>1, <2>2 DEF Exists
  <2> QED BY <1>0, <2>1, <2>3 DEF SessionInv
<1>9. CASE UNCHANGED vars
  BY <1>9 DEF vars, SessionInv
<1> QED BY <1>1, <1>2, <1>3, <1>4, <1>5, <1>6, <1>8, <1>9 DEF Next

\* However a policy travelled, each place holds what its object said when it was
\* last edited (policy.ts, policy-json.ts): no conversion adds, drops or defaults a
\* field away, of any policy whatever, but for what the model says is lost.
THEOREM PoliciesKeepTheirMeaning == Spec => []MeaningKept
<1>1. SessionInv => MeaningKept
  BY DEF SessionInv, MeaningKept, Kept, Exists, Places
<1> QED BY <1>1, InitSession, StepSession, PTL DEF Spec

-----------------------------------------------------------------------------
(* policyDiff(), of objects the validator has nothing against.              *)

\* No two members of a list share their address.
Keyed(list, field) ==
  \A i, j \in DOMAIN list : list[i][field] = list[j][field] => i = j

Sound(p) == IsForm(p) /\ Readable(p) /\ validateGuardPolicy(p) = {}

CapsOf(p) == Or(p.recipient_window_caps, <<>>)
FnsOf(v) == IF v = Null THEN {} ELSE {Range(v)}

LEMMA FirstIsTheOne ==
  ASSUME NEW S, NEW list \in Seq(S), NEW field, Keyed(list, field), NEW i \in DOMAIN list
  PROVE  FirstWith(list, field, list[i][field]) = list[i]
<1> DEFINE key == list[i][field]
           First(k) == list[k][field] = key /\ \A j \in 1 .. k - 1 : list[j][field] # key
           c == CHOOSE k \in DOMAIN list : First(k)
<1>1. DOMAIN list = 1..Len(list) /\ Len(list) \in Nat
  OBVIOUS
<1>2. \A j \in 1 .. i - 1 : j \in DOMAIN list /\ j # i
  BY <1>1
<1>3. First(i)
  BY <1>2 DEF Keyed
<1>4. c \in DOMAIN list /\ First(c)
  BY <1>3
<1>5. c = i
  BY <1>4 DEF Keyed
<1> HIDE DEF c, key
<1> QED BY <1>5 DEF FirstWith, c, key

LEMMA NoRepeats ==
  ASSUME NEW list, NEW n \in Nat, DOMAIN list = 1..n, NEW f, NEW duplicate, NEW self,
         ListRules(list, f, duplicate, self) = {}
  PROVE  \A i, j \in DOMAIN list : list[i] = list[j] => i = j
<1>1. /\ \A a \in Range(list) : isValidStellarAddress(a)
      /\ ~Repeats(list, isValidStellarAddress)
  BY DEF ListRules, When
<1>2. \A i, j \in DOMAIN list : ~(i < j /\ list[i] = list[j])
  BY <1>1 DEF Repeats, Range
<1> QED BY <1>2

LEMMA SoundLists ==
  ASSUME NEW p, Sound(p)
  PROVE  /\ p.protocols \in Seq(ProtocolRule) /\ Keyed(p.protocols, "contract")
         /\ CapsOf(p) \in Seq(WindowCap) /\ Keyed(CapsOf(p), "recipient")
         /\ Range(CapsOf(p)) = Items(p.recipient_window_caps)
<1>1. IsForm(p) /\ Readable(p) /\ ProtocolRules(p) = {} /\ CapRules(p) = {}
  BY DEF Sound, validateGuardPolicy
<1>2. isArray(p.protocols) /\ p.protocols \in Seq(ProtocolRule)
  BY <1>1, ReadableLists, RulePauses
<1>3. Keyed(p.protocols, "contract")
  <2> DEFINE ps == p.protocols
             named == [i \in DOMAIN ps |-> ps[i].contract]
  <2>1. ListRules(named, "protocols", "duplicate_protocol", "self_as_protocol") = {}
    BY <1>1, <1>2 DEF ProtocolRules
  <2>2. Len(ps) \in Nat /\ DOMAIN named = 1..Len(ps) /\ DOMAIN ps = 1..Len(ps)
    BY <1>2
  <2>3. \A i \in DOMAIN ps : named[i] = ps[i].contract
    OBVIOUS
  <2> HIDE DEF named, ps
  <2>4. \A i, j \in DOMAIN named : named[i] = named[j] => i = j
    BY <2>1, <2>2, NoRepeats
  <2> QED BY <2>2, <2>3, <2>4 DEF Keyed, ps
<1>4. p.recipient_window_caps \in Seq(WindowCap) \/ p.recipient_window_caps \in {Absent, Null}
  BY <1>1, FormIs DEF Readable, OptionalLists, NotLists
<1>5. CASE p.recipient_window_caps \in {Absent, Null}
  <2>1. CapsOf(p) = <<>> /\ Items(p.recipient_window_caps) = {}
    BY <1>5 DEF CapsOf, Or, Items, isArray
  <2> QED BY <1>2, <1>3, <2>1 DEF Keyed, Range
<1>6. CASE p.recipient_window_caps \in Seq(WindowCap)
  <2> DEFINE caps == p.recipient_window_caps
             capped == [i \in DOMAIN caps |-> caps[i].recipient]
  <2>1. isArray(caps)
    BY <1>6, ListsAreArrays
  <2>2. CapsOf(p) = caps /\ Items(caps) = Range(caps)
    BY <2>1 DEF CapsOf, Or, Items, isArray
  <2>3. ListRules(capped, "recipient_window_caps", "duplicate_recipient_window_cap",
                  "self_as_recipient_cap") = {}
    BY <1>1, <2>1 DEF CapRules, isArray
  <2>4. Len(caps) \in Nat /\ DOMAIN capped = 1..Len(caps) /\ DOMAIN caps = 1..Len(caps)
    BY <1>6
  <2>5. \A i \in DOMAIN caps : capped[i] = caps[i].recipient
    OBVIOUS
  <2> HIDE DEF capped, caps
  <2>6. \A i, j \in DOMAIN capped : capped[i] = capped[j] => i = j
    BY <2>3, <2>4, NoRepeats
  <2>7. Keyed(caps, "recipient")
    BY <2>4, <2>5, <2>6 DEF Keyed
  <2> QED BY <1>2, <1>3, <1>6, <2>2, <2>7 DEF caps
<1> QED BY <1>4, <1>5, <1>6

\* The first of two lists has each of its caps in the second, if no cap differs.
LEMMA CapsWithin ==
  ASSUME NEW A \in Seq(WindowCap), NEW B \in Seq(WindowCap),
         Keyed(A, "recipient"), Keyed(B, "recipient"),
         Keys(A, "recipient") \subseteq Keys(B, "recipient"),
         \A q \in Keys(A, "recipient") :
           FirstWith(A, "recipient", q).cap = FirstWith(B, "recipient", q).cap
  PROVE  Range(A) \subseteq Range(B)
<1> SUFFICES ASSUME NEW i \in DOMAIN A PROVE A[i] \in Range(B)
  BY DEF Range
<1> DEFINE q == A[i].recipient
<1>1. q \in Keys(A, "recipient")
  BY DEF Keys
<1>2. PICK j \in DOMAIN B : B[j].recipient = q
  BY <1>1 DEF Keys
<1>3. FirstWith(A, "recipient", q) = A[i] /\ FirstWith(B, "recipient", q) = B[j]
  BY <1>2, FirstIsTheOne
<1>4. A[i].cap = B[j].cap
  BY <1>1, <1>3
<1>5. A[i] \in WindowCap /\ B[j] \in WindowCap
  OBVIOUS
<1>6. A[i] = B[j]
  BY <1>2, <1>4, <1>5 DEF WindowCap
<1> QED BY <1>6 DEF Range

LEMMA CapsDiffer ==
  ASSUME NEW a, NEW b, Sound(a), Sound(b)
  PROVE  windowCaps(a, b) = {}
           <=> Items(a.recipient_window_caps) = Items(b.recipient_window_caps)
<1> DEFINE A == CapsOf(a)
           B == CapsOf(b)
           mine == Keys(A, "recipient")
           theirs == Keys(B, "recipient")
           cap(list, q) == FirstWith(list, "recipient", q).cap
<1>1. /\ A \in Seq(WindowCap) /\ Keyed(A, "recipient")
      /\ B \in Seq(WindowCap) /\ Keyed(B, "recipient")
      /\ Range(A) = Items(a.recipient_window_caps)
      /\ Range(B) = Items(b.recipient_window_caps)
  BY SoundLists
<1>2. windowCaps(a, b) = {}
        <=> mine = theirs /\ \A q \in mine \cap theirs : cap(A, q) = cap(B, q)
  BY DEF windowCaps, setDiff, CapsOf
<1> HIDE DEF A, B
<1>3. ASSUME mine = theirs, \A q \in mine \cap theirs : cap(A, q) = cap(B, q)
      PROVE  Range(A) = Range(B)
  <2>1. /\ Keys(A, "recipient") \subseteq Keys(B, "recipient")
        /\ Keys(B, "recipient") \subseteq Keys(A, "recipient")
        /\ \A q \in Keys(A, "recipient") :
              FirstWith(A, "recipient", q).cap = FirstWith(B, "recipient", q).cap
        /\ \A q \in Keys(B, "recipient") :
              FirstWith(B, "recipient", q).cap = FirstWith(A, "recipient", q).cap
    BY <1>3
  <2>2. Range(A) \subseteq Range(B)
    BY <1>1, <2>1, CapsWithin
  <2>3. Range(B) \subseteq Range(A)
    BY <1>1, <2>1, CapsWithin
  <2> QED BY <2>2, <2>3
<1>4. ASSUME Range(A) = Range(B)
      PROVE  mine = theirs /\ \A q \in mine \cap theirs : cap(A, q) = cap(B, q)
  <2>1. /\ \A i \in DOMAIN A : \E j \in DOMAIN B : A[i] = B[j]
        /\ \A j \in DOMAIN B : \E i \in DOMAIN A : A[i] = B[j]
    BY <1>4 DEF Range
  <2>2. mine = theirs
    BY <2>1 DEF Keys
  <2>3. ASSUME NEW q \in mine PROVE cap(A, q) = cap(B, q)
    <3>1. PICK i \in DOMAIN A : A[i].recipient = q
      BY <2>3 DEF Keys
    <3>2. PICK j \in DOMAIN B : A[i] = B[j]
      BY <2>1
    <3>3. FirstWith(A, "recipient", q) = A[i] /\ FirstWith(B, "recipient", q) = B[j]
      BY <1>1, <3>1, <3>2, FirstIsTheOne
    <3> QED BY <3>2, <3>3
  <2> QED BY <2>2, <2>3
<1> QED BY <1>1, <1>2, <1>3, <1>4

\* The rules of a list as policyDiff() sees them: without their pauses.
Bared(r) == [contract |-> r.contract, paused |-> FALSE, fns |-> FnsOf(r.fns)]
BaredRules(list) == {Bared(r) : r \in Range(list)}

\* Two function lists differ when they show a change.
LEMMA FunctionsDiffer ==
  ASSUME NEW c, NEW x, NEW y
  PROVE  FunctionChanges(c, x, y) = {} <=> FnsOf(x) = FnsOf(y)
<1>1. CASE x = Null \/ y = Null
  <2>1. FunctionChanges(c, x, y) = {} <=> ((x = Null) <=> (y = Null))
    BY <1>1 DEF FunctionChanges, When
  <2>2. FnsOf(x) = FnsOf(y) <=> ((x = Null) <=> (y = Null))
    BY <1>1 DEF FnsOf
  <2> QED BY <2>1, <2>2
<1>2. CASE x # Null /\ y # Null
  <2> DEFINE X == {<<c, fn>> : fn \in Range(x)}
             Y == {<<c, fn>> : fn \in Range(y)}
  <2>1. FunctionChanges(c, x, y) = setDiff("protocols", X, Y)
    BY <1>2 DEF FunctionChanges
  <2>2. setDiff("protocols", X, Y) = {} <=> X = Y
    BY DEF setDiff
  <2>3. X = Y <=> Range(x) = Range(y)
    <3>1. /\ \A fn : <<c, fn>> \in X <=> fn \in Range(x)
          /\ \A fn : <<c, fn>> \in Y <=> fn \in Range(y)
      OBVIOUS
    <3> QED BY <3>1
  <2>4. FnsOf(x) = FnsOf(y) <=> Range(x) = Range(y)
    BY <1>2 DEF FnsOf
  <2> QED BY <2>1, <2>2, <2>3, <2>4
<1> QED BY <1>1, <1>2

LEMMA RulesWithin ==
  ASSUME NEW A \in Seq(ProtocolRule), NEW B \in Seq(ProtocolRule),
         Keyed(A, "contract"), Keyed(B, "contract"),
         Keys(A, "contract") \subseteq Keys(B, "contract"),
         \A c \in Keys(A, "contract") :
           FnsOf(FirstWith(A, "contract", c).fns) = FnsOf(FirstWith(B, "contract", c).fns)
  PROVE  BaredRules(A) \subseteq BaredRules(B)
<1> SUFFICES ASSUME NEW i \in DOMAIN A PROVE Bared(A[i]) \in BaredRules(B)
  BY DEF BaredRules, Range
<1> DEFINE c == A[i].contract
<1>1. c \in Keys(A, "contract")
  BY DEF Keys
<1>2. PICK j \in DOMAIN B : B[j].contract = c
  BY <1>1 DEF Keys
<1>3. FirstWith(A, "contract", c) = A[i] /\ FirstWith(B, "contract", c) = B[j]
  BY <1>2, FirstIsTheOne
<1>4. FnsOf(A[i].fns) = FnsOf(B[j].fns)
  BY <1>1, <1>3
<1>5. Bared(A[i]) = Bared(B[j])
  BY <1>2, <1>4 DEF Bared
<1> QED BY <1>5 DEF BaredRules, Range

LEMMA RulesDiffer ==
  ASSUME NEW a, NEW b, Sound(a), Sound(b)
  PROVE  protocolChanges(a, b) = {} <=> BaredRules(a.protocols) = BaredRules(b.protocols)
<1> DEFINE A == a.protocols
           B == b.protocols
           mine == Keys(A, "contract")
           theirs == Keys(B, "contract")
           fns(list, c) == FirstWith(list, "contract", c).fns
           Same(c) == FnsOf(fns(A, c)) = FnsOf(fns(B, c))
           X == {<<c>> : c \in mine}
           Y == {<<c>> : c \in theirs}
           F == UNION {FunctionChanges(c, fns(A, c), fns(B, c)) : c \in mine \cap theirs}
<1>1. /\ A \in Seq(ProtocolRule) /\ Keyed(A, "contract")
      /\ B \in Seq(ProtocolRule) /\ Keyed(B, "contract")
  BY SoundLists
<1>2. protocolChanges(a, b) = {} <=> mine = theirs /\ \A c \in mine \cap theirs : Same(c)
  <2>1. protocolChanges(a, b) = setDiff("protocols", X, Y) \cup F
    BY DEF protocolChanges
  <2>2. setDiff("protocols", X, Y) = {} <=> mine = theirs
    <3>1. setDiff("protocols", X, Y) = {} <=> X = Y
      BY DEF setDiff
    <3>2. (\A c : <<c>> \in X <=> c \in mine) /\ (\A c : <<c>> \in Y <=> c \in theirs)
      OBVIOUS
    <3>3. X = Y <=> mine = theirs
      BY <3>2
    <3> QED BY <3>1, <3>3
  <2>3. F = {} <=> \A c \in mine \cap theirs : FunctionChanges(c, fns(A, c), fns(B, c)) = {}
    OBVIOUS
  <2>4. \A c : FunctionChanges(c, fns(A, c), fns(B, c)) = {} <=> Same(c)
    BY FunctionsDiffer
  <2> HIDE DEF F, X, Y, mine, theirs, fns, Same
  <2>5. F = {} <=> \A c \in mine \cap theirs : Same(c)
    BY <2>3, <2>4
  <2> QED BY <2>1, <2>2, <2>5
<1> HIDE DEF A, B
<1>3. ASSUME mine = theirs, \A c \in mine \cap theirs : Same(c)
      PROVE  BaredRules(A) = BaredRules(B)
  <2>1. /\ Keys(A, "contract") \subseteq Keys(B, "contract")
        /\ Keys(B, "contract") \subseteq Keys(A, "contract")
        /\ \A c \in Keys(A, "contract") :
             FnsOf(FirstWith(A, "contract", c).fns) = FnsOf(FirstWith(B, "contract", c).fns)
        /\ \A c \in Keys(B, "contract") :
             FnsOf(FirstWith(B, "contract", c).fns) = FnsOf(FirstWith(A, "contract", c).fns)
    BY <1>3
  <2>2. BaredRules(A) \subseteq BaredRules(B)
    BY <1>1, <2>1, RulesWithin
  <2>3. BaredRules(B) \subseteq BaredRules(A)
    BY <1>1, <2>1, RulesWithin
  <2> QED BY <2>2, <2>3
<1>4. ASSUME BaredRules(A) = BaredRules(B)
      PROVE  mine = theirs /\ \A c \in mine \cap theirs : Same(c)
  <2>1. \A r, s : Bared(r) = Bared(s) => r.contract = s.contract /\ FnsOf(r.fns) = FnsOf(s.fns)
    <3>1. \A r : Bared(r).contract = r.contract /\ Bared(r).fns = FnsOf(r.fns)
      BY DEF Bared
    <3> QED BY <3>1
  <2>2. /\ \A i \in DOMAIN A : \E j \in DOMAIN B : Bared(A[i]) = Bared(B[j])
        /\ \A j \in DOMAIN B : \E i \in DOMAIN A : Bared(A[i]) = Bared(B[j])
    <3>1. /\ \A i \in DOMAIN A : Bared(A[i]) \in BaredRules(A)
          /\ \A j \in DOMAIN B : Bared(B[j]) \in BaredRules(B)
          /\ \A x \in BaredRules(A) : \E i \in DOMAIN A : x = Bared(A[i])
          /\ \A x \in BaredRules(B) : \E j \in DOMAIN B : x = Bared(B[j])
      BY DEF BaredRules, Range
    <3> QED BY <1>4, <3>1
  <2>3. mine = theirs
    BY <2>1, <2>2 DEF Keys
  <2>4. ASSUME NEW c \in mine PROVE Same(c)
    <3>1. PICK i \in DOMAIN A : A[i].contract = c
      BY <2>4 DEF Keys
    <3>2. PICK j \in DOMAIN B : Bared(A[i]) = Bared(B[j])
      BY <2>2
    <3>3. B[j].contract = c /\ FnsOf(A[i].fns) = FnsOf(B[j].fns)
      BY <2>1, <3>1, <3>2
    <3>4. FirstWith(A, "contract", c) = A[i] /\ FirstWith(B, "contract", c) = B[j]
      BY <1>1, <3>1, <3>3, FirstIsTheOne
    <3> QED BY <3>3, <3>4
  <2> QED BY <2>3, <2>4
<1>5. BaredRules(A) = BaredRules(B) <=> (mine = theirs /\ \A c \in mine \cap theirs : Same(c))
  BY <1>3, <1>4
<1> QED BY <1>2, <1>5 DEF A, B

\* What policyDiff() can show of a form.
ShownFields == Integral \cup AddressLists \cup {"protocols", "recipient_window_caps"}

LEMMA ShownIs ==
  ASSUME NEW p, IsForm(p), isArray(p.protocols)
  PROVE  /\ DOMAIN Shown(p) = ShownFields
         /\ Shown(p)["protocols"] = BaredRules(p.protocols)
         /\ \A f \in AddressLists \cup {"recipient_window_caps"} : Shown(p)[f] = Items(p[f])
         /\ \A f \in Integral : Shown(p)[f] = p[f]
<1> DEFINE q == WithoutRulePauses(p)
           ps == p.protocols
           mq == Meaning(q)
<1>1. DOMAIN p = Fields /\ "protocols" \in Fields
  BY FormIs, FieldsAre
<1>2. /\ q.protocols = [i \in DOMAIN ps |-> [ps[i] EXCEPT !.paused = Absent]]
      /\ \A f \in Fields \ {"protocols"} : q[f] = p[f]
  BY <1>1 DEF WithoutRulePauses
<1>3. Shown(p) = [f \in Fields \ {"protocol_calls_per_window", "asset_caps"} |-> mq[f]]
  BY DEF Shown
<1>4. ShownFields = Fields \ {"protocol_calls_per_window", "asset_caps"}
  BY FieldsAre DEF ShownFields, AddressLists
<1> HIDE DEF q
<1>5. mq["protocols"] = BaredRules(ps)
  <2> DEFINE qs == q.protocols
  <2>1. /\ DOMAIN qs = DOMAIN ps
        /\ \A i \in DOMAIN ps : /\ qs[i].contract = ps[i].contract
                                /\ qs[i].fns = ps[i].fns /\ qs[i].paused = Absent
    <3>1. \A i \in DOMAIN ps : ps[i] \in ProtocolRule
      BY RulePauses
    <3>2. \A r \in ProtocolRule :
            LET s == [r EXCEPT !.paused = Absent] IN
            s.contract = r.contract /\ s.fns = r.fns /\ s.paused = Absent
      BY DEF ProtocolRule
    <3> QED BY <1>2, <3>1, <3>2
  <2> HIDE DEF qs, ps
  <2>2. \A i \in DOMAIN ps : RuleMeaning(qs[i]) = Bared(ps[i])
    <3>1. Or(Absent, FALSE) = FALSE
      BY DEF Or
    <3> QED BY <2>1, <3>1 DEF RuleMeaning, Bared, FnsOf
  <2> DEFINE A == {RuleMeaning(r) : r \in Range(qs)}
  <2>3. /\ \A x : x \in A <=> \E i \in DOMAIN qs : x = RuleMeaning(qs[i])
        /\ \A x : x \in BaredRules(ps) <=> \E i \in DOMAIN ps : x = Bared(ps[i])
    BY DEF Range, BaredRules
  <2> HIDE DEF A
  <2>4. ASSUME NEW x PROVE x \in A <=> x \in BaredRules(ps)
    <3>1. (\E i \in DOMAIN qs : x = RuleMeaning(qs[i])) <=> \E i \in DOMAIN ps : x = Bared(ps[i])
      BY <2>1, <2>2, Zenon
    <3> QED BY <2>3, <3>1, Zenon
  <2>5. A = BaredRules(ps)
    BY <2>4, Zenon
  <2> QED BY <2>5, MeaningIs DEF A, qs
<1>6. /\ \A f \in AddressLists \cup {"recipient_window_caps"} : mq[f] = Items(q[f])
      /\ \A f \in Integral : mq[f] = q[f]
  BY MeaningIs
<1>7. \A f \in Integral \cup AddressLists \cup {"recipient_window_caps"} :
        f \in Fields \ {"protocols"} /\ f \in ShownFields
  BY FieldsAre DEF AddressLists, ShownFields
<1>8. "protocols" \in ShownFields
  BY DEF ShownFields
<1> HIDE DEF mq, ps
<1> QED BY <1>2, <1>3, <1>4, <1>5, <1>6, <1>7, <1>8 DEF ps

\* The changes of one field.
ChangesOf(f, a, b) ==
  CASE f \in Integral -> When(a[f] # b[f], <<f, "changed", f>>)
    [] f \in AddressLists -> setDiff(f, Items(a[f]), Items(b[f]))
    [] f = "protocols" -> protocolChanges(a, b)
    [] f = "recipient_window_caps" -> windowCaps(a, b)

LEMMA ChangesAre ==
  ASSUME NEW a, NEW b
  PROVE  /\ \A f \in Integral : ChangesOf(f, a, b) = When(a[f] # b[f], <<f, "changed", f>>)
         /\ \A f \in AddressLists : ChangesOf(f, a, b) = setDiff(f, Items(a[f]), Items(b[f]))
         /\ ChangesOf("protocols", a, b) = protocolChanges(a, b)
         /\ ChangesOf("recipient_window_caps", a, b) = windowCaps(a, b)
BY DEF ChangesOf, Integral, Integers_, Integer128, Unsigned64, Flags, AddressLists

LEMMA DiffByField ==
  ASSUME NEW a, NEW b
  PROVE  policyDiff(a, b) = UNION {ChangesOf(f, a, b) : f \in ShownFields}
<1> DEFINE S == UNION {ChangesOf(f, a, b) : f \in Integral}
           L == UNION {ChangesOf(f, a, b) : f \in AddressLists}
<1>1. scalar(a, b) = S
  <2>1. \A x : x \in scalar(a, b)
                 <=> \E f \in Integral : a[f] # b[f] /\ x = <<f, "changed", f>>
    BY DEF scalar, Integral
  <2>2. \A f \in Integral : \A x : x \in ChangesOf(f, a, b)
                                   <=> a[f] # b[f] /\ x = <<f, "changed", f>>
    BY ChangesAre DEF When
  <2>3. \A x : x \in S <=> \E f \in Integral : x \in ChangesOf(f, a, b)
    OBVIOUS
  <2> HIDE DEF S
  <2>4. \A x : x \in scalar(a, b) <=> x \in S
    BY <2>1, <2>2, <2>3, Zenon
  <2> QED BY <2>4, Zenon
<1>2. (UNION {setDiff(f, Items(a[f]), Items(b[f])) :
                f \in {"assets", "recipients", "blocked_recipients"}}) = L
  BY ChangesAre DEF AddressLists
<1>3. policyDiff(a, b) = S \cup protocolChanges(a, b) \cup windowCaps(a, b) \cup L
  BY <1>1, <1>2 DEF policyDiff
<1>4. (UNION {ChangesOf(f, a, b) : f \in ShownFields})
        = S \cup L \cup ChangesOf("protocols", a, b) \cup ChangesOf("recipient_window_caps", a, b)
  BY DEF ShownFields
<1> HIDE DEF S, L
<1> QED BY <1>3, <1>4, ChangesAre

\* A field shows a change exactly when the two forms say something else there.
LEMMA FieldDiffers ==
  ASSUME NEW a, NEW b, Sound(a), Sound(b), NEW f \in ShownFields
  PROVE  ChangesOf(f, a, b) = {} <=> Shown(a)[f] = Shown(b)[f]
<1>1. IsForm(a) /\ isArray(a.protocols) /\ IsForm(b) /\ isArray(b.protocols)
  BY ReadableLists DEF Sound
<1>2. CASE f \in Integral
  <2>1. Shown(a)[f] = a[f] /\ Shown(b)[f] = b[f]
    BY <1>1, <1>2, ShownIs
  <2>2. ChangesOf(f, a, b) = When(a[f] # b[f], <<f, "changed", f>>)
    BY <1>2, ChangesAre
  <2>3. When(a[f] # b[f], <<f, "changed", f>>) = {} <=> a[f] = b[f]
    BY Zenon DEF When
  <2> QED BY <2>1, <2>2, <2>3, Zenon
<1>3. CASE f \in AddressLists
  <2>1. Shown(a)[f] = Items(a[f]) /\ Shown(b)[f] = Items(b[f])
    BY <1>1, <1>3, ShownIs
  <2>2. ChangesOf(f, a, b) = setDiff(f, Items(a[f]), Items(b[f]))
    BY <1>3, ChangesAre
  <2> QED BY <2>1, <2>2 DEF setDiff
<1>4. CASE f = "protocols"
  <2>1. Shown(a)[f] = BaredRules(a.protocols) /\ Shown(b)[f] = BaredRules(b.protocols)
    BY <1>1, <1>4, ShownIs
  <2> QED BY <1>4, <2>1, ChangesAre, RulesDiffer
<1>5. CASE f = "recipient_window_caps"
  <2>1. Shown(a)[f] = Items(a[f]) /\ Shown(b)[f] = Items(b[f])
    BY <1>1, <1>5, ShownIs
  <2> QED BY <1>5, <2>1, ChangesAre, CapsDiffer
<1> QED BY <1>2, <1>3, <1>4, <1>5 DEF ShownFields

\* What protocolChanges() removes: a rule, or one function of a rule both keep.
Both(a, b) == Keys(a.protocols, "contract") \cap Keys(b.protocols, "contract")
FnList(p, c) == FirstWith(p.protocols, "contract", c).fns
Dropped(a, b, c, fn) ==
  /\ c \in Both(a, b) /\ FnList(a, c) # Null /\ FnList(b, c) # Null
  /\ fn \in Range(FnList(a, c)) \ Range(FnList(b, c))
Gone(a, b, c) == c \in Keys(a.protocols, "contract") \ Keys(b.protocols, "contract")

LEMMA SetDiffIs ==
  ASSUME NEW f, NEW X, NEW Y, NEW change
  PROVE  change \in setDiff(f, X, Y)
           <=> \/ \E x \in X \ Y : change = <<f, "removed", x>>
               \/ \E x \in Y \ X : change = <<f, "added", x>>
BY DEF setDiff

LEMMA FunctionChangeIs ==
  ASSUME NEW c, NEW x, NEW y, NEW change
  PROVE  change \in FunctionChanges(c, x, y)
           <=> \/ change = <<"protocols", "changed", <<c>>>>
                  /\ (x = Null \/ y = Null) /\ ~(x = Null /\ y = Null)
               \/ x # Null /\ y # Null /\ \E fn \in Range(x) \ Range(y) :
                                            change = <<"protocols", "removed", <<c, fn>>>>
               \/ x # Null /\ y # Null /\ \E fn \in Range(y) \ Range(x) :
                                            change = <<"protocols", "added", <<c, fn>>>>
<1>1. CASE x = Null \/ y = Null
  BY <1>1 DEF FunctionChanges, When
<1>2. CASE x # Null /\ y # Null
  <2> DEFINE X == {<<c, fn>> : fn \in Range(x)}
             Y == {<<c, fn>> : fn \in Range(y)}
  <2>1. FunctionChanges(c, x, y) = setDiff("protocols", X, Y)
    BY <1>2 DEF FunctionChanges
  <2>2. /\ \A fn : <<c, fn>> \in X <=> fn \in Range(x)
        /\ \A fn : <<c, fn>> \in Y <=> fn \in Range(y)
        /\ \A m \in X : \E fn \in Range(x) : m = <<c, fn>>
        /\ \A m \in Y : \E fn \in Range(y) : m = <<c, fn>>
    OBVIOUS
  <2> HIDE DEF X, Y
  <2>3. (\E m \in X \ Y : change = <<"protocols", "removed", m>>)
          <=> \E fn \in Range(x) \ Range(y) : change = <<"protocols", "removed", <<c, fn>>>>
    BY <2>2
  <2>4. (\E m \in Y \ X : change = <<"protocols", "added", m>>)
          <=> \E fn \in Range(y) \ Range(x) : change = <<"protocols", "added", <<c, fn>>>>
    BY <2>2
  <2> QED BY <1>2, <2>1, <2>3, <2>4, SetDiffIs
<1> QED BY <1>1, <1>2

LEMMA ProtocolChangeIs ==
  ASSUME NEW a, NEW b, NEW change
  PROVE  change \in protocolChanges(a, b)
           <=> \/ \E c : Gone(a, b, c) /\ change = <<"protocols", "removed", <<c>>>>
               \/ \E c : Gone(b, a, c) /\ change = <<"protocols", "added", <<c>>>>
               \/ \E c \in Both(a, b) :
                     /\ FnList(a, c) = Null \/ FnList(b, c) = Null
                     /\ ~(FnList(a, c) = Null /\ FnList(b, c) = Null)
                     /\ change = <<"protocols", "changed", <<c>>>>
               \/ \E c, fn : Dropped(a, b, c, fn)
                               /\ change = <<"protocols", "removed", <<c, fn>>>>
               \/ \E c, fn : Dropped(b, a, c, fn)
                               /\ change = <<"protocols", "added", <<c, fn>>>>
<1> DEFINE mine == Keys(a.protocols, "contract")
           theirs == Keys(b.protocols, "contract")
           X == {<<c>> : c \in mine}
           Y == {<<c>> : c \in theirs}
           F == UNION {FunctionChanges(c, FnList(a, c), FnList(b, c)) : c \in mine \cap theirs}
<1>1. protocolChanges(a, b) = setDiff("protocols", X, Y) \cup F
  BY DEF protocolChanges, FnList
<1>2. /\ \A c : <<c>> \in X <=> c \in mine
      /\ \A c : <<c>> \in Y <=> c \in theirs
      /\ \A m \in X : \E c \in mine : m = <<c>>
      /\ \A m \in Y : \E c \in theirs : m = <<c>>
  OBVIOUS
<1>3. change \in F <=> \E c \in Both(a, b) :
                          change \in FunctionChanges(c, FnList(a, c), FnList(b, c))
  BY DEF Both
<1>4. Both(a, b) = Both(b, a)
  BY DEF Both
<1>5. \A c : Gone(a, b, c) <=> c \in mine \ theirs
  BY DEF Gone
<1>6. \A c : Gone(b, a, c) <=> c \in theirs \ mine
  BY DEF Gone
<1> HIDE DEF mine, theirs, X, Y, F
<1>7. (\E m \in X \ Y : change = <<"protocols", "removed", m>>)
        <=> \E c : Gone(a, b, c) /\ change = <<"protocols", "removed", <<c>>>>
  BY <1>2, <1>5
<1>8. (\E m \in Y \ X : change = <<"protocols", "added", m>>)
        <=> \E c : Gone(b, a, c) /\ change = <<"protocols", "added", <<c>>>>
  BY <1>2, <1>6
<1>9. change \in setDiff("protocols", X, Y)
        <=> \/ \E c : Gone(a, b, c) /\ change = <<"protocols", "removed", <<c>>>>
            \/ \E c : Gone(b, a, c) /\ change = <<"protocols", "added", <<c>>>>
  BY <1>7, <1>8, SetDiffIs
<1>10. \A c, fn : Dropped(b, a, c, fn)
         <=> /\ c \in Both(a, b) /\ FnList(a, c) # Null /\ FnList(b, c) # Null
             /\ fn \in Range(FnList(b, c)) \ Range(FnList(a, c))
  BY <1>4 DEF Dropped
<1>11. change \in F
         <=> \/ \E c \in Both(a, b) :
                  /\ FnList(a, c) = Null \/ FnList(b, c) = Null
                  /\ ~(FnList(a, c) = Null /\ FnList(b, c) = Null)
                  /\ change = <<"protocols", "changed", <<c>>>>
             \/ \E c, fn : Dropped(a, b, c, fn)
                             /\ change = <<"protocols", "removed", <<c, fn>>>>
             \/ \E c, fn : Dropped(b, a, c, fn)
                             /\ change = <<"protocols", "added", <<c, fn>>>>
  BY <1>3, <1>10, FunctionChangeIs DEF Dropped
<1> QED BY <1>1, <1>9, <1>11

LEMMA ProtocolsMirrored ==
  ASSUME NEW a, NEW b
  PROVE  /\ \A x : <<"protocols", "removed", x>> \in protocolChanges(a, b)
                     <=> <<"protocols", "added", x>> \in protocolChanges(b, a)
         /\ \A x, kind : <<"protocols", kind, x>> \in protocolChanges(a, b)
                         /\ kind # "removed"
                           => <<"protocols", "removed", x>> \notin protocolChanges(a, b)
<1> DEFINE Removed(d, e, x) == \/ \E c : Gone(d, e, c) /\ x = <<c>>
                               \/ \E c, fn : Dropped(d, e, c, fn) /\ x = <<c, fn>>
<1>1. ASSUME NEW d, NEW e, NEW x
      PROVE  <<"protocols", "removed", x>> \in protocolChanges(d, e) <=> Removed(d, e, x)
  BY ProtocolChangeIs
<1>2. ASSUME NEW d, NEW e, NEW x
      PROVE  <<"protocols", "added", x>> \in protocolChanges(d, e) <=> Removed(e, d, x)
  BY ProtocolChangeIs
<1>3. ASSUME NEW x, NEW kind, <<"protocols", kind, x>> \in protocolChanges(a, b),
             kind # "removed"
      PROVE  ~Removed(a, b, x)
  <2>1. \A c, d, fn : <<c>> # <<d, fn>>
    OBVIOUS
  <2>2. \/ \E c : Gone(b, a, c) /\ x = <<c>>
        \/ \E c \in Both(a, b) : x = <<c>>
        \/ \E c, fn : Dropped(b, a, c, fn) /\ x = <<c, fn>>
    BY <1>3, ProtocolChangeIs
  <2>3. \A c : ~(Gone(a, b, c) /\ Gone(b, a, c)) /\ ~(Gone(a, b, c) /\ c \in Both(a, b))
    BY DEF Gone, Both
  <2>4. \A c, fn : ~(Dropped(a, b, c, fn) /\ Dropped(b, a, c, fn))
    BY DEF Dropped
  <2>5. (\A c, d : <<c>> = <<d>> => c = d)
        /\ \A c, d, fn, g : <<c, fn>> = <<d, g>> => c = d /\ fn = g
    OBVIOUS
  <2> QED BY <2>1, <2>2, <2>3, <2>4, <2>5
<1> HIDE DEF Removed
<1> QED BY <1>1, <1>2, <1>3

LEMMA CapsMirrored ==
  ASSUME NEW a, NEW b
  PROVE  LET f == "recipient_window_caps" IN
         /\ \A x : <<f, "removed", x>> \in windowCaps(a, b)
                     <=> <<f, "added", x>> \in windowCaps(b, a)
         /\ \A x, kind : <<f, kind, x>> \in windowCaps(a, b) /\ kind # "removed"
                           => <<f, "removed", x>> \notin windowCaps(a, b)
<1> DEFINE f == "recipient_window_caps"
           mine == Keys(CapsOf(a), "recipient")
           theirs == Keys(CapsOf(b), "recipient")
           cap(p, q) == FirstWith(CapsOf(p), "recipient", q).cap
<1>1. /\ windowCaps(a, b) = setDiff(f, mine, theirs)
           \cup {<<f, "changed", q>> : q \in {r \in mine \cap theirs : cap(a, r) # cap(b, r)}}
      /\ windowCaps(b, a) = setDiff(f, theirs, mine)
           \cup {<<f, "changed", q>> : q \in {r \in theirs \cap mine : cap(b, r) # cap(a, r)}}
  BY DEF windowCaps, CapsOf
<1> HIDE DEF mine, theirs, cap
<1>2. /\ \A x : <<f, "removed", x>> \in windowCaps(a, b) <=> x \in mine \ theirs
      /\ \A x : <<f, "added", x>> \in windowCaps(b, a) <=> x \in mine \ theirs
  BY <1>1 DEF setDiff
<1>3. \A x, kind : <<f, kind, x>> \in windowCaps(a, b) /\ kind # "removed" => x \in theirs
  BY <1>1 DEF setDiff
<1> QED BY <1>2, <1>3

LEMMA ListsMirrored ==
  ASSUME NEW f, NEW X, NEW Y
  PROVE  /\ \A x : <<f, "removed", x>> \in setDiff(f, X, Y)
                     <=> <<f, "added", x>> \in setDiff(f, Y, X)
         /\ \A x, kind : <<f, kind, x>> \in setDiff(f, X, Y) /\ kind # "removed"
                           => <<f, "removed", x>> \notin setDiff(f, X, Y)
BY DEF setDiff

\* In each field, what is removed one way is added the other way, and nothing shows
\* both as removed and as something else.
LEMMA Mirrored ==
  ASSUME NEW a, NEW b, NEW f \in ShownFields
  PROVE  /\ \A x : <<f, "removed", x>> \in ChangesOf(f, a, b)
                     <=> <<f, "added", x>> \in ChangesOf(f, b, a)
         /\ \A x, kind : <<f, kind, x>> \in ChangesOf(f, a, b) /\ kind # "removed"
                           => <<f, "removed", x>> \notin ChangesOf(f, a, b)
<1>1. CASE f \in Integral
  <2>1. /\ ChangesOf(f, a, b) = When(a[f] # b[f], <<f, "changed", f>>)
        /\ ChangesOf(f, b, a) = When(b[f] # a[f], <<f, "changed", f>>)
    BY <1>1, ChangesAre
  <2>2. ASSUME NEW p, NEW q, NEW kind, NEW x, <<f, kind, x>> \in When(p # q, <<f, "changed", f>>)
        PROVE  kind = "changed"
    <3>1. <<f, kind, x>> = <<f, "changed", f>>
      BY <2>2, Zenon DEF When
    <3> QED BY <3>1
  <2>3. \A kind, x : /\ <<f, kind, x>> \in ChangesOf(f, a, b) => kind = "changed"
                     /\ <<f, kind, x>> \in ChangesOf(f, b, a) => kind = "changed"
    BY <2>1, <2>2
  <2>4. "changed" # "removed" /\ "changed" # "added"
    OBVIOUS
  <2> QED BY <2>3, <2>4, Zenon
<1>2. CASE f \in AddressLists
  <2>1. /\ ChangesOf(f, a, b) = setDiff(f, Items(a[f]), Items(b[f]))
        /\ ChangesOf(f, b, a) = setDiff(f, Items(b[f]), Items(a[f]))
    BY <1>2, ChangesAre
  <2> QED BY <2>1, ListsMirrored
<1>3. CASE f = "protocols"
  BY <1>3, ChangesAre, ProtocolsMirrored
<1>4. CASE f = "recipient_window_caps"
  BY <1>4, ChangesAre, CapsMirrored
<1> QED BY <1>1, <1>2, <1>3, <1>4 DEF ShownFields

\* A change names its field, and has no more than a kind and a member besides.
LEMMA ChangeNamesField ==
  ASSUME NEW a, NEW b, NEW f \in ShownFields, NEW change \in ChangesOf(f, a, b)
  PROVE  \E kind, x : change = <<f, kind, x>>
<1>1. CASE f \in Integral
  <2>1. change \in When(a[f] # b[f], <<f, "changed", f>>)
    BY <1>1, ChangesAre
  <2>2. change = <<f, "changed", f>>
    BY <2>1, Zenon DEF When
  <2> QED BY <2>2
<1>2. CASE f \in AddressLists
  <2>1. change \in setDiff(f, Items(a[f]), Items(b[f]))
    BY <1>2, ChangesAre
  <2> QED BY <2>1 DEF setDiff
<1>3. CASE f = "protocols"
  BY <1>3, ChangesAre, ProtocolChangeIs
<1>4. CASE f = "recipient_window_caps"
  <2>1. change \in windowCaps(a, b)
    BY <1>4, ChangesAre
  <2> QED BY <1>4, <2>1 DEF windowCaps, setDiff
<1> QED BY <1>1, <1>2, <1>3, <1>4 DEF ShownFields

LEMMA SoundDiffsAreExact ==
  ASSUME NEW a, NEW b, Sound(a), Sound(b)
  PROVE  ExactDiff(a, b)
<1> DEFINE D == policyDiff(a, b)
           E == policyDiff(b, a)
<1>1. /\ \A change : change \in D <=> \E f \in ShownFields : change \in ChangesOf(f, a, b)
      /\ \A change : change \in E <=> \E f \in ShownFields : change \in ChangesOf(f, b, a)
  BY DiffByField
<1> HIDE DEF D, E
<1>2. {change[1] : change \in D} = {f \in DOMAIN Shown(a) : Shown(a)[f] # Shown(b)[f]}
  <2>1. DOMAIN Shown(a) = ShownFields
    BY ReadableLists, ShownIs DEF Sound
  <2>2. ASSUME NEW change \in D
        PROVE  change[1] \in ShownFields /\ Shown(a)[change[1]] # Shown(b)[change[1]]
    <3>1. PICK f \in ShownFields : change \in ChangesOf(f, a, b)
      BY <1>1
    <3>2. change[1] = f
      BY <3>1, ChangeNamesField
    <3> QED BY <3>1, <3>2, FieldDiffers
  <2>3. ASSUME NEW f \in ShownFields, Shown(a)[f] # Shown(b)[f]
        PROVE  \E change \in D : change[1] = f
    <3>1. PICK change \in ChangesOf(f, a, b) : TRUE
      BY <2>3, FieldDiffers
    <3>2. change[1] = f /\ change \in D
      BY <1>1, <3>1, ChangeNamesField
    <3> QED BY <3>2
  <2> QED BY <2>1, <2>2, <2>3
<1>3. ASSUME NEW change \in D
      PROVE  change[2] = "removed" <=> <<change[1], "added", change[3]>> \in E
  <2>1. PICK f \in ShownFields : change \in ChangesOf(f, a, b)
    BY <1>1
  <2>2. PICK kind, x : change = <<f, kind, x>>
    BY <2>1, ChangeNamesField
  <2>3. <<f, "added", x>> \in E <=> <<f, "added", x>> \in ChangesOf(f, b, a)
    <3>1. ASSUME NEW g \in ShownFields, <<f, "added", x>> \in ChangesOf(g, b, a) PROVE g = f
      BY <3>1, ChangeNamesField
    <3> QED BY <1>1, <3>1
  <2>4. <<f, "added", x>> \in E <=> <<f, "removed", x>> \in ChangesOf(f, a, b)
    BY <2>3, Mirrored
  <2>5. <<f, "removed", x>> \in ChangesOf(f, a, b) <=> kind = "removed"
    BY <2>1, <2>2, Mirrored
  <2> QED BY <2>2, <2>4, <2>5
<1> QED BY <1>2, <1>3 DEF ExactDiff, D, E

\* policyDiff() of the object with its file or with what the guard stores names the
\* fields that say something else and no others, and is the same diff read backwards
\* the other way (policy-diff.ts), whatever the two policies are.
THEOREM DifferencesAreExact == Spec => []DiffIsExact
<1>1. SessionInv => DiffIsExact
  <2> SUFFICES ASSUME SessionInv, NEW other \in {json, installed}, Exists(other),
                      IsPolicyConfig(current), validateGuardPolicy(current) = {},
                      validateGuardPolicy(other) = {}
               PROVE  ExactDiff(current, other) /\ ExactDiff(other, current)
    BY DEF DiffIsExact
  <2>1. Sound(current)
    BY ConfigIsReadable DEF SessionInv, Kept, Sound
  <2>2. Sound(other)
    BY DEF SessionInv, Kept, Exists, Sound
  <2> QED BY <2>1, <2>2, SoundDiffsAreExact
<1> QED BY <1>1, InitSession, StepSession, PTL DEF Spec

-----------------------------------------------------------------------------
(* The validators.  Each is a union of failures; each failure has a condition *)
(* on the form that rules it out.                                           *)

LEMMA WhenIs ==
  ASSUME NEW condition \in BOOLEAN, NEW failure
  PROVE  /\ When(condition, failure) = {} <=> ~condition
         /\ \A x : x \in When(condition, failure) <=> condition /\ x = failure
BY DEF When

\* A list the code and the contract accept: of addresses, not the guard's own, none twice.
GoodList(list) ==
  /\ \A i \in DOMAIN list : isValidStellarAddress(list[i]) /\ list[i] # Guard
  /\ \A i, j \in DOMAIN list : list[i] = list[j] => i = j

LEMMA ListRulesAre ==
  ASSUME NEW list, NEW n \in Nat, DOMAIN list = 1..n, NEW f, NEW duplicate, NEW self
  PROVE  ListRules(list, f, duplicate, self) = {} <=> GoodList(list)
<1>1. ListRules(list, f, duplicate, self) = {}
        <=> /\ \A a \in Range(list) : isValidStellarAddress(a)
            /\ ~Repeats(list, isValidStellarAddress)
            /\ Guard \notin Range(list)
  BY DEF ListRules, When
<1>2. (\A a \in Range(list) : isValidStellarAddress(a))
        <=> \A i \in DOMAIN list : isValidStellarAddress(list[i])
  BY DEF Range
<1>3. Guard \notin Range(list) <=> \A i \in DOMAIN list : list[i] # Guard
  BY DEF Range
<1>4. ASSUME \A i \in DOMAIN list : isValidStellarAddress(list[i])
      PROVE  ~Repeats(list, isValidStellarAddress)
               <=> \A i, j \in DOMAIN list : list[i] = list[j] => i = j
  <2>1. ~Repeats(list, isValidStellarAddress)
          <=> \A i, j \in DOMAIN list : ~(i < j /\ list[i] = list[j])
    BY <1>4 DEF Repeats
  <2> QED BY <2>1
<1> QED BY <1>1, <1>2, <1>3, <1>4 DEF GoodList

\* As many members as places: no repetition.
LEMMA Distinct ==
  ASSUME NEW list, NEW D, IsFiniteSet(D)
  PROVE  /\ Cardinality({list[i] : i \in D}) \in Nat /\ Cardinality(D) \in Nat
         /\ Cardinality({list[i] : i \in D}) <= Cardinality(D)
         /\ Cardinality({list[i] : i \in D}) = Cardinality(D)
              <=> \A i, j \in D : list[i] = list[j] => i = j
<1> DEFINE T == {list[i] : i \in D}
           g == [i \in D |-> list[i]]
<1>1. g \in Surjection(D, T)
  BY DEF Surjection
<1>2. g \in Injection(D, T) <=> \A i, j \in D : list[i] = list[j] => i = j
  BY DEF Injection, IsInjective
<1> HIDE DEF T, g
<1>3. /\ IsFiniteSet(T) /\ Cardinality(T) <= Cardinality(D)
      /\ Cardinality(T) = Cardinality(D) <=> g \in Injection(D, T)
  BY <1>1, FS_Surjection
<1>4. Cardinality(T) \in Nat /\ Cardinality(D) \in Nat
  BY <1>3, FS_CardinalityType
<1> QED BY <1>2, <1>3, <1>4 DEF T

LEMMA checkAddressListIs ==
  ASSUME NEW list, NEW n \in Nat, DOMAIN list = 1..n, NEW f, NEW duplicate, NEW self
  PROVE  checkAddressList(list, f, duplicate, self) = {} <=> GoodList(list)
<1> DEFINE valid == {i \in DOMAIN list : isValidStellarAddress(list[i])}
           few == Cardinality({list[i] : i \in valid}) < Cardinality(valid)
           mine == \E i \in valid : list[i] = Guard
<1>1. checkAddressList(list, f, duplicate, self)
        = When(valid # DOMAIN list, <<f, "invalid_address">>)
          \cup When(few, <<f, duplicate>>) \cup When(mine, <<f, self>>)
  BY DEF checkAddressList
<1>2. IsFiniteSet(DOMAIN list)
  BY FS_Interval, 1 \in Int, n \in Int
<1>3. few \in BOOLEAN /\ mine \in BOOLEAN /\ (valid # DOMAIN list) \in BOOLEAN
  OBVIOUS
<1>4. valid = DOMAIN list <=> \A i \in DOMAIN list : isValidStellarAddress(list[i])
  OBVIOUS
<1>5. ASSUME valid = DOMAIN list
      PROVE  ~few <=> \A i, j \in DOMAIN list : list[i] = list[j] => i = j
  <2> DEFINE c == Cardinality({list[i] : i \in valid})
             d == Cardinality(valid)
  <2>0. IsFiniteSet(valid) /\ (few <=> c < d)
    BY <1>2, <1>5
  <2> HIDE DEF valid, few
  <2>1. /\ c \in Nat /\ d \in Nat /\ c <= d
        /\ c = d <=> \A i, j \in valid : list[i] = list[j] => i = j
    BY <2>0, Distinct
  <2>2. few <=> c < d
    BY <2>0
  <2> HIDE DEF c, d
  <2>3. ~few <=> c = d
    BY <2>1, <2>2
  <2> QED BY <1>5, <2>1, <2>3
<1>6. ASSUME valid = DOMAIN list PROVE ~mine <=> \A i \in DOMAIN list : list[i] # Guard
  BY <1>6
<1> HIDE DEF valid, few, mine
<1>7. checkAddressList(list, f, duplicate, self) = {}
        <=> valid = DOMAIN list /\ ~few /\ ~mine
  BY <1>1, <1>3, WhenIs
<1> QED BY <1>4, <1>5, <1>6, <1>7 DEF GoodList

\* What each section of validateGuardPolicy() asks, its advice about empty lists aside.
GoodInteger(v, f) == isIntegerLike(v) /\ 0 <= toBigInt(v) /\ toBigInt(v) <= Maximum(f)
GoodIntegers(p) == \A f \in Integers_ : GoodInteger(p[f], f)
WindowFine(p) == ~(toBigInt(p.window_cap) > 0 /\ NoWindow(p))
ActiveFine(p) == \/ toBigInt(p.active_until) = 0
                 \/ toBigInt(p.active_until) > toBigInt(p.active_from)
GoodFlags(p) == \A f \in Flags : p[f] \in BOOLEAN
Contracted(p) == [i \in DOMAIN p.protocols |-> p.protocols[i].contract]
Capped(caps) == [i \in DOMAIN caps |-> caps[i].recipient]
GoodFns(fns) ==
  \/ fns \in {Absent, Null}
  \/ /\ isArray(fns) /\ fns # <<>>
     /\ \A i \in DOMAIN fns : isName(fns[i])
     /\ \A i, j \in DOMAIN fns : fns[i] = fns[j] => i = j
Short(list) == Len(list) <= MaxEntries
GoodAssets(p) == isArray(p.assets) /\ GoodList(p.assets)
GoodProtocols(p) == /\ isArray(p.protocols) /\ GoodList(Contracted(p))
                    /\ \A i \in DOMAIN p.protocols : GoodFns(p.protocols[i].fns)
GoodRecipients(p) == isArray(p.recipients) /\ Short(p.recipients) /\ GoodList(p.recipients)
GoodBlocked(p) ==
  LET b == p.blocked_recipients IN
  \/ b \in {Absent, Null}
  \/ isArray(b) /\ Short(b) /\ GoodList(b) /\ Range(b) \cap Items(p.recipients) = {}
GoodCap(p, c) == 0 <= c.cap /\ c.cap <= I128Max /\ ~(c.cap > 0 /\ NoWindow(p))
GoodCaps(p) ==
  LET caps == p.recipient_window_caps IN
  \/ caps \in {Absent, Null}
  \/ /\ isArray(caps) /\ Short(caps) /\ GoodList(Capped(caps))
     /\ \A i \in DOMAIN caps : GoodCap(p, caps[i])

Sensible(p) ==
  /\ GoodIntegers(p) /\ WindowFine(p) /\ ActiveFine(p) /\ GoodFlags(p)
  /\ GoodAssets(p) /\ GoodProtocols(p) /\ GoodRecipients(p) /\ GoodBlocked(p) /\ GoodCaps(p)

\* The two advisories: an empty list that allows nothing.
WellStocked(p) == p.assets # <<>> /\ ~(p.recipients = <<>> /\ p.allow_any_recipient = FALSE)

LEMMA Bounds ==
  /\ I128Max \in Nat /\ U64Max \in Nat /\ U32Max \in Nat /\ MaxEntries \in Nat
  /\ \A f : Maximum(f) \in Nat
BY PolicyFormsAssumption DEF PolicyFormsAssumption, Maximum

LEMMA IntegerLike ==
  ASSUME NEW v \in Int \cup NotLists \cup {Numeral}
  PROVE  /\ isIntegerLike(v) <=> v \notin NotLists
         /\ isIntegerLike(v) => toBigInt(v) \in Int
         /\ v \in Int => isIntegerLike(v) /\ toBigInt(v) = v
         /\ 0 \notin NotLists
<1>1. /\ \A x \in NotLists : x \notin Int /\ x # Numeral
      /\ Numeral \notin Int
  BY PolicyFormsAssumption DEF PolicyFormsAssumption
<1>2. 0 \in Int
  OBVIOUS
<1> QED BY <1>1, <1>2 DEF isIntegerLike, toBigInt

LEMMA IntegerRulesAre ==
  ASSUME NEW p, NEW f, p[f] \in Int \cup NotLists \cup {Numeral}
  PROVE  IntegerRules(p, f) = {} <=> GoodInteger(p[f], f)
<1> DEFINE v == p[f]
           n == toBigInt(v)
<1>1. /\ isIntegerLike(v) <=> v \notin NotLists
      /\ isIntegerLike(v) => n \in Int
      /\ Maximum(f) \in Int
  <2>1. v \in Int \cup NotLists \cup {Numeral}
    OBVIOUS
  <2> HIDE DEF v
  <2>2. /\ isIntegerLike(v) <=> v \notin NotLists
        /\ isIntegerLike(v) => n \in Int
    BY <2>1, IntegerLike
  <2> QED BY <2>2, Bounds
<1>2. IntegerRules(p, f) =
        IF v \in {Absent, Null} THEN {<<f, "missing_field">>}
        ELSE IF ~isIntegerLike(v) THEN {<<f, "invalid_type">>}
        ELSE IF n < 0 THEN {<<f, "negative_amount">>}
        ELSE When(n > Maximum(f), <<f, "integer_out_of_range">>)
  BY DEF IntegerRules
<1> HIDE DEF n
<1>3. CASE ~isIntegerLike(v)
  BY <1>2, <1>3 DEF GoodInteger
<1>4. CASE isIntegerLike(v)
  <2>1. v \notin {Absent, Null} /\ n \in Int
    BY <1>1, <1>4 DEF NotLists
  <2>2. IntegerRules(p, f) = IF n < 0 THEN {<<f, "negative_amount">>}
                             ELSE When(n > Maximum(f), <<f, "integer_out_of_range">>)
    BY <1>2, <1>4, <2>1
  <2>3. GoodInteger(v, f) <=> 0 <= n /\ n <= Maximum(f)
    BY <1>4 DEF GoodInteger, n
  <2>4. CASE n < 0
    <3>1. IntegerRules(p, f) # {}
      BY <2>2, <2>4
    <3>2. ~(0 <= n)
      BY <2>1, <2>4
    <3> QED BY <2>3, <3>1, <3>2
  <2>5. CASE ~(n < 0)
    <3>1. IntegerRules(p, f) = {} <=> ~(n > Maximum(f))
      BY <2>2, <2>5 DEF When
    <3> QED BY <1>1, <2>1, <2>3, <2>5, <3>1
  <2> QED BY <2>4, <2>5
<1> QED BY <1>3, <1>4

LEMMA FormIntegers ==
  ASSUME NEW p, IsForm(p)
  PROVE  /\ \A f \in Integers_ : p[f] \in Int \cup NotLists \cup {Numeral}
         /\ Integers_ = {"per_tx_cap", "window_cap", "window_secs", "active_from",
                         "active_until", "dms_grace_secs"}
         /\ Flags = {"allow_any_recipient", "paused"}
BY FormIs DEF Integers_, Integer128, Unsigned64, Flags

LEMMA IntegerSections ==
  ASSUME NEW p, IsForm(p)
  PROVE  ( /\ IntegerRules(p, "per_tx_cap") = {} /\ WindowRules(p) = {}
           /\ ActiveRules(p) = {} /\ FlagRules(p) = {}
           /\ IntegerRules(p, "dms_grace_secs") = {})
         <=> GoodIntegers(p) /\ WindowFine(p) /\ ActiveFine(p) /\ GoodFlags(p)
<1>1. \A f \in Integers_ : IntegerRules(p, f) = {} <=> GoodInteger(p[f], f)
  BY FormIntegers, IntegerRulesAre
<1>2. ASSUME GoodIntegers(p)
      PROVE  /\ isIntegerLike(p.window_cap) /\ isIntegerLike(p.window_secs)
             /\ isIntegerLike(p.active_from) /\ isIntegerLike(p.active_until)
             /\ toBigInt(p.window_cap) \in Int
             /\ toBigInt(p.active_from) \in Int /\ toBigInt(p.active_until) \in Int
  BY <1>2, FormIntegers, IntegerLike DEF GoodIntegers, GoodInteger
<1> DEFINE W == isIntegerLike(p.window_cap) /\ toBigInt(p.window_cap) > 0 /\ NoWindow(p)
           V == /\ isIntegerLike(p.active_from) /\ isIntegerLike(p.active_until)
                /\ toBigInt(p.active_until) # 0
                /\ toBigInt(p.active_until) <= toBigInt(p.active_from)
<1>3. WindowRules(p) = {}
        <=> IntegerRules(p, "window_secs") = {} /\ IntegerRules(p, "window_cap") = {} /\ ~W
  BY DEF WindowRules, When
<1>4. ActiveRules(p) = {}
        <=> IntegerRules(p, "active_from") = {} /\ IntegerRules(p, "active_until") = {} /\ ~V
  BY DEF ActiveRules, When
<1>5. FlagRules(p) = {} <=> GoodFlags(p)
  BY DEF FlagRules, GoodFlags, When
<1>6. ASSUME GoodIntegers(p) PROVE (~W <=> WindowFine(p)) /\ (~V <=> ActiveFine(p))
  BY <1>2, <1>6 DEF WindowFine, ActiveFine
<1> HIDE DEF W, V
<1>7. GoodIntegers(p) <=>
        /\ IntegerRules(p, "per_tx_cap") = {} /\ IntegerRules(p, "window_secs") = {}
        /\ IntegerRules(p, "window_cap") = {} /\ IntegerRules(p, "active_from") = {}
        /\ IntegerRules(p, "active_until") = {} /\ IntegerRules(p, "dms_grace_secs") = {}
  BY <1>1, FormIntegers DEF GoodIntegers
<1> QED BY <1>3, <1>4, <1>5, <1>6, <1>7

LEMMA FormLists ==
  ASSUME NEW p, IsForm(p)
  PROVE  /\ \A f \in AddressLists : isArray(p[f]) => /\ p[f] \in Seq(Addresses)
                                                     /\ DOMAIN p[f] = 1..Len(p[f])
                                                     /\ Len(p[f]) \in Nat
         /\ \A f \in AddressLists : p[f] = <<>> => isArray(p[f])
         /\ isArray(p.protocols) => /\ p.protocols \in Seq(ProtocolRule)
                                    /\ DOMAIN p.protocols = 1..Len(p.protocols)
                                    /\ Len(p.protocols) \in Nat
         /\ isArray(p.recipient_window_caps) =>
              /\ p.recipient_window_caps \in Seq(WindowCap)
              /\ DOMAIN p.recipient_window_caps = 1..Len(p.recipient_window_caps)
              /\ Len(p.recipient_window_caps) \in Nat
<1>1. /\ \A f \in AddressLists : isArray(p[f]) => p[f] \in Seq(Addresses)
      /\ isArray(p.protocols) => p.protocols \in Seq(ProtocolRule)
      /\ isArray(p.recipient_window_caps) => p.recipient_window_caps \in Seq(WindowCap)
  BY FormIs DEF isArray, NotLists
<1>2. \A S : \A list \in Seq(S) : DOMAIN list = 1..Len(list) /\ Len(list) \in Nat
  OBVIOUS
<1>3. <<>> \in Seq(Addresses)
  OBVIOUS
<1>4. isArray(<<>>)
  BY <1>3, ListsAreArrays
<1> QED BY <1>1, <1>2, <1>4

LEMMA FunctionRulesAre ==
  ASSUME NEW fns \in Seq(Names) \cup NotLists
  PROVE  FunctionRules(fns) = {} <=> GoodFns(fns)
<1>1. CASE fns \in {Absent, Null}
  BY <1>1 DEF FunctionRules, GoodFns
<1>2. CASE fns = Junk
  <2>1. fns \notin {Absent, Null} /\ ~isArray(fns)
    BY <1>2, PolicyFormsAssumption DEF PolicyFormsAssumption, isArray
  <2> QED BY <1>2, <2>1 DEF FunctionRules, GoodFns
<1>3. CASE fns \in Seq(Names)
  <2>1. isArray(fns) /\ fns \notin {Absent, Null} /\ fns # Junk
    BY <1>3, ListsAreArrays DEF isArray
  <2>2. CASE fns = <<>>
    BY <2>1, <2>2 DEF FunctionRules, GoodFns
  <2>3. CASE fns # <<>>
    <3>1. FunctionRules(fns) = {} <=> Junk \notin Range(fns) /\ ~Repeats(fns, isName)
      BY <2>1, <2>3 DEF FunctionRules, When
    <3>2. Junk \notin Range(fns) <=> \A i \in DOMAIN fns : isName(fns[i])
      BY DEF Range, isName
    <3>3. ASSUME \A i \in DOMAIN fns : isName(fns[i])
          PROVE  ~Repeats(fns, isName) <=> \A i, j \in DOMAIN fns : fns[i] = fns[j] => i = j
      <4>1. ~Repeats(fns, isName) <=> \A i, j \in DOMAIN fns : ~(i < j /\ fns[i] = fns[j])
        BY <3>3 DEF Repeats
      <4>2. DOMAIN fns = 1..Len(fns) /\ Len(fns) \in Nat
        BY <1>3
      <4> QED BY <4>1, <4>2
    <3> QED BY <2>1, <2>3, <3>1, <3>2, <3>3 DEF GoodFns
  <2> QED BY <2>2, <2>3
<1> QED BY <1>1, <1>2, <1>3 DEF NotLists

LEMMA RuleFns ==
  ASSUME NEW p, IsForm(p), isArray(p.protocols)
  PROVE  \A i \in DOMAIN p.protocols : p.protocols[i].fns \in Seq(Names) \cup NotLists
<1>1. \A r \in ProtocolRule : r.fns \in Seq(Names) \cup NotLists
  BY DEF ProtocolRule
<1> QED BY <1>1, RulePauses

LEMMA ProtocolSection ==
  ASSUME NEW p, IsForm(p)
  PROVE  ProtocolRules(p) = {} <=> GoodProtocols(p)
<1>1. CASE ~isArray(p.protocols)
  BY <1>1 DEF ProtocolRules, GoodProtocols
<1>2. CASE isArray(p.protocols)
  <2> DEFINE ps == p.protocols
             named == Contracted(p)
             L == ListRules(named, "protocols", "duplicate_protocol", "self_as_protocol")
             F == UNION {FunctionRules(r.fns) : r \in Range(ps)}
  <2>1. ProtocolRules(p) = L \cup F
    BY <1>2 DEF ProtocolRules, Contracted
  <2>2. DOMAIN named = 1..Len(ps) /\ Len(ps) \in Nat
    BY <1>2, FormLists DEF Contracted
  <2>3. F = {} <=> \A i \in DOMAIN ps : FunctionRules(ps[i].fns) = {}
    BY DEF Range
  <2>4. \A i \in DOMAIN ps : FunctionRules(ps[i].fns) = {} <=> GoodFns(ps[i].fns)
    BY <1>2, RuleFns, FunctionRulesAre
  <2> HIDE DEF F, named
  <2>5. L = {} <=> GoodList(named)
    BY <2>2, ListRulesAre
  <2> HIDE DEF L
  <2> QED BY <1>2, <2>1, <2>3, <2>4, <2>5 DEF GoodProtocols, named
<1> QED BY <1>1, <1>2

\* The two sections that give advice, without it.
AssetObjections(p) ==
  IF ~isArray(p.assets) THEN {<<"assets", "invalid_type">>}
  ELSE ListRules(p.assets, "assets", "duplicate_asset", "self_as_asset")
RecipientObjections(p) ==
  IF ~isArray(p.recipients) THEN {<<"recipients", "invalid_type">>}
  ELSE TooLong(p.recipients, "recipients")
       \cup ListRules(p.recipients, "recipients", "duplicate_recipient", "self_as_recipient")

LEMMA TooLongIs ==
  ASSUME NEW list, Len(list) \in Nat, NEW f
  PROVE  TooLong(list, f) = {} <=> Short(list)
<1>1. TooLong(list, f) = {} <=> ~(Len(list) > MaxEntries)
  BY DEF TooLong, When
<1> QED BY <1>1, Bounds DEF Short

LEMMA AddressSections ==
  ASSUME NEW p, IsForm(p)
  PROVE  /\ AssetObjections(p) = {} <=> GoodAssets(p)
         /\ RecipientObjections(p) = {} <=> GoodRecipients(p)
         /\ BlockedRules(p) = {} <=> GoodBlocked(p)
<1>1. ASSUME NEW f \in AddressLists, isArray(p[f]), NEW duplicate, NEW self
      PROVE  /\ ListRules(p[f], f, duplicate, self) = {} <=> GoodList(p[f])
             /\ TooLong(p[f], f) = {} <=> Short(p[f])
  <2> DEFINE list == p[f]
             n == Len(list)
  <2>1. n \in Nat /\ DOMAIN list = 1..n
    BY <1>1, FormLists
  <2> HIDE DEF n, list
  <2>2. ListRules(list, f, duplicate, self) = {} <=> GoodList(list)
    BY <2>1, ListRulesAre
  <2>3. TooLong(list, f) = {} <=> Short(list)
    BY <2>1, TooLongIs DEF n
  <2> QED BY <2>2, <2>3 DEF list
<1>2. "assets" \in AddressLists /\ "recipients" \in AddressLists
      /\ "blocked_recipients" \in AddressLists
  BY DEF AddressLists
<1>3. AssetObjections(p) = {} <=> GoodAssets(p)
  BY <1>1, <1>2 DEF AssetObjections, GoodAssets
<1>4. RecipientObjections(p) = {} <=> GoodRecipients(p)
  BY <1>1, <1>2 DEF RecipientObjections, GoodRecipients
<1>5. BlockedRules(p) = {} <=> GoodBlocked(p)
  <2> DEFINE b == p.blocked_recipients
             D == "duplicate_blocked_recipient"
             S == "self_as_recipient"
             F == "blocked_recipients"
             C == \E a \in Range(b) : isValidStellarAddress(a) /\ a \in Items(p.recipients)
  <2>1. CASE b \in {Absent, Null}
    BY <2>1 DEF BlockedRules, GoodBlocked
  <2>2. CASE b = Junk
    <3>1. b \notin {Absent, Null} /\ ~isArray(b)
      BY <2>2, PolicyFormsAssumption DEF PolicyFormsAssumption, isArray
    <3> QED BY <2>2, <3>1 DEF BlockedRules, GoodBlocked
  <2>3. CASE isArray(b)
    <3>1. b \notin {Absent, Null} /\ b # Junk
      BY <2>3 DEF isArray
    <3>2. BlockedRules(p) = TooLong(b, F) \cup ListRules(b, F, D, S)
                              \cup When(C, <<F, "recipient_conflict">>)
      BY <3>1 DEF BlockedRules, Items
    <3>3. ListRules(b, F, D, S) = {} <=> GoodList(b)
      BY <1>1, <1>2, <2>3
    <3>4. TooLong(b, F) = {} <=> Short(b)
      BY <1>1, <1>2, <2>3
    <3>5. When(C, <<F, "recipient_conflict">>) = {} <=> ~C
      BY DEF When
    <3>6. ASSUME GoodList(b) PROVE ~C <=> Range(b) \cap Items(p.recipients) = {}
      BY <3>6 DEF GoodList, Range
    <3>7. GoodBlocked(p)
            <=> Short(b) /\ GoodList(b) /\ Range(b) \cap Items(p.recipients) = {}
      BY <2>3, <3>1 DEF GoodBlocked
    <3> HIDE DEF b, C
    <3> QED BY <3>2, <3>3, <3>4, <3>5, <3>6, <3>7
  <2> QED BY <2>1, <2>2, <2>3 DEF isArray
<1> QED BY <1>3, <1>4, <1>5

LEMMA CapSection ==
  ASSUME NEW p, IsForm(p)
  PROVE  CapRules(p) = {} <=> GoodCaps(p)
<1> DEFINE caps == p.recipient_window_caps
           F == "recipient_window_caps"
           L == ListRules(Capped(caps), F, "duplicate_recipient_window_cap",
                          "self_as_recipient_cap")
           Of(c) == When(c.cap < 0, <<F, "negative_amount">>)
                    \cup When(c.cap > I128Max, <<F, "integer_out_of_range">>)
                    \cup When(c.cap > 0 /\ NoWindow(p), <<F, "recipient_cap_requires_window">>)
           U == UNION {Of(c) : c \in Range(caps)}
<1>1. CASE caps \in {Absent, Null}
  BY <1>1 DEF CapRules, GoodCaps
<1>2. CASE caps = Junk
  <2>1. caps \notin {Absent, Null} /\ ~isArray(caps)
    BY <1>2, PolicyFormsAssumption DEF PolicyFormsAssumption, isArray
  <2> QED BY <1>2, <2>1 DEF CapRules, GoodCaps
<1>3. CASE isArray(caps)
  <2>1. caps \notin {Absent, Null} /\ caps # Junk
    BY <1>3 DEF isArray
  <2>2. CapRules(p) = TooLong(caps, F) \cup L \cup U
    BY <2>1 DEF CapRules, Capped
  <2>3. caps \in Seq(WindowCap) /\ DOMAIN caps = 1..Len(caps) /\ Len(caps) \in Nat
    BY <1>3, FormLists
  <2>4. TooLong(caps, F) = {} <=> Short(caps)
    BY <2>3, TooLongIs
  <2>5. L = {} <=> GoodList(Capped(caps))
    <3> DEFINE named == Capped(caps)
               n == Len(caps)
    <3>1. DOMAIN named = 1..n /\ n \in Nat
      BY <2>3 DEF Capped
    <3> HIDE DEF named, n
    <3>2. ListRules(named, F, "duplicate_recipient_window_cap", "self_as_recipient_cap") = {}
            <=> GoodList(named)
      BY <3>1, ListRulesAre
    <3> QED BY <3>2 DEF named
  <2>6. U = {} <=> \A i \in DOMAIN caps : Of(caps[i]) = {}
    BY DEF Range
  <2>7. \A i \in DOMAIN caps : Of(caps[i]) = {} <=> GoodCap(p, caps[i])
    <3> SUFFICES ASSUME NEW i \in DOMAIN caps PROVE Of(caps[i]) = {} <=> GoodCap(p, caps[i])
      OBVIOUS
    <3>0. caps[i] \in WindowCap
      BY <2>3
    <3>1. caps[i].cap \in Int
      BY <3>0 DEF WindowCap
    <3>2. Of(caps[i]) = {} <=> /\ ~(caps[i].cap < 0) /\ ~(caps[i].cap > I128Max)
                               /\ ~(caps[i].cap > 0 /\ NoWindow(p))
      BY DEF When
    <3> QED BY <3>1, <3>2, Bounds DEF GoodCap
  <2>8. GoodCaps(p) <=> /\ Short(caps) /\ GoodList(Capped(caps))
                        /\ \A i \in DOMAIN caps : GoodCap(p, caps[i])
    BY <1>3, <2>1 DEF GoodCaps
  <2> HIDE DEF caps, L, U, Of
  <2> QED BY <2>2, <2>4, <2>5, <2>6, <2>7, <2>8
<1> QED BY <1>1, <1>2, <1>3 DEF isArray

\* validateGuardPolicy() objects, and advises.
Objections(p) ==
  IntegerRules(p, "per_tx_cap") \cup WindowRules(p) \cup AssetObjections(p)
  \cup ProtocolRules(p) \cup RecipientObjections(p) \cup BlockedRules(p)
  \cup CapRules(p) \cup ActiveRules(p) \cup FlagRules(p)
  \cup IntegerRules(p, "dms_grace_secs")
Advice(p) ==
  When(p.assets = <<>>, <<"assets", "empty_vector_noop">>)
  \cup When(p.recipients = <<>> /\ p.allow_any_recipient = FALSE,
            <<"recipients", "empty_vector_noop">>)

LEMMA ObjectionsAre ==
  ASSUME NEW p, IsForm(p)
  PROVE  Objections(p) = {} <=> Sensible(p)
<1>1. Objections(p) = {} <=>
        /\ /\ IntegerRules(p, "per_tx_cap") = {} /\ WindowRules(p) = {}
           /\ ActiveRules(p) = {} /\ FlagRules(p) = {}
           /\ IntegerRules(p, "dms_grace_secs") = {}
        /\ ProtocolRules(p) = {}
        /\ AssetObjections(p) = {} /\ RecipientObjections(p) = {} /\ BlockedRules(p) = {}
        /\ CapRules(p) = {}
  BY DEF Objections
<1> QED BY <1>1, IntegerSections, ProtocolSection, AddressSections, CapSection DEF Sensible

LEMMA ObjectsAndAdvises ==
  ASSUME NEW p, IsForm(p)
  PROVE  validateGuardPolicy(p) = Objections(p) \cup Advice(p)
<1> DEFINE a == When(p.assets = <<>>, <<"assets", "empty_vector_noop">>)
           r == When(p.recipients = <<>> /\ p.allow_any_recipient = FALSE,
                     <<"recipients", "empty_vector_noop">>)
<1>1. /\ p.assets = <<>> => isArray(p.assets)
      /\ p.recipients = <<>> => isArray(p.recipients)
  BY FormLists DEF AddressLists
<1>2. AssetRules(p) = AssetObjections(p) \cup a
  <2>1. CASE isArray(p.assets)
    BY <2>1 DEF AssetRules, AssetObjections
  <2>2. CASE ~isArray(p.assets)
    <3>1. a = {}
      BY <1>1, <2>2 DEF When
    <3> HIDE DEF a
    <3> QED BY <2>2, <3>1 DEF AssetRules, AssetObjections
  <2> QED BY <2>1, <2>2
<1>3. RecipientRules(p) = RecipientObjections(p) \cup r
  <2>1. CASE isArray(p.recipients)
    BY <2>1 DEF RecipientRules, RecipientObjections
  <2>2. CASE ~isArray(p.recipients)
    <3>1. r = {}
      BY <1>1, <2>2 DEF When
    <3> HIDE DEF r
    <3> QED BY <2>2, <3>1 DEF RecipientRules, RecipientObjections
  <2> QED BY <2>1, <2>2
<1>4. Advice(p) = a \cup r
  BY DEF Advice
<1> HIDE DEF a, r
<1> QED BY <1>2, <1>3, <1>4 DEF validateGuardPolicy, Objections

\* No objection goes by the name of the advice.
Objecting(S) == \A x \in S : x[2] # "empty_vector_noop"

LEMMA ObjectingBasics ==
  /\ Objecting({})
  /\ \A c, f, r : r # "empty_vector_noop" => Objecting(When(c, <<f, r>>))
  /\ \A f, r : r # "empty_vector_noop" => Objecting({<<f, r>>})
  /\ \A S, T : Objecting(S) /\ Objecting(T) => Objecting(S \cup T)
<1>1. \A f, r : <<f, r>>[2] = r
  OBVIOUS
<1>2. ASSUME NEW c, NEW f, NEW r, r # "empty_vector_noop"
      PROVE  Objecting(When(c, <<f, r>>))
  <2>1. \A x \in When(c, <<f, r>>) : x = <<f, r>>
    BY Zenon DEF When
  <2> QED BY <1>1, <1>2, <2>1, Zenon DEF Objecting
<1>3. \A f, r : r # "empty_vector_noop" => Objecting({<<f, r>>})
  BY DEF Objecting
<1>4. \A S, T : Objecting(S) /\ Objecting(T) => Objecting(S \cup T)
  BY DEF Objecting
<1> QED BY <1>2, <1>3, <1>4 DEF Objecting

LEMMA ListRulesObject ==
  ASSUME NEW list, NEW f, NEW duplicate, NEW self,
         duplicate # "empty_vector_noop", self # "empty_vector_noop"
  PROVE  Objecting(ListRules(list, f, duplicate, self))
BY ObjectingBasics DEF ListRules

LEMMA IntegerRulesObject ==
  ASSUME NEW p, NEW f
  PROVE  Objecting(IntegerRules(p, f))
BY ObjectingBasics DEF IntegerRules

LEMMA FunctionRulesObject ==
  ASSUME NEW fns
  PROVE  Objecting(FunctionRules(fns))
BY ObjectingBasics DEF FunctionRules

LEMMA ObjectionsObject ==
  ASSUME NEW p
  PROVE  Objecting(Objections(p))
<1>1. Objecting(WindowRules(p)) /\ Objecting(ActiveRules(p))
  BY ObjectingBasics, IntegerRulesObject DEF WindowRules, ActiveRules
<1>2. Objecting(FlagRules(p))
  <2>1. \A f : Objecting(When(p[f] \notin BOOLEAN, <<f, "invalid_type">>))
    BY ObjectingBasics
  <2> QED BY <2>1 DEF FlagRules, Objecting
<1>3. Objecting(AssetObjections(p))
  BY ObjectingBasics, ListRulesObject DEF AssetObjections
<1>4. \A list, f : Objecting(TooLong(list, f))
  BY ObjectingBasics DEF TooLong
<1>5. Objecting(RecipientObjections(p))
  BY <1>4, ObjectingBasics, ListRulesObject DEF RecipientObjections
<1>6. Objecting(ProtocolRules(p))
  <2> DEFINE F == UNION {FunctionRules(r.fns) : r \in Range(p.protocols)}
             L == ListRules(Contracted(p), "protocols", "duplicate_protocol",
                            "self_as_protocol")
  <2>1. Objecting(F)
    BY FunctionRulesObject DEF Objecting
  <2>2. Objecting(L)
    BY ListRulesObject
  <2>3. ProtocolRules(p) = IF ~isArray(p.protocols) THEN {<<"protocols", "invalid_type">>}
                           ELSE L \cup F
    BY DEF ProtocolRules, Contracted
  <2> HIDE DEF F, L
  <2> QED BY <2>1, <2>2, <2>3, ObjectingBasics
<1>7. Objecting(BlockedRules(p))
  <2> DEFINE b == p.blocked_recipients
             allowed == IF isArray(p.recipients) THEN Range(p.recipients) ELSE {}
             T == TooLong(b, "blocked_recipients")
             L == ListRules(b, "blocked_recipients", "duplicate_blocked_recipient",
                            "self_as_recipient")
             W == When(\E a \in Range(b) : isValidStellarAddress(a) /\ a \in allowed,
                       <<"blocked_recipients", "recipient_conflict">>)
  <2>1. Objecting(T) /\ Objecting(L) /\ Objecting(W)
    BY <1>4, ObjectingBasics, ListRulesObject
  <2>2. BlockedRules(p) = IF b \in {Absent, Null} THEN {}
                          ELSE IF b = Junk THEN {<<"blocked_recipients", "invalid_type">>}
                          ELSE T \cup L \cup W
    BY DEF BlockedRules
  <2> HIDE DEF b, T, L, W
  <2> QED BY <2>1, <2>2, ObjectingBasics
<1>8. Objecting(CapRules(p))
  <2> DEFINE caps == p.recipient_window_caps
             F == "recipient_window_caps"
             T == TooLong(caps, F)
             L == ListRules(Capped(caps), F, "duplicate_recipient_window_cap",
                            "self_as_recipient_cap")
             Of(c) == When(c.cap < 0, <<F, "negative_amount">>)
                      \cup When(c.cap > I128Max, <<F, "integer_out_of_range">>)
                      \cup When(c.cap > 0 /\ NoWindow(p),
                                <<F, "recipient_cap_requires_window">>)
             U == UNION {Of(c) : c \in Range(caps)}
  <2>1. Objecting(T) /\ Objecting(L)
    BY <1>4, ListRulesObject
  <2>2. \A c : Objecting(Of(c))
    BY ObjectingBasics
  <2>3. CapRules(p) = IF caps \in {Absent, Null} THEN {}
                      ELSE IF caps = Junk THEN {<<F, "invalid_type">>}
                      ELSE T \cup L \cup U
    BY DEF CapRules, Capped
  <2> HIDE DEF caps, T, L, Of
  <2>4. Objecting(U)
    BY <2>2 DEF Objecting
  <2> HIDE DEF U
  <2> QED BY <2>1, <2>3, <2>4, ObjectingBasics
<1> QED
  BY <1>1, <1>2, <1>3, <1>5, <1>6, <1>7, <1>8, IntegerRulesObject, ObjectingBasics
     DEF Objections

\* What validateGuardPolicy() accepts, and what it accepts but for its advice.
LEMMA ValidatorIs ==
  ASSUME NEW p, IsForm(p)
  PROVE  /\ validateGuardPolicy(p) = {} <=> Sensible(p) /\ WellStocked(p)
         /\ Rules(validateGuardPolicy(p)) \subseteq {"empty_vector_noop"} <=> Sensible(p)
<1>1. validateGuardPolicy(p) = Objections(p) \cup Advice(p)
  BY ObjectsAndAdvises
<1>2. Advice(p) = {} <=> WellStocked(p)
  BY DEF Advice, When, WellStocked
<1>3. \A x \in Advice(p) : x[2] = "empty_vector_noop"
  <2>1. \A x \in Advice(p) : \/ x = <<"assets", "empty_vector_noop">>
                             \/ x = <<"recipients", "empty_vector_noop">>
    BY Zenon DEF Advice, When
  <2> QED BY <2>1
<1>4. \A x \in Objections(p) : x[2] # "empty_vector_noop"
  BY ObjectionsObject DEF Objecting
<1>5. Rules(Objections(p) \cup Advice(p)) \subseteq {"empty_vector_noop"}
        <=> Objections(p) = {}
  BY <1>3, <1>4 DEF Rules
<1> QED BY <1>1, <1>2, <1>5, ObjectionsAre

-----------------------------------------------------------------------------
(* The schema and its code rules, taken apart.                              *)

LEMMA SchemaParts ==
  ASSUME NEW p
  PROVE  evaluateSchema(p) = {} <=>
           /\ \A f \in Required : p[f] # Absent
           /\ p.protocol_calls_per_window = Absent /\ p.asset_caps = Absent
           /\ isArray(p.protocols) => \A r \in Range(p.protocols) : r.paused = Absent
           /\ \A f \in Integers_ : SchemaInteger(p[f], f) = {}
           /\ \A f \in Flags : p[f] \notin {Null, Junk}
           /\ \A f \in RequiredLists \cup OptionalLists : p[f] \notin {Null, Junk}
           /\ isArray(p.protocols) =>
                \A r \in Range(p.protocols) :
                  r.fns # Junk /\ (isArray(r.fns) => Junk \notin Range(r.fns))
           /\ \A c \in Items(p.recipient_window_caps) : ~(c.cap < 0)
           /\ SchemaAllOf(p) = {}
<1>1. SchemaRequired(p) = {} <=> \A f \in Required : p[f] # Absent
  BY DEF SchemaRequired
<1>2. SchemaUnknown(p) = {} <=>
        /\ p.protocol_calls_per_window = Absent /\ p.asset_caps = Absent
        /\ isArray(p.protocols) => \A r \in Range(p.protocols) : r.paused = Absent
  <2> DEFINE A == {g \in Fields \ SchemaProperties : p[g] # Absent}
             B == isArray(p.protocols) /\ \E r \in Range(p.protocols) : r.paused # Absent
             S == {<<f, "invalid_type">> : f \in A}
  <2>1. Fields \ SchemaProperties = {"protocol_calls_per_window", "asset_caps"}
    BY FieldsAre DEF SchemaProperties
  <2>2. S = {} <=> p.protocol_calls_per_window = Absent /\ p.asset_caps = Absent
    BY <2>1
  <2>3. When(B, <<"protocols", "invalid_type">>) = {} <=> ~B
    BY DEF When
  <2>4. SchemaUnknown(p) = S \cup When(B, <<"protocols", "invalid_type">>)
    BY DEF SchemaUnknown
  <2> HIDE DEF S
  <2> QED BY <2>2, <2>3, <2>4
<1>3. SchemaTypes(p) = {} <=>
        /\ \A f \in Integers_ : SchemaInteger(p[f], f) = {}
        /\ \A f \in Flags : p[f] \notin {Null, Junk}
        /\ \A f \in RequiredLists \cup OptionalLists : p[f] \notin {Null, Junk}
        /\ isArray(p.protocols) =>
             \A r \in Range(p.protocols) :
               r.fns # Junk /\ (isArray(r.fns) => Junk \notin Range(r.fns))
        /\ \A c \in Items(p.recipient_window_caps) : ~(c.cap < 0)
  <2> DEFINE I == UNION {SchemaInteger(p[f], f) : f \in Integers_}
             F == {<<f, "invalid_type">> : f \in {g \in Flags : p[g] \in {Null, Junk}}}
             L == {<<f, "invalid_type">> :
                     f \in {g \in RequiredLists \cup OptionalLists : p[g] \in {Null, Junk}}}
             B == /\ isArray(p.protocols)
                  /\ \E r \in Range(p.protocols) :
                        r.fns = Junk \/ (isArray(r.fns) /\ Junk \in Range(r.fns))
             C == \E c \in Items(p.recipient_window_caps) : c.cap < 0
             WB == When(B, <<"protocols", "invalid_type">>)
             WC == When(C, <<"recipient_window_caps", "negative_amount">>)
  <2>1. SchemaTypes(p) = I \cup F \cup L \cup WB \cup WC
    BY DEF SchemaTypes
  <2>2. I = {} <=> \A f \in Integers_ : SchemaInteger(p[f], f) = {}
    OBVIOUS
  <2>3. F = {} <=> \A f \in Flags : p[f] \notin {Null, Junk}
    OBVIOUS
  <2>4. L = {} <=> \A f \in RequiredLists \cup OptionalLists : p[f] \notin {Null, Junk}
    OBVIOUS
  <2>5. (WB = {} <=> ~B) /\ (WC = {} <=> ~C)
    BY DEF When
  <2> HIDE DEF I, F, L, WB, WC
  <2>6. SchemaTypes(p) = {} <=> I = {} /\ F = {} /\ L = {} /\ WB = {} /\ WC = {}
    BY <2>1
  <2>7. ~B <=> (isArray(p.protocols) =>
                  \A r \in Range(p.protocols) :
                    r.fns # Junk /\ (isArray(r.fns) => Junk \notin Range(r.fns)))
    OBVIOUS
  <2>8. ~C <=> \A c \in Items(p.recipient_window_caps) : ~(c.cap < 0)
    OBVIOUS
  <2> HIDE DEF B, C
  <2> QED BY <2>2, <2>3, <2>4, <2>5, <2>6, <2>7, <2>8
<1> QED BY <1>1, <1>2, <1>3 DEF evaluateSchema

LEMMA CodeParts ==
  ASSUME NEW p
  PROVE  LET caps == arrayAt(p, "recipient_window_caps")
             protocols == arrayAt(p, "protocols")
             named == [i \in DOMAIN protocols |-> protocols[i].contract]
         IN enforceCodeRules(p) = {} <=>
           /\ \A f \in Integers_ : ~(isIntegerLike(p[f]) /\ toBigInt(p[f]) > Maximum(f))
           /\ \A i \in DOMAIN caps : ~(caps[i].cap > I128Max)
           /\ \A f \in OptionalLists \cup {"recipients"} : ~(Len(arrayAt(p, f)) > MaxEntries)
           /\ checkAddressList(arrayAt(p, "assets"), "assets", "duplicate_asset",
                               "self_as_asset") = {}
           /\ checkAddressList(arrayAt(p, "recipients"), "recipients", "duplicate_recipient",
                               "self_as_recipient") = {}
           /\ checkAddressList(arrayAt(p, "blocked_recipients"), "blocked_recipients",
                               "duplicate_blocked_recipient", "self_as_recipient") = {}
           /\ checkAddressList(Capped(caps), "recipient_window_caps",
                               "duplicate_recipient_window_cap", "self_as_recipient_cap") = {}
           /\ checkAddressList(named, "protocols", "duplicate_protocol",
                               "self_as_protocol") = {}
           /\ \A i \in DOMAIN protocols : CodeFunctions(protocols[i].fns) = {}
           /\ CodeCrossRules(p) = {}
<1> DEFINE caps == arrayAt(p, "recipient_window_caps")
           protocols == arrayAt(p, "protocols")
           named == [i \in DOMAIN protocols |-> protocols[i].contract]
           I == {<<f, "integer_out_of_range">> :
                   f \in {g \in Integers_ : isIntegerLike(p[g]) /\ toBigInt(p[g]) > Maximum(g)}}
           C == \E i \in DOMAIN caps : caps[i].cap > I128Max
           W == When(C, <<"recipient_window_caps", "integer_out_of_range">>)
           L == UNION {When(Len(arrayAt(p, f)) > MaxEntries,
                            <<f, "max_recipient_entries_exceeded">>) :
                         f \in OptionalLists \cup {"recipients"}}
           A1 == checkAddressList(arrayAt(p, "assets"), "assets", "duplicate_asset",
                                  "self_as_asset")
           A2 == checkAddressList(arrayAt(p, "recipients"), "recipients",
                                  "duplicate_recipient", "self_as_recipient")
           A3 == checkAddressList(arrayAt(p, "blocked_recipients"), "blocked_recipients",
                                  "duplicate_blocked_recipient", "self_as_recipient")
           A4 == checkAddressList(Capped(caps), "recipient_window_caps",
                                  "duplicate_recipient_window_cap", "self_as_recipient_cap")
           A5 == checkAddressList(named, "protocols", "duplicate_protocol",
                                  "self_as_protocol")
           F == UNION {CodeFunctions(protocols[i].fns) : i \in DOMAIN protocols}
<1>1. enforceCodeRules(p)
        = I \cup W \cup L \cup A1 \cup A2 \cup A3 \cup A4 \cup A5 \cup F \cup CodeCrossRules(p)
  BY DEF enforceCodeRules, Capped
<1>2. I = {} <=> \A f \in Integers_ : ~(isIntegerLike(p[f]) /\ toBigInt(p[f]) > Maximum(f))
  OBVIOUS
<1>3. W = {} <=> \A i \in DOMAIN caps : ~(caps[i].cap > I128Max)
  <2>1. W = {} <=> ~C
    BY DEF When
  <2> QED BY <2>1
<1>4. L = {} <=> \A f \in OptionalLists \cup {"recipients"} : ~(Len(arrayAt(p, f)) > MaxEntries)
  BY DEF When
<1>5. F = {} <=> \A i \in DOMAIN protocols : CodeFunctions(protocols[i].fns) = {}
  OBVIOUS
<1> HIDE DEF I, W, L, A1, A2, A3, A4, A5, F
<1>6. enforceCodeRules(p) = {} <=>
        /\ I = {} /\ W = {} /\ L = {} /\ A1 = {} /\ A2 = {} /\ A3 = {} /\ A4 = {} /\ A5 = {}
        /\ F = {} /\ CodeCrossRules(p) = {}
  BY <1>1
<1> QED BY <1>2, <1>3, <1>4, <1>5, <1>6 DEF A1, A2, A3, A4, A5

LEMMA SchemaIntegersAre ==
  ASSUME NEW p, IsForm(p)
  PROVE  ( \A f \in Integers_ : /\ p[f] # Absent /\ SchemaInteger(p[f], f) = {}
                                /\ ~(isIntegerLike(p[f]) /\ toBigInt(p[f]) > Maximum(f)) )
         <=> GoodIntegers(p)
<1>1. ASSUME NEW f \in Integers_
      PROVE  ( /\ p[f] # Absent /\ SchemaInteger(p[f], f) = {}
               /\ ~(isIntegerLike(p[f]) /\ toBigInt(p[f]) > Maximum(f)) )
             <=> GoodInteger(p[f], f)
  <2> DEFINE v == p[f]
             n == toBigInt(v)
  <2>1. v \in Int \cup NotLists \cup {Numeral}
    BY FormIntegers
  <2> HIDE DEF v
  <2>2. /\ isIntegerLike(v) => v # Absent /\ n \in Int
        /\ Maximum(f) \in Nat
    BY <2>1, IntegerLike, Bounds DEF NotLists
  <2>3. SchemaInteger(v, f) = IF v = Absent THEN {}
                              ELSE IF ~isIntegerLike(v) THEN {<<f, "invalid_type">>}
                              ELSE When(n < 0, <<f, "negative_amount">>)
    BY DEF SchemaInteger
  <2>4. When(n < 0, <<f, "negative_amount">>) = {} <=> ~(n < 0)
    BY DEF When
  <2>5. GoodInteger(v, f) <=> isIntegerLike(v) /\ 0 <= n /\ n <= Maximum(f)
    BY DEF GoodInteger
  <2> HIDE DEF n
  <2>6. CASE isIntegerLike(v)
    <3>1. v # Absent /\ (SchemaInteger(v, f) = {} <=> ~(n < 0))
      BY <2>2, <2>3, <2>4, <2>6
    <3>2. n \in Int
      BY <2>2, <2>6
    <3>3. (~(n < 0) /\ ~(n > Maximum(f))) <=> (0 <= n /\ n <= Maximum(f))
      BY <2>2, <3>2
    <3> QED BY <2>5, <2>6, <3>1, <3>3 DEF n, v
  <2>7. CASE ~isIntegerLike(v)
    <3>1. v # Absent => SchemaInteger(v, f) # {}
      BY <2>3, <2>7
    <3> QED BY <2>5, <2>7, <3>1 DEF v
  <2> QED BY <2>6, <2>7
<1> QED BY <1>1 DEF GoodIntegers

LEMMA SchemaWindows ==
  ASSUME NEW p, IsForm(p), GoodIntegers(p)
  PROVE  SchemaAllOf(p) = {}
           <=> /\ WindowFine(p)
               /\ \A c \in Items(p.recipient_window_caps) : ~(c.cap >= 1 /\ NoWindow(p))
<1> DEFINE ws == toBigInt(p.window_secs)
           wc == toBigInt(p.window_cap)
<1>1. \A f \in Integers_ : /\ isIntegerLike(p[f]) /\ toBigInt(p[f]) \in Int
                           /\ p[f] # Absent /\ 0 <= toBigInt(p[f])
  BY FormIntegers, IntegerLike DEF GoodIntegers, GoodInteger, NotLists
<1>2. /\ isIntegerLike(p.window_secs) /\ ws \in Int /\ 0 <= ws /\ p.window_secs # Absent
      /\ isIntegerLike(p.window_cap) /\ wc \in Int
  BY <1>1, FormIntegers
<1> HIDE DEF ws, wc
<1>3. NoWindow(p) <=> ws = 0
  BY <1>2 DEF NoWindow, ws
<1>4. ASSUME NEW condition \in BOOLEAN, NEW rule
      PROVE  SchemaWindow(p, condition, rule) = {} <=> ~(condition /\ NoWindow(p))
  <2>1. SchemaWindow(p, condition, rule) = {} <=> ~(condition /\ ws < 1)
    BY <1>2 DEF SchemaWindow, When, ws
  <2>2. ws < 1 <=> ws = 0
    BY <1>2
  <2> QED BY <1>3, <2>1, <2>2
<1> DEFINE A == isIntegerLike(p.window_cap) /\ wc >= 1
           B == \E c \in Items(p.recipient_window_caps) : c.cap >= 1
<1>5. SchemaAllOf(p) = SchemaWindow(p, A, "window_requires_secs")
                         \cup SchemaWindow(p, B, "recipient_cap_requires_window")
  BY DEF SchemaAllOf, wc
<1>6. (A <=> wc > 0) /\ A \in BOOLEAN /\ B \in BOOLEAN
  BY <1>2
<1>7. WindowFine(p) <=> ~(wc > 0 /\ NoWindow(p))
  BY DEF WindowFine, wc
<1>8. ~(B /\ NoWindow(p))
        <=> \A c \in Items(p.recipient_window_caps) : ~(c.cap >= 1 /\ NoWindow(p))
  OBVIOUS
<1> HIDE DEF A, B
<1>9. /\ SchemaWindow(p, A, "window_requires_secs") = {} <=> ~(A /\ NoWindow(p))
      /\ SchemaWindow(p, B, "recipient_cap_requires_window") = {} <=> ~(B /\ NoWindow(p))
  BY <1>4, <1>6
<1>10. SchemaAllOf(p) = {} <=> /\ SchemaWindow(p, A, "window_requires_secs") = {}
                               /\ SchemaWindow(p, B, "recipient_cap_requires_window") = {}
  BY <1>5
<1> QED BY <1>6, <1>7, <1>8, <1>9, <1>10

\* What both halves make sure of before anything else is said of a list.
Shaped(p) ==
  /\ \A f \in RequiredLists : isArray(p[f])
  /\ \A f \in OptionalLists : p[f] = Absent \/ isArray(p[f])

LEMMA CheckedList ==
  ASSUME NEW S, NEW list \in Seq(S), NEW f, NEW duplicate, NEW self
  PROVE  /\ checkAddressList(list, f, duplicate, self) = {} <=> GoodList(list)
         /\ ~(Len(list) > MaxEntries) <=> Short(list)
<1> DEFINE n == Len(list)
<1>1. n \in Nat /\ DOMAIN list = 1..n
  OBVIOUS
<1>2. ~(n > MaxEntries) <=> n <= MaxEntries
  BY <1>1, Bounds
<1> HIDE DEF n
<1>3. checkAddressList(list, f, duplicate, self) = {} <=> GoodList(list)
  BY <1>1, checkAddressListIs
<1> QED BY <1>2, <1>3 DEF n, Short

LEMMA EmptyIsGood ==
  /\ <<>> \in Seq(Addresses) /\ <<>> \in Seq(WindowCap)
  /\ GoodList(<<>>) /\ Short(<<>>) /\ DOMAIN <<>> = {} /\ Range(<<>>) = {}
  /\ Capped(<<>>) = <<>> /\ ~isArray(Absent)
<1>1. DOMAIN <<>> = {} /\ Len(<<>>) = 0
  OBVIOUS
<1>2. Capped(<<>>) = <<>>
  BY DEF Capped
<1> QED BY <1>1, <1>2, Bounds DEF GoodList, Short, Range, isArray

LEMMA SchemaAddresses ==
  ASSUME NEW p, IsForm(p), Shaped(p), NEW duplicate, NEW self
  PROVE  /\ checkAddressList(arrayAt(p, "assets"), "assets", duplicate, self) = {}
              <=> GoodAssets(p)
         /\ checkAddressList(arrayAt(p, "recipients"), "recipients", duplicate, self) = {}
              /\ ~(Len(arrayAt(p, "recipients")) > MaxEntries)
              <=> GoodRecipients(p)
         /\ checkAddressList(arrayAt(p, "blocked_recipients"), "blocked_recipients",
                             duplicate, self) = {}
              /\ ~(Len(arrayAt(p, "blocked_recipients")) > MaxEntries)
              /\ (~\E a \in Range(arrayAt(p, "blocked_recipients")) :
                      isValidStellarAddress(a) /\ a \in Range(arrayAt(p, "recipients")))
              <=> GoodBlocked(p)
<1>1. isArray(p.assets) /\ isArray(p.recipients)
      /\ (p.blocked_recipients = Absent \/ isArray(p.blocked_recipients))
  BY DEF Shaped, RequiredLists, OptionalLists
<1>2. /\ p.assets \in Seq(Addresses) /\ arrayAt(p, "assets") = p.assets
      /\ p.recipients \in Seq(Addresses) /\ arrayAt(p, "recipients") = p.recipients
      /\ Items(p.recipients) = Range(p.recipients)
  BY <1>1, FormLists DEF AddressLists, arrayAt, Items
<1>3. checkAddressList(p.assets, "assets", duplicate, self) = {} <=> GoodAssets(p)
  BY <1>1, <1>2, CheckedList DEF GoodAssets
<1>4. (checkAddressList(p.recipients, "recipients", duplicate, self) = {}
         /\ ~(Len(p.recipients) > MaxEntries))
        <=> GoodRecipients(p)
  BY <1>1, <1>2, CheckedList DEF GoodRecipients
<1> DEFINE b == p.blocked_recipients
           l == arrayAt(p, "blocked_recipients")
<1>5. l \in Seq(Addresses)
  BY <1>1, FormLists, EmptyIsGood DEF AddressLists, arrayAt
<1>6. GoodBlocked(p) <=> Short(l) /\ GoodList(l) /\ Range(l) \cap Range(p.recipients) = {}
  <2>1. CASE b = Absent
    <3>1. l = <<>>
      BY <2>1, EmptyIsGood DEF arrayAt
    <3> QED BY <2>1, <3>1, EmptyIsGood DEF GoodBlocked
  <2>2. CASE isArray(b)
    <3>1. l = b /\ b \notin {Absent, Null}
      BY <2>2 DEF arrayAt, isArray
    <3> QED BY <1>2, <2>2, <3>1 DEF GoodBlocked
  <2> QED BY <1>1, <2>1, <2>2
<1> HIDE DEF b, l
<1>7. /\ checkAddressList(l, "blocked_recipients", duplicate, self) = {} <=> GoodList(l)
      /\ ~(Len(l) > MaxEntries) <=> Short(l)
  BY <1>5, CheckedList
<1>8. ASSUME GoodList(l)
      PROVE  (~\E a \in Range(l) : isValidStellarAddress(a) /\ a \in Range(p.recipients))
               <=> Range(l) \cap Range(p.recipients) = {}
  BY <1>8 DEF GoodList, Range
<1>9. ( /\ checkAddressList(l, "blocked_recipients", duplicate, self) = {}
        /\ ~(Len(l) > MaxEntries)
        /\ (~\E a \in Range(l) : isValidStellarAddress(a) /\ a \in Range(p.recipients)) )
      <=> GoodBlocked(p)
  BY <1>6, <1>7, <1>8
<1> QED BY <1>2, <1>3, <1>4, <1>9 DEF l

LEMMA SchemaCaps ==
  ASSUME NEW p, IsForm(p), Shaped(p), NEW f, NEW duplicate, NEW self
  PROVE  LET caps == arrayAt(p, "recipient_window_caps") IN
         ( /\ \A c \in Items(p.recipient_window_caps) : ~(c.cap < 0)
           /\ \A i \in DOMAIN caps : ~(caps[i].cap > I128Max)
           /\ ~(Len(caps) > MaxEntries)
           /\ checkAddressList(Capped(caps), f, duplicate, self) = {}
           /\ \A c \in Items(p.recipient_window_caps) : ~(c.cap >= 1 /\ NoWindow(p)) )
         <=> GoodCaps(p)
<1> DEFINE b == p.recipient_window_caps
           caps == arrayAt(p, "recipient_window_caps")
           named == Capped(caps)
           n == Len(caps)
<1>1. b = Absent \/ isArray(b)
  BY DEF Shaped, OptionalLists
<1>2. caps \in Seq(WindowCap) /\ Items(b) = Range(caps)
  <2>1. CASE b = Absent
    BY <2>1, EmptyIsGood DEF arrayAt, Items
  <2>2. CASE isArray(b)
    BY <2>2, FormLists DEF arrayAt, Items
  <2> QED BY <1>1, <2>1, <2>2
<1>3. GoodCaps(p) <=> /\ Short(caps) /\ GoodList(named)
                      /\ \A i \in DOMAIN caps : GoodCap(p, caps[i])
  <2>1. CASE b = Absent
    <3>1. caps = <<>>
      BY <2>1, EmptyIsGood DEF arrayAt
    <3> QED BY <2>1, <3>1, EmptyIsGood DEF GoodCaps
  <2>2. CASE isArray(b)
    <3>1. caps = b /\ b \notin {Absent, Null}
      BY <2>2 DEF arrayAt, isArray
    <3> QED BY <2>2, <3>1 DEF GoodCaps
  <2> QED BY <1>1, <2>1, <2>2
<1>4. n \in Nat /\ DOMAIN caps = 1..n /\ DOMAIN named = 1..n
  BY <1>2 DEF Capped
<1> HIDE DEF b, caps
<1>5. ~(n > MaxEntries) <=> Short(caps)
  <2>1. ~(n > MaxEntries) <=> n <= MaxEntries
    <3> HIDE DEF n
    <3> QED BY <1>4, Bounds
  <2> QED BY <2>1 DEF Short
<1> HIDE DEF n, named
<1>6. checkAddressList(named, f, duplicate, self) = {} <=> GoodList(named)
  BY <1>4, checkAddressListIs
<1>7. (\A i \in DOMAIN caps : GoodCap(p, caps[i])) <=>
        /\ \A c \in Range(caps) : ~(c.cap < 0)
        /\ \A i \in DOMAIN caps : ~(caps[i].cap > I128Max)
        /\ \A c \in Range(caps) : ~(c.cap >= 1 /\ NoWindow(p))
  <2>1. \A i \in DOMAIN caps : caps[i].cap \in Int
    <3>1. \A c \in WindowCap : c.cap \in Int
      BY DEF WindowCap
    <3> QED BY <1>2, <3>1
  <2>2. \A i \in DOMAIN caps : GoodCap(p, caps[i]) <=>
           /\ ~(caps[i].cap < 0) /\ ~(caps[i].cap > I128Max)
           /\ ~(caps[i].cap >= 1 /\ NoWindow(p))
    BY <2>1, Bounds DEF GoodCap
  <2> QED BY <2>2 DEF Range
<1> QED BY <1>2, <1>3, <1>5, <1>6, <1>7 DEF b, caps, n, named

LEMMA SchemaProtocols ==
  ASSUME NEW p, IsForm(p), isArray(p.protocols), NEW f, NEW duplicate, NEW self
  PROVE  LET protocols == arrayAt(p, "protocols")
             named == [i \in DOMAIN protocols |-> protocols[i].contract] IN
         ( /\ \A r \in Range(p.protocols) :
                r.fns # Junk /\ (isArray(r.fns) => Junk \notin Range(r.fns))
           /\ checkAddressList(named, f, duplicate, self) = {}
           /\ \A i \in DOMAIN protocols : CodeFunctions(protocols[i].fns) = {} )
         <=> GoodProtocols(p)
<1> DEFINE ps == p.protocols
           protocols == arrayAt(p, "protocols")
           named == Contracted(p)
           n == Len(ps)
<1>1. protocols = ps /\ n \in Nat /\ DOMAIN named = 1..n
  BY FormLists DEF arrayAt, Contracted
<1>2. \A i \in DOMAIN ps : ps[i].fns \in Seq(Names) \cup NotLists
  BY RuleFns
<1>3. GoodProtocols(p) <=> GoodList(named) /\ \A i \in DOMAIN ps : GoodFns(ps[i].fns)
  BY DEF GoodProtocols
<1>4. ASSUME NEW fns \in Seq(Names) \cup NotLists
      PROVE  ( /\ fns # Junk /\ (isArray(fns) => Junk \notin Range(fns))
               /\ CodeFunctions(fns) = {} )
             <=> GoodFns(fns)
  <2>1. CASE fns \in {Absent, Null}
    <3>1. ~isArray(fns) /\ fns # Junk
      BY <2>1, PolicyFormsAssumption DEF PolicyFormsAssumption, isArray
    <3> QED BY <2>1, <3>1 DEF GoodFns, CodeFunctions
  <2>2. CASE fns = Junk
    <3>1. fns \notin {Absent, Null} /\ ~isArray(fns)
      BY <2>2, PolicyFormsAssumption DEF PolicyFormsAssumption, isArray
    <3> QED BY <2>2, <3>1 DEF GoodFns
  <2>3. CASE fns \in Seq(Names)
    <3>1. isArray(fns) /\ fns \notin {Absent, Null} /\ fns # Junk
      BY <2>3, ListsAreArrays DEF isArray
    <3>2. DOMAIN fns = 1..Len(fns) /\ Len(fns) \in Nat /\ (Len(fns) = 0 <=> fns = <<>>)
      BY <2>3
    <3>3. Junk \notin Range(fns) <=> \A i \in DOMAIN fns : isName(fns[i])
      BY DEF Range, isName
    <3> DEFINE D == {i \in DOMAIN fns : isName(fns[i])}
               c == Cardinality({fns[i] : i \in D})
               d == Cardinality(D)
    <3>4. CodeFunctions(fns) = {} <=> Len(fns) # 0 /\ ~(c < d)
      BY <3>1 DEF CodeFunctions, When
    <3>5. ASSUME Junk \notin Range(fns)
          PROVE  ~(c < d) <=> \A i, j \in DOMAIN fns : fns[i] = fns[j] => i = j
      <4>1. D = DOMAIN fns
        BY <3>3, <3>5
      <4>2. IsFiniteSet(D)
        <5> DEFINE m == Len(fns)
        <5>1. m \in Int /\ 1 \in Int /\ D = 1..m
          BY <3>2, <4>1
        <5> HIDE DEF m, D
        <5> QED BY <5>1, FS_Interval
      <4> HIDE DEF D
      <4>3. /\ c \in Nat /\ d \in Nat /\ c <= d
            /\ c = d <=> \A i, j \in D : fns[i] = fns[j] => i = j
        BY <4>2, Distinct
      <4> HIDE DEF c, d
      <4>4. ~(c < d) <=> c = d
        BY <4>3
      <4> QED BY <4>1, <4>3, <4>4
    <3> HIDE DEF c, d, D
    <3> QED BY <3>1, <3>2, <3>3, <3>4, <3>5 DEF GoodFns
  <2> QED BY <2>1, <2>2, <2>3 DEF NotLists
<1> HIDE DEF named, n
<1>5. checkAddressList(named, f, duplicate, self) = {} <=> GoodList(named)
  BY <1>1, checkAddressListIs
<1>6. (\A i \in DOMAIN ps : GoodFns(ps[i].fns)) <=>
        /\ \A r \in Range(ps) : r.fns # Junk /\ (isArray(r.fns) => Junk \notin Range(r.fns))
        /\ \A i \in DOMAIN ps : CodeFunctions(ps[i].fns) = {}
  BY <1>2, <1>4 DEF Range
<1>7. named = [i \in DOMAIN protocols |-> protocols[i].contract]
  BY <1>1 DEF named, Contracted
<1> HIDE DEF ps, protocols
<1> QED BY <1>1, <1>3, <1>5, <1>6, <1>7 DEF ps, protocols

LEMMA SchemaCross ==
  ASSUME NEW p, IsForm(p), GoodIntegers(p)
  PROVE  CodeCrossRules(p) = {} <=>
           /\ ~\E a \in Range(arrayAt(p, "blocked_recipients")) :
                 isValidStellarAddress(a) /\ a \in Range(arrayAt(p, "recipients"))
           /\ ActiveFine(p) /\ WellStocked(p)
<1> DEFINE C == \E a \in Range(arrayAt(p, "blocked_recipients")) :
                  isValidStellarAddress(a) /\ a \in Range(arrayAt(p, "recipients"))
           V == /\ isIntegerLike(p.active_from) /\ isIntegerLike(p.active_until)
                /\ toBigInt(p.active_until) # 0
                /\ toBigInt(p.active_until) <= toBigInt(p.active_from)
           A == p.assets = <<>>
           R == p.recipients = <<>> /\ p.allow_any_recipient = FALSE
<1>1. CodeCrossRules(p) = When(C, <<"blocked_recipients", "recipient_conflict">>)
                            \cup When(V, <<"active_until", "active_window_inverted">>)
                            \cup When(A, <<"assets", "empty_vector_noop">>)
                            \cup When(R, <<"recipients", "empty_vector_noop">>)
  BY DEF CodeCrossRules
<1>2. /\ isIntegerLike(p.active_from) /\ isIntegerLike(p.active_until)
      /\ toBigInt(p.active_from) \in Int /\ toBigInt(p.active_until) \in Int
  BY FormIntegers, IntegerLike DEF GoodIntegers, GoodInteger
<1>3. ~V <=> ActiveFine(p)
  BY <1>2 DEF ActiveFine
<1>4. WellStocked(p) <=> ~A /\ ~R
  BY DEF WellStocked
<1> HIDE DEF C, V, A, R
<1>5. CodeCrossRules(p) = {} <=> ~C /\ ~V /\ ~A /\ ~R
  BY <1>1 DEF When
<1> QED BY <1>3, <1>4, <1>5 DEF C

\* A form the schema's interpreter accepts has all its lists, and so has one that is sensible.
LEMMA SchemaShapes ==
  ASSUME NEW p, IsForm(p)
  PROVE  /\ ( /\ \A f \in Required : p[f] # Absent
              /\ \A f \in RequiredLists \cup OptionalLists : p[f] \notin {Null, Junk} )
              <=> /\ \A f \in Integers_ \cup Flags : p[f] # Absent
                  /\ Shaped(p)
         /\ Sensible(p) /\ SchemaNames(p) => Shaped(p)
         /\ Sensible(p) => \A f \in RequiredLists : isArray(p[f])
<1>0. Required = Integers_ \cup Flags \cup RequiredLists
  BY DEF Required
<1>1. ( /\ \A f \in RequiredLists : p[f] # Absent
        /\ \A f \in RequiredLists \cup OptionalLists : p[f] \notin {Null, Junk} )
      <=> Shaped(p)
  <2>1. Null # Absent /\ Junk # Absent
    BY PolicyFormsAssumption DEF PolicyFormsAssumption
  <2> QED BY <2>1 DEF Shaped, isArray
<1>2. Sensible(p) => \A f \in RequiredLists : isArray(p[f])
  BY DEF Sensible, GoodAssets, GoodProtocols, GoodRecipients, RequiredLists
<1>3. Sensible(p) /\ SchemaNames(p) => \A f \in OptionalLists : p[f] = Absent \/ isArray(p[f])
  BY DEF Sensible, SchemaNames, GoodBlocked, GoodCaps, OptionalLists
<1> QED BY <1>0, <1>1, <1>2, <1>3 DEF Shaped

LEMMA SchemaFlags ==
  ASSUME NEW p, IsForm(p)
  PROVE  (\A f \in Flags : p[f] # Absent /\ p[f] \notin {Null, Junk}) <=> GoodFlags(p)
<1>1. \A v \in NotLists : v \notin BOOLEAN
  BY PolicyFormsAssumption DEF PolicyFormsAssumption
<1>2. \A f \in Flags : p[f] \in BOOLEAN \cup NotLists
  BY FormIs
<1> QED BY <1>1, <1>2 DEF GoodFlags, NotLists

\* The schema and its code rules accept what validateGuardPolicy() accepts, of what the
\* schema has names for.
LEMMA SchemaIs ==
  ASSUME NEW p, IsForm(p)
  PROVE  validateGuardPolicyAgainstSchema(p) = {}
           <=> Sensible(p) /\ WellStocked(p) /\ SchemaNames(p)
<1> DEFINE caps == arrayAt(p, "recipient_window_caps")
           protocols == arrayAt(p, "protocols")
           named == [i \in DOMAIN protocols |-> protocols[i].contract]
           E1 == \A f \in Required : p[f] # Absent
           E2 == p.protocol_calls_per_window = Absent /\ p.asset_caps = Absent
           E3 == isArray(p.protocols) => \A r \in Range(p.protocols) : r.paused = Absent
           E4 == \A f \in Integers_ : SchemaInteger(p[f], f) = {}
           E5 == \A f \in Flags : p[f] \notin {Null, Junk}
           E6 == \A f \in RequiredLists \cup OptionalLists : p[f] \notin {Null, Junk}
           E7 == isArray(p.protocols) =>
                   \A r \in Range(p.protocols) :
                     r.fns # Junk /\ (isArray(r.fns) => Junk \notin Range(r.fns))
           E8 == \A c \in Items(p.recipient_window_caps) : ~(c.cap < 0)
           E9 == SchemaAllOf(p) = {}
           C1 == \A f \in Integers_ : ~(isIntegerLike(p[f]) /\ toBigInt(p[f]) > Maximum(f))
           C2 == \A i \in DOMAIN caps : ~(caps[i].cap > I128Max)
           C3 == \A f \in OptionalLists \cup {"recipients"} :
                   ~(Len(arrayAt(p, f)) > MaxEntries)
           C4 == checkAddressList(arrayAt(p, "assets"), "assets", "duplicate_asset",
                                  "self_as_asset") = {}
           C5 == checkAddressList(arrayAt(p, "recipients"), "recipients",
                                  "duplicate_recipient", "self_as_recipient") = {}
           C6 == checkAddressList(arrayAt(p, "blocked_recipients"), "blocked_recipients",
                                  "duplicate_blocked_recipient", "self_as_recipient") = {}
           C7 == checkAddressList(Capped(caps), "recipient_window_caps",
                                  "duplicate_recipient_window_cap",
                                  "self_as_recipient_cap") = {}
           C8 == checkAddressList(named, "protocols", "duplicate_protocol",
                                  "self_as_protocol") = {}
           C9 == \A i \in DOMAIN protocols : CodeFunctions(protocols[i].fns) = {}
           Conflict == \E a \in Range(arrayAt(p, "blocked_recipients")) :
                         isValidStellarAddress(a) /\ a \in Range(arrayAt(p, "recipients"))
           Unwindowed == \A c \in Items(p.recipient_window_caps) :
                           ~(c.cap >= 1 /\ NoWindow(p))
           Present == \A f \in Integers_ \cup Flags : p[f] # Absent
           L1 == ~(Len(arrayAt(p, "recipients")) > MaxEntries)
           L2 == ~(Len(arrayAt(p, "blocked_recipients")) > MaxEntries)
           L3 == ~(Len(caps) > MaxEntries)
<1>1. evaluateSchema(p) = {} <=>
        E1 /\ E2 /\ E3 /\ E4 /\ E5 /\ E6 /\ E7 /\ E8 /\ E9
  BY SchemaParts
<1>2. enforceCodeRules(p) = {} <=>
        /\ C1 /\ C2 /\ C3 /\ C4 /\ C5 /\ C6 /\ C7 /\ C8 /\ C9 /\ CodeCrossRules(p) = {}
  BY CodeParts
<1>3. E1 /\ E6 <=> Present /\ Shaped(p)
  BY SchemaShapes
<1>4. /\ Sensible(p) /\ SchemaNames(p) => Shaped(p)
      /\ Shaped(p) => isArray(p.protocols)
  BY SchemaShapes DEF Shaped, RequiredLists
<1>5. Present /\ E4 /\ E5 /\ C1 <=> GoodIntegers(p) /\ GoodFlags(p)
  BY SchemaIntegersAre, SchemaFlags
<1>6. C3 <=> L1 /\ L2 /\ L3
  BY DEF OptionalLists
<1>7. ASSUME GoodIntegers(p)
      PROVE  /\ CodeCrossRules(p) = {} <=> ~Conflict /\ ActiveFine(p) /\ WellStocked(p)
             /\ E9 <=> WindowFine(p) /\ Unwindowed
  BY <1>7, SchemaCross, SchemaWindows
<1>8. ASSUME Shaped(p)
      PROVE  /\ C4 <=> GoodAssets(p)
             /\ C5 /\ L1 <=> GoodRecipients(p)
             /\ C6 /\ L2 /\ ~Conflict <=> GoodBlocked(p)
  BY <1>8, SchemaAddresses
<1>9. ASSUME Shaped(p) PROVE E8 /\ C2 /\ L3 /\ C7 /\ Unwindowed <=> GoodCaps(p)
  BY <1>9, SchemaCaps
<1>10. ASSUME Shaped(p) PROVE E7 /\ C8 /\ C9 <=> GoodProtocols(p)
  BY <1>4, <1>10, SchemaProtocols
<1>11. ASSUME Shaped(p) PROVE E2 /\ E3 <=> SchemaNames(p)
  <2>1. \A f \in OptionalLists : p[f] # Null
    BY <1>11, PolicyFormsAssumption DEF PolicyFormsAssumption, Shaped, isArray
  <2>2. E3 <=> \A r \in Items(p.protocols) : r.paused = Absent
    BY <1>4, <1>11 DEF Items
  <2> QED BY <2>1, <2>2 DEF SchemaNames
<1>12. Sensible(p) <=>
         /\ GoodIntegers(p) /\ WindowFine(p) /\ ActiveFine(p) /\ GoodFlags(p) /\ GoodAssets(p)
         /\ GoodProtocols(p) /\ GoodRecipients(p) /\ GoodBlocked(p) /\ GoodCaps(p)
  BY DEF Sensible
<1>13. validateGuardPolicyAgainstSchema(p) = {}
         <=> evaluateSchema(p) = {} /\ enforceCodeRules(p) = {}
  BY DEF validateGuardPolicyAgainstSchema
<1> HIDE DEF E1, E2, E3, E4, E5, E6, E7, E8, E9, C1, C2, C3, C4, C5, C6, C7, C8, C9,
             Conflict, Unwindowed, Present, L1, L2, L3, caps, protocols, named
<1>14. CASE Shaped(p) /\ GoodIntegers(p)
  BY <1>1, <1>2, <1>3, <1>5, <1>6, <1>7, <1>8, <1>9, <1>10, <1>11, <1>12, <1>13, <1>14
<1>15. CASE ~(Shaped(p) /\ GoodIntegers(p))
  BY <1>1, <1>2, <1>3, <1>4, <1>5, <1>12, <1>13, <1>15
<1> QED BY <1>14, <1>15

-----------------------------------------------------------------------------
(* The contract's rules, of what an object that encodes is written as.        *)

\* What validatePolicyForEncoding() has checked.
Valid(list) == \A i \in DOMAIN list : isValidStellarAddress(list[i])
EncodedIntegers(p) ==
  \A f \in Integers_ : p[f] \in Int /\ Minimum(f) <= p[f] /\ p[f] <= Maximum(f)
EncodedLists(p) ==
  /\ p.assets \in Seq(Addresses) /\ Valid(p.assets)
  /\ p.recipients \in Seq(Addresses) /\ Valid(p.recipients)
  /\ \/ p.blocked_recipients \in {Absent, Null}
     \/ p.blocked_recipients \in Seq(Addresses) /\ Valid(p.blocked_recipients)
EncodedProtocols(p) ==
  /\ p.protocols \in Seq(ProtocolRule) /\ Valid(Contracted(p))
  /\ \A i \in DOMAIN p.protocols :
        LET fns == p.protocols[i].fns
        IN fns = Null \/ (fns \in Seq(Names) /\ \A j \in DOMAIN fns : isName(fns[j]))
EncodedCaps(p) ==
  LET caps == p.recipient_window_caps IN
  \/ caps \in {Absent, Null}
  \/ /\ caps \in Seq(WindowCap) /\ Valid(Capped(caps))
     /\ \A i \in DOMAIN caps : caps[i].cap <= I128Max

LEMMA EncodedScalars ==
  ASSUME NEW p, IsForm(p), Encodes(p)
  PROVE  EncodedIntegers(p) /\ GoodFlags(p)
<1>0. /\ Absent # Null /\ Absent # Junk /\ Null # Junk
      /\ \A v \in NotLists \cup {Numeral} : v \notin Int /\ v \notin BOOLEAN
  BY PolicyFormsAssumption DEF PolicyFormsAssumption
<1>1. ASSUME NEW f \in Integers_
      PROVE  p[f] \in Int /\ Minimum(f) <= p[f] /\ p[f] <= Maximum(f)
  <2> DEFINE v == p[f]
  <2>1. v \in Int \cup NotLists \cup {Numeral}
    BY FormIs
  <2>2. EncodingInteger(v, f) = {}
    BY EncodingRules
  <2>3. Minimum(f) \in Int /\ Maximum(f) \in Int
    <3>1. Minimum(f) = 0 \/ Minimum(f) = -I128Max - 1
      BY DEF Minimum
    <3> QED BY <3>1, Bounds
  <2> HIDE DEF v
  <2>4. v \notin {Absent, Null, Junk, Numeral}
    BY <2>2 DEF EncodingInteger
  <2>5. InWidth(v, f)
    BY <2>2, <2>4 DEF EncodingInteger, When
  <2>6. v \in Int /\ v >= Minimum(f) /\ v <= Maximum(f)
    BY <2>5 DEF InWidth
  <2>7. Minimum(f) <= v
    BY <2>3, <2>6
  <2> QED BY <2>6, <2>7 DEF v
<1>2. ASSUME NEW f \in Flags PROVE p[f] \in BOOLEAN
  <2> DEFINE v == p[f]
  <2>1. v \in BOOLEAN \cup NotLists
    BY FormIs
  <2>2. EncodingBoolean(v, f) = {}
    BY EncodingRules
  <2> HIDE DEF v
  <2>3. v \notin NotLists
    BY <2>2, Zenon DEF EncodingBoolean, NotLists
  <2> QED BY <2>1, <2>3 DEF v
<1> QED BY <1>1, <1>2 DEF EncodedIntegers, GoodFlags

LEMMA EncodedForm ==
  ASSUME NEW p, IsForm(p), Encodes(p)
  PROVE  EncodedLists(p) /\ EncodedProtocols(p) /\ EncodedCaps(p)
<1>0. Absent # Null /\ Absent # Junk /\ Null # Junk /\ Junk \notin Symbols
  BY PolicyFormsAssumption DEF PolicyFormsAssumption
<1>1. Readable(p)
  BY EncodesIsReadable
<1>2. isArray(p.protocols) /\ isArray(p.assets) /\ isArray(p.recipients)
  BY <1>1, ReadableLists
<1>3. \A f \in AddressLists : isArray(p[f]) => p[f] \in Seq(Addresses) /\ Valid(p[f])
  <2> SUFFICES ASSUME NEW f \in AddressLists, isArray(p[f])
               PROVE  p[f] \in Seq(Addresses) /\ Valid(p[f])
    OBVIOUS
  <2>1. EncodingAddresses(p[f], f) = {} /\ p[f] \notin {Absent, Null, Junk}
    BY EncodingRules DEF isArray
  <2>2. When(\E a \in Range(p[f]) : ~isValidStellarAddress(a), <<f, "invalid_address">>) = {}
    BY <2>1 DEF EncodingAddresses
  <2>3. \A a \in Range(p[f]) : isValidStellarAddress(a)
    BY <2>2 DEF When
  <2>4. p[f] \in Seq(Addresses)
    BY FormLists
  <2> QED BY <2>3, <2>4 DEF Valid, Range
<1>4. p.blocked_recipients \in {Absent, Null} \/ isArray(p.blocked_recipients)
  BY <1>1 DEF Readable, OptionalLists, isArray
<1>5. EncodedLists(p)
  BY <1>2, <1>3, <1>4 DEF EncodedLists, AddressLists
<1>6. EncodedProtocols(p)
  <2> DEFINE ps == p.protocols
  <2>1. ps \in Seq(ProtocolRule)
    BY <1>2, FormLists
  <2>2. ASSUME NEW r \in Range(ps)
        PROVE  /\ isValidStellarAddress(r.contract) /\ r.fns # Absent /\ r.fns # Junk
               /\ isArray(r.fns) => Range(r.fns) \subseteq Symbols
    <3>1. /\ When(~isValidStellarAddress(r.contract), <<"protocols", "invalid_address">>) = {}
          /\ When(r.fns = Absent, <<"protocols", "missing_field">>) = {}
          /\ When(r.fns = Junk, <<"protocols", "invalid_type">>) = {}
          /\ When(isArray(r.fns) /\ ~(Range(r.fns) \subseteq Symbols),
                  <<"protocols", "invalid_symbol">>) = {}
      BY <1>2, <2>2, EncodingRules DEF EncodingProtocols
    <3> QED BY <3>1 DEF When
  <2>3. \A i \in DOMAIN ps : ps[i] \in Range(ps)
    BY DEF Range
  <2>4. \A i \in DOMAIN ps : ps[i].fns \in Seq(Names) \cup NotLists
    BY <1>2, RuleFns
  <2>5. ASSUME NEW i \in DOMAIN ps
        PROVE  LET fns == ps[i].fns
               IN fns = Null \/ (fns \in Seq(Names) /\ \A j \in DOMAIN fns : isName(fns[j]))
    <3> DEFINE fns == ps[i].fns
    <3>1. /\ fns \in Seq(Names) \cup NotLists /\ fns # Absent /\ fns # Junk
          /\ isArray(fns) => Range(fns) \subseteq Symbols
      BY <2>2, <2>3, <2>4
    <3> HIDE DEF fns
    <3>2. CASE fns = Null
      BY <3>2 DEF fns
    <3>3. CASE fns \in Seq(Names)
      <4>1. Range(fns) \subseteq Symbols
        BY <3>1, <3>3, ListsAreArrays
      <4>2. \A j \in DOMAIN fns : isName(fns[j])
        BY <1>0, <4>1 DEF Range, isName
      <4> QED BY <3>3, <4>2 DEF fns
    <3> QED BY <3>1, <3>2, <3>3 DEF NotLists
  <2>6. Valid(Contracted(p))
    BY <2>2, <2>3 DEF Valid, Contracted
  <2> QED BY <2>1, <2>5, <2>6 DEF EncodedProtocols
<1>7. EncodedCaps(p)
  <2> DEFINE caps == p.recipient_window_caps
  <2>1. caps \in {Absent, Null} \/ isArray(caps)
    BY <1>1 DEF Readable, OptionalLists, isArray
  <2>2. CASE isArray(caps)
    <3>1. caps \in Seq(WindowCap) /\ caps \notin {Absent, Null} /\ caps # Junk
      BY <2>2, FormLists DEF isArray
    <3>2. ASSUME NEW c \in Range(caps)
          PROVE  isValidStellarAddress(c.recipient) /\ InWidth(c.cap, "window_cap")
      <4>1. /\ When(~isValidStellarAddress(c.recipient),
                    <<"recipient_window_caps", "invalid_address">>) = {}
            /\ When(~InWidth(c.cap, "window_cap"),
                    <<"recipient_window_caps", "integer_out_of_range">>) = {}
        BY <3>1, <3>2, EncodingRules DEF EncodingCaps
      <4> QED BY <4>1 DEF When
    <3>3. \A i \in DOMAIN caps : caps[i] \in Range(caps)
      BY DEF Range
    <3>4. Maximum("window_cap") = I128Max
      BY DEF Maximum, Unsigned64
    <3>5. Valid(Capped(caps)) /\ \A i \in DOMAIN caps : caps[i].cap <= I128Max
      BY <3>2, <3>3, <3>4 DEF Valid, Capped, InWidth
    <3> QED BY <3>1, <3>5 DEF EncodedCaps
  <2> QED BY <2>1, <2>2 DEF EncodedCaps
<1> QED BY <1>5, <1>6, <1>7

\* A list has as many keys as members when no two members share one.
LEMMA DistinctKeys ==
  ASSUME NEW S, NEW list \in Seq(S), NEW field
  PROVE  Cardinality({list[i][field] : i \in DOMAIN list}) = Len(list) <=> Keyed(list, field)
<1> DEFINE n == Len(list)
           named == [i \in DOMAIN list |-> list[i][field]]
           D == DOMAIN list
<1>1. n \in Nat /\ 1 \in Int /\ n \in Int /\ D = 1..n
  OBVIOUS
<1>2. /\ {list[i][field] : i \in D} = {named[i] : i \in D}
      /\ \A i \in D : named[i] = list[i][field]
  OBVIOUS
<1> HIDE DEF n, named
<1>3. IsFiniteSet(D) /\ Cardinality(D) = n
  <2> HIDE DEF D
  <2>1. IsFiniteSet(1..n) /\ Cardinality(1..n) = IF 1 > n THEN 0 ELSE n - 1 + 1
    BY <1>1, FS_Interval
  <2>2. (IF 1 > n THEN 0 ELSE n - 1 + 1) = n
    BY <1>1
  <2> QED BY <1>1, <2>1, <2>2
<1>4. Cardinality({named[i] : i \in D}) = Cardinality(D)
        <=> \A i, j \in D : named[i] = named[j] => i = j
  <2> HIDE DEF D
  <2> QED BY <1>3, Distinct
<1> QED BY <1>2, <1>3, <1>4 DEF Keyed, n

LEMMA ContractParts ==
  ASSUME NEW s
  PROVE  LET caps == s.recipient_window_caps
             distinct(list, field) ==
               Cardinality({list[i][field] : i \in DOMAIN list}) = Len(list)
         IN ContractRules(s) = {} <=>
           /\ ~(s.per_tx_cap < 0 \/ s.window_cap < 0)
           /\ ~(/\ s.window_secs = 0
                /\ s.window_cap # 0 \/ \E c \in Range(caps) : c.cap > 0)
           /\ ~(s.active_until # 0 /\ s.active_until <= s.active_from)
           /\ ~SelfListed(s)
           /\ IsInjective(s.assets) /\ IsInjective(s.recipients)
           /\ IsInjective(s.blocked_recipients)
           /\ distinct(caps, "recipient")
           /\ ~(Len(s.recipients) > MaxEntries) /\ ~(Len(s.blocked_recipients) > MaxEntries)
           /\ ~(Len(caps) > MaxEntries)
           /\ \A c \in Range(caps) : ~(c.cap < 0)
           /\ Range(s.recipients) \cap Range(s.blocked_recipients) = {}
           /\ distinct(s.protocols, "contract")
           /\ \A r \in Range(s.protocols) :
                 ~(r.fns # Null /\ (r.fns = <<>> \/ ~IsInjective(r.fns)))
<1> DEFINE caps == s.recipient_window_caps
           distinct(list, field) ==
             Cardinality({list[i][field] : i \in DOMAIN list}) = Len(list)
           K1 == s.per_tx_cap < 0 \/ s.window_cap < 0
           K2 == /\ s.window_secs = 0
                 /\ s.window_cap # 0 \/ \E c \in Range(caps) : c.cap > 0
           K3 == s.active_until # 0 /\ s.active_until <= s.active_from
           K4 == SelfListed(s)
           K5 == \E list \in {s.assets, s.recipients, s.blocked_recipients} : ~IsInjective(list)
           K6 == ~distinct(caps, "recipient")
           K7 == \E list \in {s.recipients, s.blocked_recipients, caps} : Len(list) > MaxEntries
           K8 == \E c \in Range(caps) : c.cap < 0
           K9 == Range(s.recipients) \cap Range(s.blocked_recipients) # {}
           K10 == ~distinct(s.protocols, "contract")
           K11 == \E r \in Range(s.protocols) :
                    r.fns # Null /\ (r.fns = <<>> \/ ~IsInjective(r.fns))
<1>1. ContractRules(s) =
             When(K1, "AmountSign") \cup When(K2, "WindowRequiresWidth")
        \cup When(K3, "ActiveWindowOrder") \cup When(K4, "SelfAddressInList")
        \cup When(K5, "DuplicateAddressInList") \cup When(K6, "DuplicateRecipientCap")
        \cup When(K7, "RecipientListTooLong") \cup When(K8, "RecipientCapSign")
        \cup When(K9, "RecipientAllowAndBlocked") \cup When(K10, "ProtocolContractDuplicate")
        \cup When(K11, "ProtocolFnListInvalid")
  BY DEF ContractRules
<1>2. ~K5 <=> /\ IsInjective(s.assets) /\ IsInjective(s.recipients)
              /\ IsInjective(s.blocked_recipients)
  OBVIOUS
<1>3. ~K7 <=> /\ ~(Len(s.recipients) > MaxEntries) /\ ~(Len(s.blocked_recipients) > MaxEntries)
              /\ ~(Len(caps) > MaxEntries)
  OBVIOUS
<1>4. ~K8 <=> \A c \in Range(caps) : ~(c.cap < 0)
  OBVIOUS
<1>5. ~K11 <=> \A r \in Range(s.protocols) :
                 ~(r.fns # Null /\ (r.fns = <<>> \/ ~IsInjective(r.fns)))
  OBVIOUS
<1>6. ~K6 <=> distinct(caps, "recipient")
  OBVIOUS
<1>7. ~K10 <=> distinct(s.protocols, "contract")
  OBVIOUS
<1>8. ~K9 <=> Range(s.recipients) \cap Range(s.blocked_recipients) = {}
  OBVIOUS
<1>9. (K1 <=> s.per_tx_cap < 0 \/ s.window_cap < 0)
      /\ (K2 <=> /\ s.window_secs = 0
                 /\ s.window_cap # 0 \/ \E c \in Range(caps) : c.cap > 0)
      /\ (K3 <=> s.active_until # 0 /\ s.active_until <= s.active_from)
      /\ (K4 <=> SelfListed(s))
  OBVIOUS
<1> HIDE DEF K1, K2, K3, K4, K5, K6, K7, K8, K9, K10, K11
<1>10. ContractRules(s) = {} <=>
         ~K1 /\ ~K2 /\ ~K3 /\ ~K4 /\ ~K5 /\ ~K6 /\ ~K7 /\ ~K8 /\ ~K9 /\ ~K10 /\ ~K11
  BY <1>1 DEF When
<1> HIDE DEF caps, distinct
<1>11. ContractRules(s) = {} <=>
           /\ ~(s.per_tx_cap < 0 \/ s.window_cap < 0)
           /\ ~(/\ s.window_secs = 0
                /\ s.window_cap # 0 \/ \E c \in Range(caps) : c.cap > 0)
           /\ ~(s.active_until # 0 /\ s.active_until <= s.active_from)
           /\ ~SelfListed(s)
           /\ IsInjective(s.assets) /\ IsInjective(s.recipients)
           /\ IsInjective(s.blocked_recipients)
           /\ distinct(caps, "recipient")
           /\ ~(Len(s.recipients) > MaxEntries) /\ ~(Len(s.blocked_recipients) > MaxEntries)
           /\ ~(Len(caps) > MaxEntries)
           /\ \A c \in Range(caps) : ~(c.cap < 0)
           /\ Range(s.recipients) \cap Range(s.blocked_recipients) = {}
           /\ distinct(s.protocols, "contract")
           /\ \A r \in Range(s.protocols) :
                 ~(r.fns # Null /\ (r.fns = <<>> \/ ~IsInjective(r.fns)))
  BY <1>2, <1>3, <1>4, <1>5, <1>6, <1>7, <1>8, <1>9, <1>10, Zenon
<1> QED BY <1>11, Zenon DEF caps, distinct

LEMMA ContractIntegers ==
  ASSUME NEW p, EncodedIntegers(p)
  PROVE  /\ GoodIntegers(p) <=> ~(p.per_tx_cap < 0 \/ p.window_cap < 0)
         /\ NoWindow(p) <=> p.window_secs = 0
         /\ GoodIntegers(p) =>
              (WindowFine(p) <=> ~(p.window_secs = 0 /\ p.window_cap # 0))
         /\ ActiveFine(p) <=> ~(p.active_until # 0 /\ p.active_until <= p.active_from)
<1>0. Integers_ = {"per_tx_cap", "window_cap"} \cup Unsigned64
  BY DEF Integers_, Integer128
<1>1. \A f \in Integers_ : /\ p[f] \in Int /\ isIntegerLike(p[f]) /\ toBigInt(p[f]) = p[f]
                           /\ Minimum(f) <= p[f] /\ p[f] <= Maximum(f)
  BY IntegerLike DEF EncodedIntegers
<1>2. \A f \in Unsigned64 : Minimum(f) = 0
  BY DEF Minimum
<1>3. \A f \in Integers_ : GoodInteger(p[f], f) <=> 0 <= p[f]
  BY <1>1 DEF GoodInteger
<1>4. \A f \in Unsigned64 : GoodInteger(p[f], f)
  <2>1. \A f \in Unsigned64 : f \in Integers_
    BY <1>0
  <2> QED BY <1>1, <1>2, <1>3, <2>1
<1>5. GoodIntegers(p) <=> 0 <= p.per_tx_cap /\ 0 <= p.window_cap
  BY <1>0, <1>3, <1>4 DEF GoodIntegers
<1> DEFINE t == p.per_tx_cap
           c == p.window_cap
           w == p.window_secs
           a == p.active_from
           u == p.active_until
<1>6. t \in Int /\ c \in Int /\ w \in Int /\ a \in Int /\ u \in Int
  BY <1>0, <1>1 DEF Unsigned64
<1>7. /\ isIntegerLike(w) /\ toBigInt(w) = w /\ toBigInt(c) = c
      /\ toBigInt(a) = a /\ toBigInt(u) = u
  BY <1>0, <1>1 DEF Unsigned64
<1>8. NoWindow(p) <=> w = 0
  BY <1>7 DEF NoWindow
<1>9. (WindowFine(p) <=> ~(c > 0 /\ w = 0)) /\ (ActiveFine(p) <=> u = 0 \/ u > a)
  BY <1>7, <1>8 DEF WindowFine, ActiveFine
<1>10. GoodIntegers(p) <=> 0 <= t /\ 0 <= c
  BY <1>5
<1> HIDE DEF t, c, w, a, u
<1>11. GoodIntegers(p) <=> ~(t < 0 \/ c < 0)
  BY <1>6, <1>10
<1>12. GoodIntegers(p) => (WindowFine(p) <=> ~(w = 0 /\ c # 0))
  BY <1>6, <1>9, <1>10
<1>13. ActiveFine(p) <=> ~(u # 0 /\ u <= a)
  BY <1>6, <1>9
<1> QED BY <1>8, <1>11, <1>12, <1>13 DEF t, c, w, a, u

LEMMA ValidIsGood ==
  ASSUME NEW list, Valid(list)
  PROVE  GoodList(list) <=> Guard \notin Range(list) /\ IsInjective(list)
BY DEF GoodList, Valid, Range, IsInjective

LEMMA ContractFunctions ==
  ASSUME NEW p, EncodedProtocols(p)
  PROVE  (\A i \in DOMAIN p.protocols : GoodFns(p.protocols[i].fns))
           <=> \A i \in DOMAIN p.protocols :
                 LET fns == p.protocols[i].fns
                 IN ~(fns # Null /\ (fns = <<>> \/ ~IsInjective(fns)))
<1> DEFINE ps == p.protocols
<1>1. ASSUME NEW fns, fns = Null \/ (fns \in Seq(Names) /\ \A j \in DOMAIN fns : isName(fns[j]))
      PROVE  GoodFns(fns) <=> ~(fns # Null /\ (fns = <<>> \/ ~IsInjective(fns)))
  <2>1. CASE fns = Null
    BY <2>1 DEF GoodFns
  <2>2. CASE fns \in Seq(Names) /\ \A j \in DOMAIN fns : isName(fns[j])
    <3>1. isArray(fns) /\ fns # Absent /\ fns # Null
      BY <2>2, ListsAreArrays DEF isArray
    <3> QED BY <2>2, <3>1 DEF GoodFns, IsInjective
  <2> QED BY <1>1, <2>1, <2>2
<1>2. \A i \in DOMAIN ps :
        \/ ps[i].fns = Null
        \/ ps[i].fns \in Seq(Names) /\ \A j \in DOMAIN ps[i].fns : isName(ps[i].fns[j])
  BY DEF EncodedProtocols
<1> HIDE DEF ps
<1>3. \A i \in DOMAIN ps : GoodFns(ps[i].fns)
        <=> ~(ps[i].fns # Null /\ (ps[i].fns = <<>> \/ ~IsInjective(ps[i].fns)))
  BY <1>1, <1>2
<1> QED BY <1>3 DEF ps

LEMMA ContractBlocked ==
  ASSUME NEW p, EncodedLists(p)
  PROVE  LET B == Or(p.blocked_recipients, <<>>) IN
         /\ B \in Seq(Addresses) /\ Valid(B)
         /\ GoodBlocked(p) <=> /\ Short(B) /\ GoodList(B)
                               /\ Range(p.recipients) \cap Range(B) = {}
<1> DEFINE b == p.blocked_recipients
           B == Or(b, <<>>)
<1>1. Items(p.recipients) = Range(p.recipients)
  BY ListsAreArrays DEF EncodedLists, Items
<1>2. CASE b \in {Absent, Null}
  <2>1. B = <<>>
    BY <1>2 DEF Or
  <2> QED BY <1>2, <2>1, EmptyIsGood DEF Valid, GoodBlocked
<1>3. CASE b \in Seq(Addresses) /\ Valid(b)
  <2>1. isArray(b) /\ b \notin {Absent, Null}
    BY <1>3, ListsAreArrays DEF isArray
  <2>2. B = b
    BY <2>1 DEF Or
  <2> QED BY <1>1, <1>3, <2>1, <2>2 DEF GoodBlocked
<1> QED BY <1>2, <1>3 DEF EncodedLists

LEMMA ContractCaps ==
  ASSUME NEW p, EncodedIntegers(p), EncodedCaps(p)
  PROVE  LET K == Or(p.recipient_window_caps, <<>>) IN
         /\ K \in Seq(WindowCap) /\ Valid(Capped(K))
         /\ GoodCaps(p) <=> /\ Short(K) /\ GoodList(Capped(K))
                            /\ \A c \in Range(K) : ~(c.cap < 0)
                            /\ ~(p.window_secs = 0 /\ \E c \in Range(K) : c.cap > 0)
<1> DEFINE b == p.recipient_window_caps
           K == Or(b, <<>>)
<1>1. K \in Seq(WindowCap) /\ Valid(Capped(K)) /\ \A i \in DOMAIN K : K[i].cap <= I128Max
  <2>1. CASE b \in {Absent, Null}
    <3>1. K = <<>>
      BY <2>1 DEF Or
    <3> QED BY <3>1, EmptyIsGood DEF Valid
  <2>2. CASE /\ b \in Seq(WindowCap) /\ Valid(Capped(b))
             /\ \A i \in DOMAIN b : b[i].cap <= I128Max
    <3>1. K = b
      BY <2>2, ListsAreArrays DEF isArray, Or
    <3> QED BY <2>2, <3>1
  <2> QED BY <2>1, <2>2 DEF EncodedCaps
<1>2. GoodCaps(p) <=> /\ Short(K) /\ GoodList(Capped(K))
                      /\ \A i \in DOMAIN K : GoodCap(p, K[i])
  <2>1. CASE b \in {Absent, Null}
    <3>1. K = <<>>
      BY <2>1 DEF Or
    <3> QED BY <2>1, <3>1, EmptyIsGood DEF GoodCaps
  <2>2. CASE b \in Seq(WindowCap)
    <3>1. isArray(b) /\ b \notin {Absent, Null}
      BY <2>2, ListsAreArrays DEF isArray
    <3>2. K = b
      BY <3>1 DEF Or
    <3> QED BY <3>1, <3>2 DEF GoodCaps
  <2> QED BY <2>1, <2>2 DEF EncodedCaps
<1> HIDE DEF K, b
<1>3. \A i \in DOMAIN K : K[i].cap \in Int
  <2>1. \A c \in WindowCap : c.cap \in Int
    BY DEF WindowCap
  <2> QED BY <1>1, <2>1
<1>4. NoWindow(p) <=> p.window_secs = 0
  BY ContractIntegers
<1>5. \A i \in DOMAIN K : GoodCap(p, K[i]) <=>
         ~(K[i].cap < 0) /\ ~(K[i].cap > 0 /\ p.window_secs = 0)
  BY <1>1, <1>3, <1>4, Bounds DEF GoodCap
<1>6. (\A i \in DOMAIN K : GoodCap(p, K[i])) <=>
         /\ \A c \in Range(K) : ~(c.cap < 0)
         /\ ~(p.window_secs = 0 /\ \E c \in Range(K) : c.cap > 0)
  BY <1>5 DEF Range
<1> QED BY <1>1, <1>2, <1>6 DEF K, b

\* The struct, as the contract's rules read it.
LEMMA StructLists ==
  ASSUME NEW p, IsForm(p), EncodedLists(p), EncodedProtocols(p)
  PROVE  LET s == policyToScVal(p) IN
         /\ \A f \in Integers_ : s[f] = p[f]
         /\ s.assets = p.assets /\ s.recipients = p.recipients
         /\ s.blocked_recipients = Or(p.blocked_recipients, <<>>)
         /\ s.recipient_window_caps = Or(p.recipient_window_caps, <<>>)
         /\ s.protocols \in Seq(ProtocolRule) /\ DOMAIN s.protocols = DOMAIN p.protocols
         /\ \A i \in DOMAIN p.protocols : /\ s.protocols[i].contract = p.protocols[i].contract
                                          /\ s.protocols[i].fns = p.protocols[i].fns
<1> DEFINE s == policyToScVal(p)
           ps == p.protocols
           qs == s.protocols
<1>1. /\ qs = [i \in DOMAIN ps |-> [ps[i] EXCEPT !.paused = Or(ps[i].paused, FALSE)]]
      /\ \A f \in OptionalLists : s[f] = Or(p[f], <<>>)
      /\ \A f \in Integral \cup {"assets", "recipients"} : s[f] = p[f]
  BY ScValFields
<1>2. ps \in Seq(ProtocolRule) /\ isArray(ps)
  BY ListsAreArrays DEF EncodedProtocols
<1>3. \A i \in DOMAIN ps : ps[i] \in ProtocolRule /\ Or(ps[i].paused, FALSE) \in BOOLEAN
  BY <1>2, RulePauses, PauseValues
<1> HIDE DEF s, ps, qs
<1>4. \A r \in ProtocolRule, x \in BOOLEAN :
        LET q == [r EXCEPT !.paused = x]
        IN q \in ProtocolRule /\ q.contract = r.contract /\ q.fns = r.fns
  BY DEF ProtocolRule
<1>5. \A i \in DOMAIN ps : /\ qs[i] \in ProtocolRule /\ qs[i].contract = ps[i].contract
                           /\ qs[i].fns = ps[i].fns
  BY <1>1, <1>3, <1>4
<1>6. DOMAIN qs = DOMAIN ps
  BY <1>1
<1>7. qs \in Seq(ProtocolRule)
  <2>1. DOMAIN qs = 1..Len(ps) /\ Len(ps) \in Nat
    BY <1>2, <1>6
  <2>2. qs = [i \in 1..Len(ps) |-> qs[i]] /\ \A i \in 1..Len(ps) : qs[i] \in ProtocolRule
    BY <1>1, <1>5, <1>6, <2>1
  <2> QED BY <2>1, <2>2
<1> QED BY <1>1, <1>5, <1>6, <1>7 DEF Integral, OptionalLists, s, ps, qs

\* Of an object that encodes, the contract refuses what validateGuardPolicy() objects to.
LEMMA ContractIs ==
  ASSUME NEW p, IsForm(p), Encodes(p)
  PROVE  ContractRules(policyToScVal(p)) = {} <=> Sensible(p)
<1> DEFINE s == policyToScVal(p)
           A == p.assets
           R == p.recipients
           B == Or(p.blocked_recipients, <<>>)
           K == Or(p.recipient_window_caps, <<>>)
           P == p.protocols
           Q == s.protocols
           named == Contracted(p)
           capped == Capped(K)
<1>1. /\ EncodedIntegers(p) /\ GoodFlags(p)
      /\ EncodedLists(p) /\ EncodedProtocols(p) /\ EncodedCaps(p)
  BY EncodedScalars, EncodedForm
<1>2. /\ \A f \in Integers_ : s[f] = p[f]
      /\ s.assets = A /\ s.recipients = R /\ s.blocked_recipients = B
      /\ s.recipient_window_caps = K
      /\ Q \in Seq(ProtocolRule) /\ DOMAIN Q = DOMAIN P
      /\ \A i \in DOMAIN P : Q[i].contract = P[i].contract /\ Q[i].fns = P[i].fns
  BY <1>1, StructLists
<1>3. /\ A \in Seq(Addresses) /\ Valid(A) /\ isArray(A)
      /\ R \in Seq(Addresses) /\ Valid(R) /\ isArray(R)
      /\ Valid(named) /\ isArray(P)
  BY <1>1, ListsAreArrays DEF EncodedLists, EncodedProtocols
<1>4. /\ Valid(B)
      /\ GoodBlocked(p) <=> Short(B) /\ GoodList(B) /\ Range(R) \cap Range(B) = {}
  BY <1>1, ContractBlocked
<1>5. /\ K \in Seq(WindowCap) /\ Valid(capped)
      /\ GoodCaps(p) <=> /\ Short(K) /\ GoodList(capped)
                         /\ \A c \in Range(K) : ~(c.cap < 0)
                         /\ ~(p.window_secs = 0 /\ \E c \in Range(K) : c.cap > 0)
  BY <1>1, ContractCaps
<1>6. /\ s.per_tx_cap = p.per_tx_cap /\ s.window_cap = p.window_cap
      /\ s.window_secs = p.window_secs /\ s.active_from = p.active_from
      /\ s.active_until = p.active_until
  BY <1>2 DEF Integers_, Integer128, Unsigned64
<1> DEFINE once(list, field) ==
             Cardinality({list[i][field] : i \in DOMAIN list}) = Len(list)
           Fns == \A r \in Range(Q) :
                    ~(r.fns # Null /\ (r.fns = <<>> \/ ~IsInjective(r.fns)))
           Positive == \A c \in Range(K) : ~(c.cap < 0)
           Windowed == ~(p.window_secs = 0 /\ \E c \in Range(K) : c.cap > 0)
           Disjoint == Range(R) \cap Range(B) = {}
           T1 == ~(p.per_tx_cap < 0 \/ p.window_cap < 0)
           T2 == ~(p.window_secs = 0 /\ p.window_cap # 0)
           T3 == ~(p.active_until # 0 /\ p.active_until <= p.active_from)
           T12 == ~(/\ p.window_secs = 0
                    /\ p.window_cap # 0 \/ \E c \in Range(K) : c.cap > 0)
           S1 == ~(Len(R) > MaxEntries)
           S2 == ~(Len(B) > MaxEntries)
           S3 == ~(Len(K) > MaxEntries)
<1>7. ContractRules(s) = {} <=>
        /\ T1 /\ T12 /\ T3 /\ ~SelfListed(s)
        /\ IsInjective(A) /\ IsInjective(R) /\ IsInjective(B)
        /\ once(K, "recipient") /\ S1 /\ S2 /\ S3
        /\ Positive /\ Disjoint /\ once(Q, "contract") /\ Fns
  <2>1. ContractRules(s) = {} <=>
           /\ ~(s.per_tx_cap < 0 \/ s.window_cap < 0)
           /\ ~(/\ s.window_secs = 0
                /\ s.window_cap # 0 \/ \E c \in Range(s.recipient_window_caps) : c.cap > 0)
           /\ ~(s.active_until # 0 /\ s.active_until <= s.active_from)
           /\ ~SelfListed(s)
           /\ IsInjective(s.assets) /\ IsInjective(s.recipients)
           /\ IsInjective(s.blocked_recipients)
           /\ once(s.recipient_window_caps, "recipient")
           /\ ~(Len(s.recipients) > MaxEntries) /\ ~(Len(s.blocked_recipients) > MaxEntries)
           /\ ~(Len(s.recipient_window_caps) > MaxEntries)
           /\ \A c \in Range(s.recipient_window_caps) : ~(c.cap < 0)
           /\ Range(s.recipients) \cap Range(s.blocked_recipients) = {}
           /\ once(s.protocols, "contract")
           /\ \A r \in Range(s.protocols) :
                 ~(r.fns # Null /\ (r.fns = <<>> \/ ~IsInjective(r.fns)))
    BY ContractParts
  <2> HIDE DEF s, A, R, B, K, once
  <2> QED BY <1>2, <1>6, <2>1 DEF Q
<1>8. T12 <=> T2 /\ Windowed
  OBVIOUS
<1>9. /\ GoodIntegers(p) <=> T1
      /\ GoodIntegers(p) => (WindowFine(p) <=> T2)
      /\ ActiveFine(p) <=> T3
  BY <1>1, ContractIntegers
<1>10. (S1 <=> Short(R)) /\ (S2 <=> Short(B)) /\ (S3 <=> Short(K))
  <2>1. \A S : \A list \in Seq(S) : Len(list) \in Nat
    OBVIOUS
  <2>2. Len(R) \in Nat /\ Len(B) \in Nat /\ Len(K) \in Nat
    BY <1>1, <1>3, <1>5, <2>1, ContractBlocked
  <2>3. \A n \in Nat : ~(n > MaxEntries) <=> n <= MaxEntries
    BY Bounds
  <2> QED BY <2>2, <2>3 DEF Short
<1>11. SelfListed(s) <=> \/ Guard \in Range(A) \/ Guard \in Range(R) \/ Guard \in Range(B)
                         \/ Guard \in Range(named) \/ Guard \in Range(capped)
  <2> HIDE DEF s
  <2>1. Range(named) = {r.contract : r \in Range(Q)}
    <3> HIDE DEF Q
    <3>1. Range(named) = {P[i].contract : i \in DOMAIN P}
      BY DEF Range, Contracted
    <3>2. {r.contract : r \in Range(Q)} = {Q[i].contract : i \in DOMAIN Q}
      BY DEF Range
    <3>3. DOMAIN Q = DOMAIN P /\ \A i \in DOMAIN P : Q[i].contract = P[i].contract
      BY <1>2
    <3> HIDE DEF P, named
    <3>4. \A x : x \in Range(named) <=> \E i \in DOMAIN P : x = Q[i].contract
      BY <3>1, <3>3
    <3>5. \A x : x \in {r.contract : r \in Range(Q)} <=> \E i \in DOMAIN P : x = Q[i].contract
      BY <3>2, <3>3
    <3> QED BY <3>4, <3>5
  <2>2. Range(capped) = {c.recipient : c \in Range(K)}
    BY DEF Range, Capped
  <2> HIDE DEF A, R, B, K, named, capped
  <2> QED BY <1>2, <2>1, <2>2 DEF SelfListed
<1>12. once(K, "recipient") <=> IsInjective(capped)
  <2>1. once(K, "recipient") <=> Keyed(K, "recipient")
    <3> HIDE DEF K
    <3> QED BY <1>5, DistinctKeys
  <2>2. Keyed(K, "recipient") <=> IsInjective(capped)
    BY DEF Keyed, Capped, IsInjective
  <2> QED BY <2>1, <2>2
<1>13. once(Q, "contract") <=> IsInjective(named)
  <2>1. once(Q, "contract") <=> Keyed(Q, "contract")
    <3> HIDE DEF Q
    <3> QED BY <1>2, DistinctKeys
  <2>2. Keyed(Q, "contract") <=> IsInjective(named)
    <3> HIDE DEF Q
    <3> QED BY <1>2 DEF Keyed, Contracted, IsInjective
  <2> QED BY <2>1, <2>2
<1>14. Fns <=> \A i \in DOMAIN P : GoodFns(P[i].fns)
  <2>1. (\A i \in DOMAIN P : GoodFns(P[i].fns)) <=>
          \A i \in DOMAIN P :
            ~(P[i].fns # Null /\ (P[i].fns = <<>> \/ ~IsInjective(P[i].fns)))
    BY <1>1, ContractFunctions
  <2> HIDE DEF Q
  <2>2. Fns <=> \A i \in DOMAIN P :
                  ~(P[i].fns # Null /\ (P[i].fns = <<>> \/ ~IsInjective(P[i].fns)))
    BY <1>2 DEF Range
  <2> QED BY <2>1, <2>2
<1> HIDE DEF s, K, B, Q, Fns, once
<1>15. /\ GoodAssets(p) <=> Guard \notin Range(A) /\ IsInjective(A)
       /\ GoodRecipients(p) <=> Short(R) /\ Guard \notin Range(R) /\ IsInjective(R)
  BY <1>3, ValidIsGood DEF GoodAssets, GoodRecipients
<1> HIDE DEF named, capped
<1>16. /\ GoodList(B) <=> Guard \notin Range(B) /\ IsInjective(B)
       /\ GoodList(named) <=> Guard \notin Range(named) /\ IsInjective(named)
       /\ GoodList(capped) <=> Guard \notin Range(capped) /\ IsInjective(capped)
  BY <1>3, <1>4, <1>5, ValidIsGood
<1>17. GoodProtocols(p) <=> GoodList(named) /\ \A i \in DOMAIN P : GoodFns(P[i].fns)
  BY <1>3 DEF GoodProtocols, named
<1>18. Sensible(p) <=>
         /\ GoodIntegers(p) /\ WindowFine(p) /\ ActiveFine(p) /\ GoodFlags(p) /\ GoodAssets(p)
         /\ GoodProtocols(p) /\ GoodRecipients(p) /\ GoodBlocked(p) /\ GoodCaps(p)
  BY DEF Sensible
<1>19. GoodCaps(p) <=> Short(K) /\ GoodList(capped) /\ Positive /\ Windowed
  BY <1>5
<1>20. GoodBlocked(p) <=> Short(B) /\ GoodList(B) /\ Disjoint
  BY <1>4
<1> HIDE DEF A, R, P, Positive, Windowed, Disjoint, T1, T2, T3, T12, S1, S2, S3
<1> QED BY <1>1, <1>7, <1>8, <1>9, <1>10, <1>11, <1>12, <1>13, <1>14, <1>15, <1>16, <1>17,
           <1>18, <1>19, <1>20 DEF s

LEMMA FormsAgree ==
  ASSUME SessionInv
  PROVE  ValidatorsAgree
<1> DEFINE p == current
           mine == validateGuardPolicy(p)
           schema == validateGuardPolicyAgainstSchema(p)
           broken == ContractRules(policyToScVal(p))
<1>1. IsForm(p)
  BY DEF SessionInv, Kept
<1> HIDE DEF p
<1>2. mine = {} <=> Sensible(p) /\ WellStocked(p)
  BY <1>1, ValidatorIs
<1>3. schema = {} <=> Sensible(p) /\ WellStocked(p) /\ SchemaNames(p)
  BY <1>1, SchemaIs
<1>4. ASSUME Encodes(p) PROVE broken = {} <=> Rules(mine) \subseteq {"empty_vector_noop"}
  BY <1>1, <1>4, ValidatorIs, ContractIs
<1> HIDE DEF mine, schema, broken
<1> QED BY <1>2, <1>3, <1>4 DEF ValidatorsAgree, mine, schema, broken, p

\* Whatever object an operator comes to hold, the SDK's two validators and the contract
\* are of one mind about it (policy.ts): the schema's interpreter accepts just what
\* validateGuardPolicy() accepts, of the objects the schema has names for, and of those that
\* encode, set_policy refuses just the ones that draw an objection that is not advice.
THEOREM ValidatorsAreOfOneMind == Spec => []ValidatorsAgree
<1> QED BY FormsAgree, InitSession, StepSession, PTL DEF Spec

=============================================================================
