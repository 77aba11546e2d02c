---------------------- MODULE WithdrawConditionProofs ----------------------
(***************************************************************************)
(* Proofs about the JSON form of withdraw_condition, for every set of     *)
(* addresses, ids, amounts and payloads.                                   *)
(*                                                                         *)
(* RoundTripExact is an action property, and a round trip is exact only   *)
(* for conditions of the right shape: from_variant rebuilds data from the *)
(* JSON payload for a known non-null type and keeps the fresh condition's *)
(* empty data otherwise, so a condition whose data is anything else would *)
(* change.  Shaped says every condition the constructors and from_variant  *)
(* build has that shape.                                                   *)
(***************************************************************************)
EXTENDS WithdrawCondition, TLAPS

\* The payloads of every variant.
AllPayloads == UNION {Payloads(t) : t \in KnownTypes}

\* A condition as the constructors and from_variant leave it: data packs a
\* payload exactly when the type names a variant other than null.
Shaped(c) ==
  /\ c \in [asset_id: AssetIds, delegate_id: DelegateIds,
            type: KnownTypes \cup UnknownTypes, data: Seq(AllPayloads)]
  /\ c.data = IF c.type \in KnownTypes \ {"null"} THEN Pack(Unpack(c.data))
                                                   ELSE << >>

\* The inductive invariant: the balance record is well typed and its
\* condition is shaped.
CondInv ==
  /\ rec = [balance |-> rec.balance, condition |-> rec.condition]
  /\ rec.balance \in Amounts
  /\ Shaped(rec.condition)

\* fc::from_variant( fc::to_variant( c ), withdraw_condition() ) gives back
\* a shaped condition unchanged.
LEMMA ShapedRoundTrip ==
  ASSUME NEW c, Shaped(c)
  PROVE  FromVariant(ToVariant(c), DefaultCondition) = c
<1>1. CASE c.type \in KnownTypes \ {"null"}
  <2>1. ToVariant(c).data = JsonValue(Unpack(c.data))
    BY <1>1 DEF ToVariant
  <2>. QED
    BY <1>1, <2>1 DEF Shaped, FromVariant, ToVariant, JsonValue
<1>2. CASE c.type \notin KnownTypes \ {"null"}
  BY <1>2 DEF Shaped, FromVariant, ToVariant, DefaultCondition
<1>. QED
  BY <1>1, <1>2

\* from_variant on hand-written JSON it does not throw on builds a shaped
\* condition.
LEMMA ImportShaped ==
  ASSUME NEW v \in HandJson, Decodable(v)
  PROVE  Shaped(FromVariant(v, DefaultCondition))
<1>1. v \in [asset_id: AssetIds, delegate_id: DelegateIds,
             type: KnownTypes \cup UnknownTypes, data: {JsonNull, JsonAbsent}
             \cup {JsonValue(x) : x \in AllPayloads}]
  BY DEF HandJson, AllPayloads
<1>2. CASE v.type \in KnownTypes \ {"null"}
  <2>1. PICK x \in Payloads(v.type) : v.data = JsonValue(x)
    BY <1>2 DEF Decodable
  <2>2. x \in AllPayloads
    BY <1>2 DEF AllPayloads
  <2>. QED
    BY <1>1, <1>2, <2>1, <2>2 DEF Shaped, FromVariant, JsonValue, Pack, Unpack
<1>3. CASE v.type \notin KnownTypes \ {"null"}
  BY <1>1, <1>3 DEF Shaped, FromVariant, DefaultCondition
<1>. QED
  BY <1>2, <1>3

\* Every condition the constructors build is shaped.
LEMMA ConditionsShaped ==
  ASSUME NEW c \in Conditions
  PROVE  Shaped(c)
<1>1. CASE c \in PayloadConditions
  <2>1. PICK t \in KnownTypes \ {"null"} :
           c \in {NewCondition(t, x, a, d) : x \in Payloads(t),
                     a \in AssetIds, d \in DelegateIds}
    BY <1>1 DEF PayloadConditions
  <2>2. PICK x \in Payloads(t), a \in AssetIds, d \in DelegateIds :
           c = NewCondition(t, x, a, d)
    BY <2>1
  <2>3. x \in AllPayloads
    BY DEF AllPayloads
  <2>. QED
    BY <2>2, <2>3 DEF Shaped, NewCondition, Pack, Unpack
<1>2. CASE c \in NullConditions
  <2>1. PICK a \in AssetIds, d \in DelegateIds :
           c = NullCondition(a, d)
    BY <1>2 DEF NullConditions
  <2>2. c = [asset_id |-> a, delegate_id |-> d, type |-> "null",
             data |-> << >>]
    BY <2>1 DEF NullCondition, DefaultCondition
  <2>3. << >> \in Seq(AllPayloads)
    OBVIOUS
  <2>4. "null" \in KnownTypes
    BY DEF KnownTypes
  <2>. QED
    BY <2>2, <2>3, <2>4 DEF Shaped
<1>. QED
  BY <1>1, <1>2 DEF Conditions

LEMMA InitCondInv == Init => CondInv
<1> SUFFICES ASSUME Init PROVE CondInv
  OBVIOUS
<1>1. CASE rec \in [balance: Amounts, condition: Conditions]
  BY <1>1, ConditionsShaped DEF CondInv
<1>2. CASE \E o \in Addresses, n \in Amounts, a \in AssetIds, d \in DelegateIds :
             rec = NewBalanceRecord(o, n, a, d)
  <2>1. PICK o \in Addresses, n \in Amounts, a \in AssetIds, d \in DelegateIds :
               rec = NewBalanceRecord(o, n, a, d)
    BY <1>2
  <2>2. [owner |-> o] \in AllPayloads
    <3>1. Payloads("signature") = [owner: Addresses]
      BY DEF Payloads, PolicyTypes
    <3>2. [owner |-> o] \in Payloads("signature")
      BY <3>1
    <3>3. "signature" \in KnownTypes
      BY DEF KnownTypes
    <3>. QED
      BY <3>2, <3>3 DEF AllPayloads
  <2>. QED
    BY <2>1, <2>2 DEF CondInv, Shaped, NewBalanceRecord, NewCondition, Pack,
       Unpack, KnownTypes
<1>. QED
  BY <1>1, <1>2 DEF Init

LEMMA CondInvStep == CondInv /\ [Next]_rec => CondInv'
<1> SUFFICES ASSUME CondInv, [Next]_rec PROVE CondInv'
  OBVIOUS
<1>1. CASE RoundTrip
  BY <1>1, ShapedRoundTrip DEF CondInv, RoundTrip
<1>2. CASE \E v \in HandJson : ImportJson(v)
  <2>1. PICK v \in HandJson : ImportJson(v)
    BY <1>2
  <2>2. Shaped(FromVariant(v, DefaultCondition))
    BY <2>1, ImportShaped DEF ImportJson
  <2>. QED
    BY <2>1, <2>2 DEF CondInv, ImportJson
<1>3. CASE UNCHANGED rec
  BY <1>3 DEF CondInv, Shaped
<1>. QED
  BY <1>1, <1>2, <1>3 DEF Next

\* Every balance record reachable by constructing, exporting and importing
\* conditions is well typed.
THEOREM TypeCorrect == Spec => []TypeOK
<1>1. CondInv => TypeOK
  BY DEF CondInv, Shaped, TypeOK
<1>. QED
  BY <1>1, InitCondInv, CondInvStep, PTL DEF Spec

\* Export through fc::to_variant and import through fc::from_variant never
\* changes a balance record's condition, owner or balance, for every
\* condition the constructors and from_variant can build.
THEOREM RoundTripIsExact == Spec => RoundTripExact
<1>1. CondInv => [RoundTrip => /\ rec'.condition = rec.condition
                               /\ Owner(rec'.condition) = Owner(rec.condition)
                               /\ GetBalance(rec') = GetBalance(rec)]_rec
  BY ShapedRoundTrip DEF CondInv, RoundTrip, GetBalance
<1>. QED
  BY <1>1, InitCondInv, CondInvStep, PTL DEF Spec, RoundTripExact

=============================================================================
