------------------------- MODULE WithdrawCondition -------------------------
(***************************************************************************)
(* withdraw_condition, its JSON form (fc::to_variant / fc::from_variant of *)
(* src/libraries/blockchain/withdraw_types.cpp) and balance_record         *)
(* (src/libraries/blockchain/chain_interface.cpp).                         *)
(*                                                                         *)
(* A condition is {asset_id, delegate_id, type, data}, data being the      *)
(* fc::raw packing of the payload of the variant named by type.  A packed *)
(* payload is abstracted to a one-element byte sequence holding the        *)
(* payload, and the empty byte vector to <<>>.  A balance record is        *)
(* exported to JSON and imported back (wallet export, RPC), or imported    *)
(* from JSON written by hand.                                              *)
(***************************************************************************)
EXTENDS Naturals, Sequences

CONSTANTS
  Addresses,     \* owner addresses
  NullAddress,   \* address(): the default-built address
  AssetIds,      \* asset ids
  DelegateIds,   \* delegate (name) ids
  Amounts,       \* balance amounts
  Policies,      \* payloads of multi_sig, password and option conditions
  StealthData,   \* one_time_key and encrypted_memo_data of by_name payloads
  UnknownTypes   \* values of the uint8_t type field naming no variant

ASSUME ConstAssumption ==
  /\ NullAddress \notin Addresses
  /\ 0 \in AssetIds /\ 0 \in DelegateIds

\* withdraw_condition_types
KnownTypes == {"null", "signature", "multi_sig", "password", "option", "by_name"}
PolicyTypes == {"multi_sig", "password", "option"}

ASSUME UnknownAssumption == UnknownTypes \cap KnownTypes = {}

\* The payloads of each variant.
Payloads(t) ==
  CASE t = "signature" -> [owner: Addresses]
    [] t = "by_name"   -> [owner: Addresses, stealth: StealthData]
    [] t \in PolicyTypes -> [policy: Policies]
    [] OTHER -> {}

\* fc::raw::pack and fc::raw::unpack of a payload.
Pack(x) == <<x>>
Unpack(bytes) == bytes[1]

\* withdraw_condition(): the default-built condition from_variant fills.
DefaultCondition ==
  [asset_id |-> 0, delegate_id |-> 0, type |-> "null", data |-> <<>>]

\* withdraw_condition( payload, asset_id, delegate_id ).
NewCondition(t, x, a, d) ==
  [asset_id |-> a, delegate_id |-> d, type |-> t, data |-> Pack(x)]

\* balance_record( owner, balance, delegate_id ).
NewBalanceRecord(owner, amount, a, d) ==
  [balance |-> amount,
   condition |-> NewCondition("signature", [owner |-> owner], a, d)]

\* balance_record::get_balance: the amount tagged with the condition's
\* current asset_id.
GetBalance(rec) == [amount |-> rec.balance, asset_id |-> rec.condition.asset_id]

\* balance_record::owner
Owner(c) ==
  IF c.type \in {"signature", "by_name"} THEN Unpack(c.data).owner
                                         ELSE NullAddress

\* The JSON data field: the decoded payload, a null variant, or absent.
JsonValue(x) == [value |-> x]
JsonNull == [null |-> TRUE]
JsonAbsent == [absent |-> TRUE]

\* fc::to_variant( withdraw_condition ): the switch on type has no default,
\* so an unknown type leaves "data" out.
ToVariant(c) ==
  [asset_id |-> c.asset_id, delegate_id |-> c.delegate_id, type |-> c.type,
   data |-> CASE c.type \in KnownTypes \ {"null"} -> JsonValue(Unpack(c.data))
              [] c.type = "null" -> JsonNull
              [] OTHER -> JsonAbsent]

\* Mutant: the null case packs the JSON null into data.
FromVariantPackNull(v, vo) ==
  [asset_id |-> v.asset_id, delegate_id |-> v.delegate_id, type |-> v.type,
   data |-> IF v.type \in KnownTypes \ {"null"} THEN Pack(v.data.value)
            ELSE IF v.type = "null" THEN Pack(v.data) ELSE vo.data]

\* Mutant: asset_id and delegate_id read from each other's member.
FromVariantSwapIds(v, vo) ==
  [asset_id |-> v.delegate_id, delegate_id |-> v.asset_id, type |-> v.type,
   data |-> IF v.type \in KnownTypes \ {"null"} THEN Pack(v.data.value)
                                                ELSE vo.data]

\* fc::from_variant( variant, withdraw_condition& vo ): the switch on type
\* has no default, and the null case leaves vo.data as it was.
FromVariant(v, vo) ==
  [asset_id |-> v.asset_id, delegate_id |-> v.delegate_id, type |-> v.type,
   data |-> IF v.type \in KnownTypes \ {"null"} THEN Pack(v.data.value)
                                                ELSE vo.data]

\* The conditions the payload constructor builds.
PayloadConditions ==
  UNION {{NewCondition(t, x, a, d) : x \in Payloads(t), a \in AssetIds,
                                     d \in DelegateIds} :
         t \in KnownTypes \ {"null"}}

\* A default-built condition with its ids set.
NullCondition(a, d) ==
  [DefaultCondition EXCEPT !.asset_id = a, !.delegate_id = d]

NullConditions == {NullCondition(a, d) : a \in AssetIds, d \in DelegateIds}

\* The conditions the constructors build.
Conditions == PayloadConditions \cup NullConditions

\* Hand-written JSON a caller may pass: any type tag, the data of any
\* variant of the right shape, or none.
HandJson ==
  {[asset_id |-> a, delegate_id |-> d, type |-> t, data |-> j] :
     a \in AssetIds, d \in DelegateIds, t \in KnownTypes \cup UnknownTypes,
     j \in {JsonNull, JsonAbsent}
           \cup {JsonValue(x) : x \in UNION {Payloads(u) : u \in KnownTypes}}}

\* The hand-written JSON from_variant does not throw on: a known payload
\* type needs a "data" member that converts to that payload (obj["data"]
\* and as<T>() throw otherwise).
Decodable(v) ==
  v.type \in KnownTypes \ {"null"} =>
     v.data \in {JsonValue(x) : x \in Payloads(v.type)}

VARIABLE rec   \* a balance record held by the wallet

Init ==
  rec \in [balance: Amounts, condition: Conditions]
    \cup {NewBalanceRecord(o, n, a, d) :
            o \in Addresses, n \in Amounts, a \in AssetIds, d \in DelegateIds}

\* Export to JSON and import back into a fresh condition.
RoundTrip ==
  rec' = [rec EXCEPT !.condition = FromVariant(ToVariant(rec.condition),
                                               DefaultCondition)]

\* Import a hand-written JSON condition into a fresh condition.
ImportJson(v) ==
  /\ Decodable(v)
  /\ rec' = [rec EXCEPT !.condition = FromVariant(v, DefaultCondition)]

Next == RoundTrip \/ \E v \in HandJson : ImportJson(v)

Spec == Init /\ [][Next]_rec

-----------------------------------------------------------------------------

\* The type invariant: the type field is a uint8_t tag.
TypeOK ==
  /\ rec.balance \in Amounts
  /\ rec.condition.asset_id \in AssetIds
  /\ rec.condition.delegate_id \in DelegateIds
  /\ rec.condition.type \in KnownTypes \cup UnknownTypes

\* Export then import changes nothing a caller can observe: the condition,
\* its owner and its balance (the serialised form is bit-exact, section 3).
RoundTripExact ==
  [][RoundTrip => /\ rec'.condition = rec.condition
                  /\ Owner(rec'.condition) = Owner(rec.condition)
                  /\ GetBalance(rec') = GetBalance(rec)]_rec

\* Sections 4.1 and 6 of the spec: from_variant rejects an unrecognised
\* type with a DecodeError, so no condition ever holds an unknown type.
OnlyKnownTypes == rec.condition.type \in KnownTypes

=============================================================================
