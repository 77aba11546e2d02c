CONSTANTS
  Addresses = {a1, a2, a3}
  NullAddress = NullAddress
  AssetIds = {0, 1, 2}
  DelegateIds = {0, 5}
  Amounts = {1, 2}
  Policies = {p1}
  StealthData = {s1}
  UnknownTypes = {"type_6", "type_7"}
SPECIFICATION Spec
INVARIANTS TypeOK
PROPERTIES RoundTripExact
