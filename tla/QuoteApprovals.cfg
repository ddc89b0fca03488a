SPECIFICATION Spec
CONSTANTS
  MaxMoney = 100
  MaxQuantity = 10
  QuantityScale = 2
  BasisScale = 10
  v1 = v1  v2 = v2  v3 = v3  ana = ana  beto = beto
  NoVersion = NoVersion
  NoOne = NoOne
  Staff <- MCStaff
  Overriders <- MCOverriders
  Versions = {v1}
  Contents <- ApprovalContents
  Keys = {k1}
  MaxEdits = 2
INVARIANTS TypeOK SentAsAuthorised ApprovalKeys
CHECK_DEADLOCK FALSE
