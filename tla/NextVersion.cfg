SPECIFICATION Spec
CONSTANTS
  MaxMoney = 100
  MaxQuantity = 10
  QuantityScale = 2
  BasisScale = 10
  NoVersion = NoVersion
  NoOne = NoOne
  v1 = v1
  v2 = v2
  v3 = v3
  ana = ana
  beto = beto
  Versions <- PointerVersions
  Contents <- PointerContents
  Staff = {ana}
  Overriders = {}
  Keys = {k1}
  MaxEdits = 1
INVARIANT NextVersionCanBeCreated
CHECK_DEADLOCK FALSE
