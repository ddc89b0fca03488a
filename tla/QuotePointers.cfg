SPECIFICATION Spec
CONSTANTS
  MaxMoney = 100
  MaxQuantity = 10
  QuantityScale = 2
  BasisScale = 10
  v1 = v1  v2 = v2  v3 = v3  ana = ana  beto = beto
  NoVersion = NoVersion
  NoOne = NoOne
  Staff <- MCStaff
  Overriders <- MCOverriders
  Versions <- PointerVersions
  Contents <- PointerContents
  Keys = {k1, k2}
  MaxEdits = 2
SYMMETRY PointerSymmetry
INVARIANTS PointersSound LatestSentIsPublished OneDeal AlwaysClassified
PROPERTIES AnswersStand ImplementsContract
CHECK_DEADLOCK FALSE
