SPECIFICATION ViewSpec
CONSTANTS
  c1 = c1
  c2 = c2
  f1 = f1
  f2 = f2
  m1 = m1
  m2 = m2
  g1 = g1
  g2 = g2
  NoMessage = NoMessage
  Calls <- MCCalls
  Forms <- MCForms
  Messages <- MCMessages
  RequestOf <- MCRequestOf
  Contents = {"una", "ajena", "otra"}
  DetailOf <- MCDetailOf
  AddressOf <- MCAddressOf
  Viewed = f1
  Own <- MCOwn
  PageSize = 1
  Fetches <- MCFetches
  First = g1
SYMMETRY Symmetry
CONSTRAINT Bound
INVARIANT SubmissionsSound
INVARIANT NothingPassedOver
INVARIANT ViewSettles
PROPERTY ActivityShown
PROPERTY MarkOnlyAdvances
CHECK_DEADLOCK FALSE
