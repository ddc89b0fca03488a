SPECIFICATION Spec
CONSTANTS
  c1 = c1
  c2 = c2
  s1 = s1
  s2 = s2
  l1 = l1
  l2 = l2
  x1 = x1
  Calls <- MCCalls
  Sessions <- MCSessions
  Links <- MCLinks
  Secrets <- MCSecrets
  MaxEras = 2
  MaxCounter = 2
  NoSession = NoSession
  NoLink = NoLink
  NoSecret = NoSecret
SYMMETRY Symmetry
INVARIANTS SessionsOfThisEra CodeAcceptedOnce LinkWorksOnce ClosedHasNoLinks ActiveHasPassword
CHECK_DEADLOCK FALSE
