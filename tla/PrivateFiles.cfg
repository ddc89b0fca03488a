SPECIFICATION Spec
CONSTANTS
  c1 = c1
  c2 = c2
  c3 = c3
  c4 = c4
  Files = {plano}
  Calls <- MCCalls
  NoFile = NoFile
SYMMETRY Symmetry
INVARIANTS OfferedHasBytes AnnouncedOnce NothingLeftBehind
PROPERTIES DeletedStaysClosed
CHECK_DEADLOCK FALSE
