SPECIFICATION Spec
CONSTANTS
  ana = ana  beto = beto  carla = carla
  c1 = c1  c2 = c2  c3 = c3
  Members <- MCMembers
  Requests = {r1}
  Calls <- MCCalls
  Nobody = Nobody
  NoRequest = NoRequest
SYMMETRY Symmetry
INVARIANTS OpenWorkIsAttended AssignmentsAgree
CHECK_DEADLOCK FALSE
