SPECIFICATION OutboxSpec
CONSTANTS
  p1 = p1
  p2 = p2
  w1 = w1
  w2 = w2
  Events = {d1}
  Digests = {d1}
  People = {p1}
  Workers <- MCWorkers
  BatchSize = 1
  MaxAttempts = 2
  MaxSetbacks = 2
  NoItem = NoItem
INVARIANT AttemptsBounded
PROPERTIES EventsEnd DeliveriesEnd
CHECK_DEADLOCK FALSE
