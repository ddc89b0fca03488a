SPECIFICATION OutboxSpec
CONSTANTS
  p1 = p1
  p2 = p2
  w1 = w1
  w2 = w2
  Events = {e1}
  Digests = {}
  People = {p1}
  Workers <- MCWorkers
  BatchSize = 1
  MaxAttempts = 1
  MaxSetbacks = 1
  NoItem = NoItem
PROPERTY FanoutRetried
CHECK_DEADLOCK FALSE
