SPECIFICATION OutboxSpec
CONSTANTS
  p1 = p1
  p2 = p2
  w1 = w1
  w2 = w2
  Events = {e1}
  Digests = {}
  People <- MCPeople
  Workers <- MCWorkers
  BatchSize = 2
  MaxAttempts = 2
  MaxSetbacks = 1
  NoItem = NoItem
SYMMETRY Symmetry
INVARIANTS DuplicatesExplained SentByLatestClaim RecipientsKept
PROPERTY KeepsContract
CHECK_DEADLOCK FALSE
