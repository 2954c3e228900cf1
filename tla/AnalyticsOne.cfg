SPECIFICATION FairSpec
CONSTANTS
  s1 = s1
  s2 = s2
  h1 = h1
  h2 = h2
  h3 = h3
  Servers = {s1}
  Handlers = {h1, h2}
  Host <- OneHost
  Limit = 2
  BatchSize = 2
  MaxEvents = 5
  MaxFaults = 2
  MaxBoots = 2
INVARIANTS TypeOK QueueBound AtMostOneRow Accounted PopOwnership LossBound
PROPERTIES ImplementsLog QueueDrains PopRemovesBatch
CHECK_DEADLOCK FALSE
