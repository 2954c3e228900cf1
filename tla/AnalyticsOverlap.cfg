SPECIFICATION Spec
CONSTANTS
  s1 = s1
  s2 = s2
  h1 = h1
  h2 = h2
  h3 = h3
  Servers = {s1, s2}
  Handlers = {h1, h3}
  Host <- TwoHosts
  Limit = 2
  BatchSize = 1
  MaxEvents = 2
  MaxFaults = 0
  MaxBoots = 2
PROPERTY PopRemovesBatch
CHECK_DEADLOCK FALSE
