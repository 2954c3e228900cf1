SPECIFICATION Spec
CONSTANTS
  s1 = s1
  s2 = s2
  h1 = h1
  h2 = h2
  h3 = h3
  Servers = {s1}
  Handlers = {h1}
  Host <- OneHost
  Limit = 2
  BatchSize = 2
  MaxEvents = 2
  MaxFaults = 0
  MaxBoots = 1
PROPERTY FinalFlushBeforeExit
CHECK_DEADLOCK FALSE
