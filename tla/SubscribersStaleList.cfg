SPECIFICATION Spec
CONSTANTS
  e1 = e1
  e2 = e2
  r1 = r1
  r2 = r2
  b1 = b1
  b2 = b2
  Emails = {e1}
  Requests = {r1}
  Notifiers = {b1}
  TTL = 1
  MaxTokens = 1
  MaxDay = 0
  MaxFaults = 0
PROPERTY OnlyConfirmedNotified
CHECK_DEADLOCK FALSE
