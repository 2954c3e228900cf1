SPECIFICATION Spec
CONSTANTS
  e1 = e1
  e2 = e2
  r1 = r1
  r2 = r2
  b1 = b1
  b2 = b2
  Emails = {e1, e2}
  Requests = {r1, r2}
  Notifiers = {b1}
  TTL = 0
  MaxTokens = 3
  MaxDay = 1
  MaxFaults = 1
SYMMETRY SubscriberSymmetry
INVARIANTS TypeOK DoubleOptIn UnsubscribeLinksWork PendingHasLink ReportsAddUp
PROPERTIES ConfirmedIsStable LinkExpires
CHECK_DEADLOCK FALSE
