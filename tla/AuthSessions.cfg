SPECIFICATION Spec
CONSTANTS
  ann = ann
  home = home
  phone = phone
  p = p
  s = s
  Users = {ann}
  Clients = {home, phone}
  Account <- Accounts
  Requests = {p, s}
  Owner <- Owners
  RefreshTTL = 2
  MaxTime = 2
  MaxFaults = 1
SYMMETRY ClientSymmetry
INVARIANTS TypeOK ReuseBounded RefusedForCause
PROPERTIES RevokedStaysOut
