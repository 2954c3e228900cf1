SPECIFICATION Spec
CONSTANTS
  ann = ann
  home = home
  phone = phone
  p = p
  s = s
  Users = {ann}
  Clients = {home, phone}
  Account <- Accounts
  Requests = {s}
  Owner <- Owners
  RefreshTTL = 2
  MaxTime = 1
  MaxFaults = 0
PROPERTIES RefreshedTokenUsable
