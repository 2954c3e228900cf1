SPECIFICATION Spec
CONSTANTS
  r1 = r1
  r2 = r2
  auth = auth
  pub = pub
  Requests = {r1}
  Groups = {pub}
  Burst <- Bursts
  Rps = 2
  Window = 2
  MaxCount = 5
  MaxFaults = 0
PROPERTY RejectedOnlyAboveRate
