SPECIFICATION Spec
CONSTANTS
  a1 = a1
  c1 = c1
  c2 = c2
  c3 = c3
  e1 = e1
  e2 = e2
  p1 = p1
  r1 = r1
  Admins = {a1}
  CommentIds = {c1, c2, c3}
  PostIds = {p1}
  Empty = Empty
  Unused = Unused
  Deleted = Deleted
  Lost = Lost
  NoReport = NoReport
  Reports = {r1}
  EventIds = {e1, e2}
  MaxNow = 2
  DaysAsked = {1}
  DefaultDays = 3
  MaxDays = 2
SYMMETRY ReadersSymmetry
INVARIANTS TypeOK ThreadsAreFlat PublicComplete AdminComplete EventsReferToPosts PartsCoverTotal
CHECK_DEADLOCK FALSE
