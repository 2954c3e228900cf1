SPECIFICATION Spec
CONSTANTS
  Null = Null
  Ids <- MCIds
  Fixture <- MCFixture
  NewId = 3
  Updated = 1
  Doomed <- MCDoomed
  MaxCalls = 2
INVARIANTS TypeOK
PROPERTIES LastCallWins ValidatorsHold ChildrenStay
CHECK_DEADLOCK FALSE
