SPECIFICATION Spec
CONSTANTS
  Class <- MCClass
  Flipped = {2}
  Resolutions <- MCResolutions
  Length <- MCLength
  Width = 2
  NoRow = NoRow
  NaN = NaN
  FeeBps = {5, 30}
  Scenarios <- MCScenarios
INVARIANTS
  TypeOK
  SettingsFollowChain
  NeverOverstated
  NothingLost
  DayVolumeOfItsDay
PROPERTIES
  OwnColumns
  DayVolumeHealed
CHECK_DEADLOCK FALSE
