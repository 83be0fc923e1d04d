CONSTANTS
  Values <- MCValues
  MaxDuration = 7
  PerMilli = 4
  Kinds = {"weixin"}
SPECIFICATION SettingsSpec
INVARIANTS RequestsBounded DelayInRange
