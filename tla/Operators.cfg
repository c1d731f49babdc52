CONSTANTS
  Account = {a1, a2}
  Amount = {1, 3}
  Minute = 2
  Windows = {1, 2}
  Retention = 5
  IdleTTL = 7
  AllowedLateness = 1
  MaxTime = 6
  MaxWatermark = 13
  MaxEvents = 3
  Device = {d1, d2}
  NoCountry = none
  Country = {none, us}
  DeviceIdleTTL = 3
  DeviceAllowedLateness = 1
  MaxDeviceTime = 5
  MaxDeviceWatermark = 9
  MaxDeviceEvents = 3
SYMMETRY Symmetry
SPECIFICATION OperatorsSpec
INVARIANTS
  TypeOK
  DeviceTypeOK
  NoOrphanBucket
  IdleAccountEvicted
  ProfileSummarisesRecent
  IdleDeviceEvicted
PROPERTIES CountsLikeSlidingWindow
CHECK_DEADLOCK FALSE
