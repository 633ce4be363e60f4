\* The generic fan driver and those of the platforms.
SPECIFICATION FairSpec
CONSTANTS
  Users <- MCUsers
  Drv = Drv
  Configs <- MCConfigs
  PwmValues <- MCPwmValues
  NoConfig = NoConfig
  Nobody = Nobody
CONSTANTS
  Boards <- MCBoards
  MaxFailed = 1
INVARIANTS
  TypeOK
  ConfiguredOnce
  NoLostUpdate
PROPERTIES
  StoppedByUser
  CallsReturn
