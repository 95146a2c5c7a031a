SPECIFICATION Spec
CONSTANTS
  ProgramWords = 6
  PageWords = 3
  AreaBegin = 100
  MaxWord = 255
  EndWord <- MCEndWord
  PacketWords = 2
  ButtonLevels = {TRUE, FALSE}
  Disruptions = {"power", "bus", "wear", "rollover", "lateAck"}
  Words <- MCWords
  Requests <- MCRequests
  Contents <- MCContents
INVARIANTS
  TypeOK
  FirmwareRunsWithFlagClear
  WordsSoFarStored
PROPERTIES
  StopsOnlyOnWraps
  RequestsAreTaken
  ResetReachesBootloader
CHECK_DEADLOCK FALSE
