SPECIFICATION Spec
CONSTANTS
  ProgramWords = 6
  PageWords = 3
  AreaBegin = 100
  MaxWord = 255
  EndWord <- MCEndWord
  PacketWords = 2
  ButtonLevels = {FALSE}
  Disruptions = {}
  Words <- MCWords
  Requests <- MCRequests
  Contents <- MCContents
PROPERTY
  FlagIsClearedAtBoot
CHECK_DEADLOCK FALSE
