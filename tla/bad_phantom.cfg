SPECIFICATION Spec
CONSTANTS
  ProgramWords = 12
  PageWords = 4
  AreaBegin = 100
  MaxWord = 255
  EndWord <- MCEndWord
  PacketWords = 3
  HostPacketWords = 3
  MaxAttempts = 5
  ButtonLevels = {FALSE}
  Disruptions = {"power"}
  Programs <- Twisted
  Contents <- MCContents
INVARIANT
  RunsOnlyCompleteFirmware
