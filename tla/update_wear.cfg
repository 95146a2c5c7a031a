SPECIFICATION Spec
CONSTANTS
  ProgramWords = 8
  PageWords = 4
  AreaBegin = 100
  MaxWord = 255
  EndWord <- MCEndWord
  PacketWords = 5
  HostPacketWords = 5
  MaxAttempts = 2
  ButtonLevels = {FALSE}
  Disruptions = {"wear", "kill", "power", "timeout"}
  Programs <- Worn
  Contents <- MCContents
INVARIANTS
  RunsWholeFirmware
  WornInv
  SuccessMeansInstalled
  SuccessInv
