SPECIFICATION Spec
CONSTANTS
  ProgramWords = 8
  PageWords = 4
  AreaBegin = 100
  MaxWord = 255
  EndWord <- MCEndWord
  PacketWords = 3
  HostPacketWords = 3
  MaxAttempts = 5
  ButtonLevels = {FALSE}
  Disruptions = {}
  Programs <- AtLimit
  Contents <- MCContents
INVARIANT
  NoSpuriousFailure
