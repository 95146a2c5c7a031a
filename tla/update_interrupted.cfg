SPECIFICATION Spec
CONSTANTS
  ProgramWords = 8
  PageWords = 4
  AreaBegin = 100
  MaxWord = 255
  EndWord <- MCEndWord
  PacketWords = 3
  HostPacketWords = 3
  MaxAttempts = 3
  ButtonLevels = {TRUE, FALSE}
  Disruptions = {"power", "bus", "kill", "timeout", "lateAck", "slow"}
  Programs <- Normal
  Contents <- MCContents
INVARIANTS
  TypeOK
  RunsOnlyCompleteFirmware
  ProgramsOnlyErasedWords
  UpdateInv
PROPERTIES
  KeepsThePromise
  CommandsEnd
