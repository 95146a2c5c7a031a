SPECIFICATION Spec
CONSTANTS
  Kinds <- MCKinds
  Rcas = {0, 1, 2}
  MaxRetries = 2
  Patience = 4
  MaxMillis = 20
  BlockSize = 512
  AddressSpace = 1073741824
  Blocks <- MCBlocks
INVARIANTS
  TypeOK
  KnowsTheCard
  MovesTheRightBlock
  SdioInv
PROPERTIES
  CallsEnd
  CardGetsInitialized
