SPECIFICATION Spec
CONSTANTS
  Strokes <- MCStrokes
  Calls <- MCCalls
INVARIANTS
  TypeOK
  StrokesArriveWhole
  NothingHeldBack
  TextArrivesInOrder
  SerialInv
PROPERTY
  PrintEnds
