SPECIFICATION Spec
CONSTANTS
  DebounceTicks = 3
  Chord <- MCChord
  Requests <- MCRequests
INVARIANTS
  TypeOK
  WholeChords
  HostKnowsSettings
PROPERTIES
  PressesAreSteady
  NoStuckKeys
  ChangesArrive
