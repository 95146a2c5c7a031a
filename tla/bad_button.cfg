SPECIFICATION Spec
CONSTANTS
  DebounceTicks = 3
  Chord <- MCChord
  Requests <- MCRequests
PROPERTY
  HeldButtonIsReported
