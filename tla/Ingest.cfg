SPECIFICATION Spec
CONSTANTS
  MaxFrames = 5
  BufferSize = 2
\* the process ends
CHECK_DEADLOCK FALSE
INVARIANTS
  Conveyed
  QuietAtExit
PROPERTIES
  ShutdownEnds
  DiffsArrive
