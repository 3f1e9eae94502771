CONSTANTS
  XcodeSize = 2
  Wrap = 64
  Stray <- MCStray
  Tables <- MCTables
  MaxLines = 6
SPECIFICATION DecoderSpec
INVARIANTS
  ArraysFit
  WrittenInOrder
  JumpsNameLines
  NothingSkipped
PROPERTIES
  Terminates
CHECK_DEADLOCK FALSE
