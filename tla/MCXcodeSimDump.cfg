CONSTANTS
  WordSize = 2
  Wrap = 64
  AllocXcodes = 2
  Codes <- MCCodes
  Bases <- MCBases
  Others <- MCOthers
  Offsets <- MCOffsets
  SimSizes <- MCSimSizes
SPECIFICATION SimSpec
INVARIANTS
  DumpShowsCode
CHECK_DEADLOCK FALSE
