CONSTANTS
  Wrap = 64
  Base = 1
  TblSize = 2
  Bioses <- MCBioses
  XcodeFiles <- MCXcodeFiles
SPECIFICATION InjectSpec
INVARIANTS
  InjectedRun
  LittleIsLost
  SpaceIsFound
CHECK_DEADLOCK FALSE
