SPECIFICATION PartsSpec
CONSTANTS
  MaxLen = 4
  REP_MIN = 2
  ZERO_FIRST = 2
  ZERO_SECOND = 4
  SAME_FIRST = 2
  Base = 8
  Operand = 2
  E8 = 7
  file_size = 9
  MaxItems = 4
  MaxRaw = 3
  LZX_WINDOW_SIZE = 10
  LZX_CHUNK_SIZE = 5
  LZX_MIN_MATCH = 2
  LZX_MAX_MATCH = 4
  BREAK_LENGTH = 3
  LongRun = 3
  Reach = 8
  Bytes = {0, 1}
  OffsetSets <- MCOffsets
  MaxChunks = 3
INVARIANTS
  TablesDecode
  LengthsAgree
  PositionsAgree
  CallsAgree
  SamePlace
  MatchesAreReal
  TreesOrdered
CHECK_DEADLOCK FALSE
