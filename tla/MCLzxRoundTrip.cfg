SPECIFICATION TripSpec
CONSTANTS
  LZX_WINDOW_SIZE = 8
  LZX_CHUNK_SIZE = 4
  LZX_MIN_MATCH = 2
  LZX_MAX_MATCH = 3
  SECONDARY_PARTITION_SIZE = 4
  Reach = 7
  MAX_LITERAL_ITEMS = 9
  MAX_DIST_ITEMS = 6
  ItemMargin = 2
  RedoMargin = 4
  STEP_SIZE = 2
  MIN_LITERALS_REQUIRED = 4
  MIN_LITERALS_IN_BLOCK = 2
  MAX_BLOCK_SPLITS = 1
  AlignedAt = 2
  LookAhead = 2
  Inputs <- MCInputs
  None = None
INVARIANTS
  ItemsSpell
  RawDataRemains
  Decompresses
PROPERTIES
  Finishes
