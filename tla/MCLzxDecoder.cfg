SPECIFICATION MCSpec
CONSTANTS
  LZX_WINDOW_SIZE = 8
  LZX_CHUNK_SIZE = 4
  LZX_MIN_MATCH = 2
  LZX_MAX_MATCH = 2
  Bytes <- MCBytes
  None = None
  BlockSizes = {2, 4, 7}
  Dists = {1, 3, 6}
  MaxFrames = 3
  Truncated = TRUE
INVARIANTS
  LzxTypeOK
  WindowHolds
  OutputIsHistory
PROPERTIES
  ImplementsLz77
CHECK_DEADLOCK FALSE
