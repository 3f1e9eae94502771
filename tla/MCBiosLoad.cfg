CONSTANTS
  MIN_BIOS_SIZE = 32
  MCPX_BLOCK_SIZE = 1
  BLDR_BLOCK_SIZE = 24
  PRELDR_BLOCK_SIZE = 13
  ROM_DIGEST_SIZE = 1
  PRELDR_PARAMS_SIZE = 10
  PRELDR_NONCE_SIZE = 4
  BOOT_PARAMS_SIZE = 5
  LDR_HEAD_SIZE = 2
  KEYS_OFFSET = 3
  ENTRY_OFFSET = 6
  Garbage = {5, 200}
  Mimic = TRUE
  Files <- MCFiles
  Images <- MCImages
  Switches <- MCSwitches
SPECIFICATION LoadSpec
INVARIANTS
  TypeOK
  FblPreserved
  BldrLayer
  KernelLayer
  LoadRecovers
CHECK_DEADLOCK FALSE
