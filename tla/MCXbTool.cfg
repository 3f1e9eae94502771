CONSTANTS
  MIN_BIOS_SIZE = 32
  MCPX_BLOCK_SIZE = 1
  BLDR_BLOCK_SIZE = 24
  PRELDR_BLOCK_SIZE = 13
  ROM_DIGEST_SIZE = 1
  PRELDR_PARAMS_SIZE = 10
  PRELDR_NONCE_SIZE = 4
  BOOT_PARAMS_SIZE = 5
  LDR_HEAD_SIZE = 2
  KEYS_OFFSET = 3
  ENTRY_OFFSET = 6
  Garbage = {5, 200}
  Mimic = FALSE
  INIT_TBL_IDENTIFIER = 1
  MaxCommands = 3
  Files <- MCFiles
  Images <- MCImages
  Switches <- MCSwitches
  Components <- AllComponents
  BuildSwitches <- MCBuildSwitches
SPECIFICATION SessionSpec
INVARIANTS
  NoOverrun
  LaidOut
  RoundTrip
  ExtractRecovers
CHECK_DEADLOCK FALSE
