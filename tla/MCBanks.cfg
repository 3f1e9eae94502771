CONSTANTS
  MIN_BIOS_SIZE = 1
  Content <- MCContent
  Dumps <- MCDumps
  NameChoices <- MCNameChoices
  MaxCommands = 3
SPECIFICATION BanksSpec
INVARIANTS
  BanksTypeOK
  Copied
PROPERTIES
  CombineRestores
CHECK_DEADLOCK FALSE
