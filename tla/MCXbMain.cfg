SPECIFICATION MainSpec
CONSTANTS
  None = None
  Lines <- MCLines
  ShortWords = {"", "?", "d", "f", "g", "4"}
  Number <- MCNumber
  BiosKilobytes = {256, 512, 1024}
  FileSizes = {256, 300, 512}
  SimSizes = {4, 32}
INVARIANTS
  HelpRunsNothing
  ValuesAsGiven
  ExitCodeTells
CHECK_DEADLOCK FALSE
