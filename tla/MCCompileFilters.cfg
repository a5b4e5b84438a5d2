SPECIFICATION Spec
CONSTANTS
  NoName = NoName
  NoFilter = NoFilter
  NoCond = NoCond
  NoPath = NoPath
  Now = 2
  Configs <- MCConfigs
  Keys <- MCKeys
  SnakeOf <- MCSnakeOf
  Digits <- MCDigits
INVARIANTS
  NoEntryInBoth
CHECK_DEADLOCK FALSE
