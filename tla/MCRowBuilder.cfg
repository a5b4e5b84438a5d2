SPECIFICATION Spec
CONSTANTS
  NoName = NoName
  NoFilter = NoFilter
  Configs <- MCConfigs
  Records <- MCRecords
INVARIANTS
  TypeOK
  RowsAsSpecified
  FailsAsSpecified
  NamesOnce
  KeysOfBody
  CacheIsTruth
