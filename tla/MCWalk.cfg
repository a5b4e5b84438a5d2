SPECIFICATION Spec
CONSTANTS
  Configs <- MCConfigs
  Docs <- MCDocs
  NoDoc = NoDoc
  NoPath = NoPath
  Tokens <- MCTokens
  IndexText <- MCIndexText
  Size = 5
INVARIANTS
  TypeOK
  NodesAsSpecified
  PositionKept
