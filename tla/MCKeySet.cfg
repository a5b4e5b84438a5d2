SPECIFICATION FairSpec
CONSTANTS
  Hashes <- MCHashes
  NoHash = NoHash
  GenMod = 3
  InitLen = 2
  MaxLen = 8
INVARIANTS
  TypeOK
  IInv
  StoredOnce
  FreeSlot
PROPERTIES
  ImplementsNameSet
  AddReturns
