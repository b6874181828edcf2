\* FreeStoreAllocator and HeapAllocator, over either storage.
SPECIFICATION AllocatorSpec
CONSTANTS
  StorageTypes = {"FixedSizeStorage", "BlockListStorage"}
  Size = 3
  PointerSize = 2
  StorageSize = 9
  Elsewhere = {h1}
  NULL = NULL
  ClientData = ClientData
  MaxLast = 5
  MaxRefusals = 3
  Counts = {0, 5, 6}
  SizeMod = 16
INVARIANTS
  TypeOK
  FreeChain
  SlotsConserved
  SlotsInStorage
  FixedThrowsOnlyWhenFull
  GrowsOnlyWhenUsedUp
  UndefinedOnlyAfterRefusals
  MemoryGoesBack
  BlocksHoldWhatWasAsked
PROPERTY ImplementsTable
\* A program that uses memory past its blocks may stop.
CHECK_DEADLOCK FALSE
