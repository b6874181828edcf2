\* Handlers that stop an operation whose assertion fails.
SPECIFICATION Spec
CONSTANTS
  MaxEntries = 4
  CounterMod = 4
  MaxUses = 4
  MaxBelowZero = 1
  Pointers = {p1, p2}
  NULL = NULL
  MaxType = 1
  Types = {0, 1, 2}
  Handlers = {"default", "throwing"}
SYMMETRY PointerSymmetry
INVARIANTS
  TypeOK
  FreeListInv
  CountInv
  AddAssertsOnlyWhenFull
  StaleHandleRejected
  NullHandleRejected
  IssuedWordsDistinct
PROPERTY ImplementsTable
\* POW2_HALT really stops the program.
CHECK_DEADLOCK FALSE
