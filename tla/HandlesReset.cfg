\* Handles kept across a Reset.
SPECIFICATION ResetsSpec
CONSTANTS
  MaxEntries = 3
  CounterMod = 4
  MaxUses = 2
  MaxBelowZero = 0
  Pointers = {p1}
  NULL = NULL
  MaxType = 1
  Types = {1}
  Handlers = {"default"}
INVARIANT ResetRemovesAllHandles
CHECK_DEADLOCK FALSE
