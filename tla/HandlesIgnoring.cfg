\* A handler that returns false lets an operation go on after a failed assertion.
SPECIFICATION Spec
CONSTANTS
  MaxEntries = 3
  CounterMod = 3
  MaxUses = 3
  MaxBelowZero = 1
  Pointers = {p1}
  NULL = NULL
  MaxType = 1
  Types = {1, 2}
  Handlers = {"default", "ignoring"}
INVARIANTS
  StaleHandleRejected
  NullHandleRejected
CHECK_DEADLOCK FALSE
