\* Clients that call reserve in any state.
SPECIFICATION Spec
CONSTANTS
  Values = {v1, v2}
  NoValue = NoValue
  SerialMod = 4
  IndexMod = 4
  Growth = 2
  MaxCapacity = 4
  MaxLost = 0
  Habits = {"reserve"}
INVARIANT LiveHandlesResolve
