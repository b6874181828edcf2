\* Clients that call collect in any state.
SPECIFICATION Spec
CONSTANTS
  Values = {v1}
  NoValue = NoValue
  SerialMod = 4
  IndexMod = 4
  Growth = 2
  MaxCapacity = 4
  MaxLost = 0
  Habits = {"collect"}
INVARIANT SizeCountsLive
