\* A slot that is used until its serial is the last one.
SPECIFICATION Spec
CONSTANTS
  Values = {v1}
  NoValue = NoValue
  SerialMod = 3
  IndexMod = 4
  Growth = 2
  MaxCapacity = 3
  MaxLost = 0
  Habits = {}
INVARIANT AllocatedHandlesAreSet
