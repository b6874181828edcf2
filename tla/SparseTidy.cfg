\* Clients that call collect, reserve and clear in the states they are made for.
SPECIFICATION FairSpec
CONSTANTS
  Values = {v1, v2}
  NoValue = NoValue
  SerialMod = 3
  IndexMod = 4
  Growth = 2
  MaxCapacity = 4
  MaxLost = 1
  Habits = {}
INVARIANTS
  TypeOK
  IndexMapsInverse
  DenseCounted
  LiveHandlesResolve
  SizeCountsLive
  AccessesInRange
PROPERTIES
  StaleForever
  ImplementsTable
  CollectTerminates
