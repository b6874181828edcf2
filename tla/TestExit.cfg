\* The status a program exits with, which here has two values.
SPECIFICATION Spec
CONSTANTS
  Tests = {t1, t2}
  Fixtures = {t2}
  MacroUsers = {}
  suite <- OneSuiteEach
  NULL = NULL
  ExitMod = 2
  MaxActs = 2
  WordMod = 4
  Throws = Throws
  GROW_CHUNK_SIZE = 4
  InitialSize = 6
  NumberSize = 4
  MaxText = 20
  MsPerSec = 3
  UsPerMs = 3
  MaxSec = 2
INVARIANT FailedRunExitsNonzero
CHECK_DEADLOCK FALSE
