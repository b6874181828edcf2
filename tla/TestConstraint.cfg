\* The place of a time constraint that is opened with the macro.
SPECIFICATION Spec
CONSTANTS
  Tests = {t1, t2}
  Fixtures = {t2}
  MacroUsers = {t1}
  suite <- OneSuiteEach
  NULL = NULL
  ExitMod = 256
  MaxActs = 2
  WordMod = 4
  Throws = Throws
  GROW_CHUNK_SIZE = 4
  InitialSize = 6
  NumberSize = 4
  MaxText = 20
  MsPerSec = 3
  UsPerMs = 3
  MaxSec = 2
INVARIANT TimeConstraintMacroUsesCorrectInfo
CHECK_DEADLOCK FALSE
