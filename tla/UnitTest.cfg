\* A program with a plain test and one with a fixture.
\* Their time constraints keep the details they refer to.
SPECIFICATION Spec
CONSTANTS
  Tests = {t1, t2}
  Fixtures = {t2}
  MacroUsers = {}
  suite <- OneSuiteEach
  NULL = NULL
  ExitMod = 256
  MaxActs = 2
  WordMod = 4
  Throws = Throws
  GROW_CHUNK_SIZE = 4
  InitialSize = 6
  NumberSize = 4
  MaxText = 20
  MsPerSec = 3
  UsPerMs = 3
  MaxSec = 2
INVARIANTS
  RunnerTypeOK
  CountsAgree
  MishapsReported
  JumpTargetLive
  DispositionsRestored
  XmlAgreesWithStdout
  TextFits
  TimerWithinAMillisecond
  ClosePassesOnlyWhatIsClose
PROPERTIES
  ImplementsSession
  RunEnds
\* A run ends, and a stream and the checks have their bounds.
CHECK_DEADLOCK FALSE
