--------------------------- MODULE UnitTestProofs ---------------------------
(***************************************************************************)
(* UnitTest++ as a whole: what is proved of the runner holds of every run  *)
(* of it, and the stream, the timer and the checks keep their promises for *)
(* every chunk size, unit of time and word size.                           *)
(***************************************************************************)
EXTENDS UnitTest, TestSessionProofs

-----------------------------------------------------------------------------
(* The runner. *)

LEMMA RunnerMoves ==
  ASSUME [Next]_unitTestVars
  PROVE  [RunnerNext]_runnerVars
  BY DEF Next, Run, RunnerNext, unitTestVars

(* Whatever else is used, the runner behaves as the runner does on its     *)
(* own, so that all that is proved of it holds here.                       *)
THEOREM UnitTestImplementsRunner == Spec => RunnerSpec
<1>1. Init => RunnerInit
  BY DEF Init
<1> QED
  BY <1>1, RunnerMoves, PTL DEF Spec, RunnerSpec

(* So everything that is proved of the runner and of its session; what is  *)
(* reported, provided no test uses UNITTEST_TIME_CONSTRAINT.               *)
THEOREM RunnerHoldsInUnitTest ==
  /\ Spec => /\ []RunnerTypeOK /\ []CountsAgree
             /\ []JumpTargetLive /\ []DispositionsRestored /\ ImplementsSession
  /\ MacroUsers = {} => (Spec => []MishapsReported /\ []XmlAgreesWithStdout)
<1>1. Spec => /\ []RunnerTypeOK /\ []CountsAgree
              /\ []JumpTargetLive /\ []DispositionsRestored /\ ImplementsSession
  BY UnitTestImplementsRunner, RunnerTypeCorrect, CountersCorrect, JumpsStayLive,
     SignalActionsReturn, RunIsASession, PTL
<1>2. ASSUME MacroUsers = {}
      PROVE  Spec => []MishapsReported /\ []XmlAgreesWithStdout
  <2>1. RunnerSpec => []MishapsReported
    BY <1>2, NoMishapIsLost
  <2>2. RunnerSpec => []XmlAgreesWithStdout
    BY <1>2, XmlReportAgrees
  <2> QED
    BY <2>1, <2>2, UnitTestImplementsRunner, PTL
<1> QED
  BY <1>1, <1>2

-----------------------------------------------------------------------------
(* The stream. *)

LEMMA RoundedUp ==
  ASSUME NEW n \in Nat
  PROVE  LET c == RoundUpToMultipleOfPow2Number(n)
         IN  /\ c \in Nat /\ n <= c /\ c < n + GROW_CHUNK_SIZE
             /\ c % GROW_CHUNK_SIZE = 0
<1> DEFINE g == GROW_CHUNK_SIZE
           q == (n + g - 1) \div g
           r == (n + g - 1) % g
<1>1. g \in Nat \ {0} /\ n + g - 1 \in Nat
  BY StreamAssumption
<1>2. q \in Nat /\ r \in 0 .. g - 1 /\ n + g - 1 = g * q + r
  BY <1>1, Division
<1>3. RoundUpToMultipleOfPow2Number(n) = q * g
  BY DEF RoundUpToMultipleOfPow2Number
<1>4. (q * g) % g = 0
  BY <1>1, <1>2, ProductDivides
<1> HIDE DEF q, r
<1>5. q * g \in Nat /\ g * q = q * g
  BY <1>1, <1>2, ProductMonotone
<1>6. PICK c \in Nat : c = q * g /\ n + g - 1 = c + r
  BY <1>2, <1>5
<1> HIDE DEF g
<1>7. n <= c /\ c < n + g
  BY <1>1, <1>2, <1>6
<1> QED
  BY <1>3, <1>4, <1>6, <1>7 DEF g

TextInv == m_buffer \in Nat /\ m_capacity \in Nat /\ TextFits

LEMMA TextInvInit ==
  ASSUME StreamInit
  PROVE  TextInv
<1>1. InitialSize \in Nat \ {0} /\ GROW_CHUNK_SIZE \in Nat
  BY StreamAssumption
<1>2. /\ m_capacity \in Nat /\ InitialSize <= m_capacity
      /\ m_capacity < InitialSize + GROW_CHUNK_SIZE /\ m_capacity % GROW_CHUNK_SIZE = 0
  BY <1>1, RoundedUp DEF StreamInit
<1> QED
  BY <1>1, <1>2 DEF StreamInit, TextInv, TextFits

LEMMA TextWritten ==
  ASSUME TextInv, NEW txt \in Nat, Write(txt)
  PROVE  TextInv'
<1> DEFINE g == GROW_CHUNK_SIZE
           n == m_buffer + txt + 1
<1>1. g \in Nat \ {0} /\ InitialSize \in Nat \ {0} /\ m_buffer \in Nat /\ m_capacity \in Nat
  BY StreamAssumption DEF TextInv
<1>2. m_buffer' = m_buffer + txt /\ m_buffer' \in Nat /\ n \in Nat /\ m_buffer' + 1 = n
  BY <1>1 DEF Write
<1>3. CASE bytesRequired(txt) > m_capacity - m_buffer
  <2>1. m_capacity' = RoundUpToMultipleOfPow2Number(n)
    <3>1. bytesRequired(txt) + m_capacity - (m_capacity - m_buffer) = n
      BY <1>1 DEF bytesRequired
    <3> QED
      BY <1>3, <3>1 DEF Write, GrowBuffer
  <2>2. m_capacity' \in Nat /\ n <= m_capacity' /\ m_capacity' < n + g /\ m_capacity' % g = 0
    BY <1>2, <2>1, RoundedUp
  <2>3. m_capacity' < g + (IF n > InitialSize THEN n ELSE InitialSize)
    BY <1>1, <1>2, <2>2
  <2> HIDE DEF n
  <2> QED
    BY <1>2, <2>2, <2>3 DEF TextInv, TextFits
<1>4. CASE ~(bytesRequired(txt) > m_capacity - m_buffer)
  <2>1. m_capacity' = m_capacity
    BY <1>4 DEF Write
  <2>2. n <= m_capacity
    BY <1>1, <1>4 DEF bytesRequired
  <2>3. m_buffer + 1 <= n
    BY <1>1
  <2> HIDE DEF n
  <2> QED
    BY <1>1, <1>2, <2>1, <2>2, <2>3 DEF TextInv, TextFits
<1> QED
  BY <1>3, <1>4

LEMMA TextInvNext ==
  ASSUME TextInv, [Next]_unitTestVars
  PROVE  TextInv'
<1>1. CASE StreamNext
  BY <1>1, StreamAssumption, TextWritten DEF StreamNext, WriteNumber
<1>2. CASE UNCHANGED streamVars
  BY <1>2 DEF streamVars, TextInv, TextFits
<1> QED
  BY <1>1, <1>2 DEF Next, Run, unitTestVars

(* A text and its NUL always fit the buffer, and no more than a chunk is   *)
(* wasted, for every chunk size and whatever is written in whatever order. *)
THEOREM TextAlwaysFits == Spec => []TextFits
<1>1. Init => TextInv
  BY TextInvInit DEF Init
<1>2. TextInv => TextFits
  BY DEF TextInv
<1> QED
  BY <1>1, <1>2, TextInvNext, PTL DEF Spec

-----------------------------------------------------------------------------
(* The timer. *)

TimeOfDay == [tv_sec : Nat, tv_usec : Nat]
TimerInv == clock \in TimeOfDay /\ m_startTime \in TimeOfDay

LEMMA ReadingType == Reading \subseteq TimeOfDay
<1>1. MaxSec \in Nat /\ UsPerSec \in Nat
  BY TimeAssumption, ProductMonotone DEF UsPerSec
<1> QED
  BY <1>1 DEF Reading, TimeOfDay

LEMMA TimerInvInit ==
  ASSUME Init
  PROVE  TimerInv
<1>1. CASE subject = "timer"
  BY <1>1, ReadingType DEF Init, TimerInit, TimerInv
<1>2. CASE subject # "timer"
  BY <1>2 DEF Init, TimerInv, TimeOfDay
<1> QED
  BY <1>1, <1>2

LEMMA TimerInvNext ==
  ASSUME TimerInv, [Next]_unitTestVars
  PROVE  TimerInv'
<1>1. CASE TimerNext
  BY <1>1, ReadingType DEF TimerNext, StartTimer, TimePasses, TimerInv
<1>2. CASE UNCHANGED timerVars
  BY <1>2 DEF timerVars, TimerInv
<1> QED
  BY <1>1, <1>2 DEF Next, Run, unitTestVars

(* Rounding towards zero is off by less than the divisor. *)
LEMMA QuotientRounds ==
  ASSUME NEW n \in Int, NEW d \in Nat \ {0}
  PROVE  /\ Quotient(n, d) \in Int /\ Quotient(n, d) * d \in Int
         /\ n - d < Quotient(n, d) * d /\ Quotient(n, d) * d < n + d
         /\ n >= 0 => Quotient(n, d) * d <= n
<1>1. CASE n >= 0
  <2>1. n \in Nat
    BY <1>1
  <2>2. /\ n \div d \in Nat /\ n % d \in 0 .. d - 1
        /\ n = d * (n \div d) + (n % d)
    BY <2>1, Division
  <2>3. PICK q \in Nat, r \in 0 .. d - 1 : q = n \div d /\ n = d * q + r
    BY <2>2
  <2>4. Quotient(n, d) = q
    BY <1>1, <2>3 DEF Quotient
  <2>5. q * d \in Nat /\ d * q = q * d
    BY <2>3, ProductMonotone
  <2> QED
    BY <2>3, <2>4, <2>5
<1>2. CASE n < 0
  <2>1. -n \in Nat /\ ~(n >= 0)
    BY <1>2
  <2>2. /\ (-n) \div d \in Nat /\ (-n) % d \in 0 .. d - 1
        /\ -n = d * ((-n) \div d) + ((-n) % d)
    BY <2>1, Division
  <2>3. PICK q \in Nat, r \in 0 .. d - 1 : q = (-n) \div d /\ -n = d * q + r
    BY <2>2
  <2>4. Quotient(n, d) = -q
    BY <2>1, <2>3 DEF Quotient
  <2>5. q * d \in Nat /\ d * q = q * d /\ (-q) * d = -(q * d)
    BY <2>3, ProductMonotone
  <2> QED
    BY <2>1, <2>3, <2>4, <2>5
<1> QED
  BY <1>1, <1>2

(* The timer is less than a millisecond off, for every unit of time and    *)
(* every two readings, also when the microseconds have wrapped around.     *)
THEOREM TimerIsAccurate == Spec => []TimerWithinAMillisecond
<1>1. TimerInv => TimerWithinAMillisecond
  <2> SUFFICES ASSUME TimerInv
               PROVE  TimerWithinAMillisecond
    OBVIOUS
  <2> DEFINE n == clock.tv_usec - m_startTime.tv_usec
  <2>1. /\ clock.tv_sec \in Nat /\ clock.tv_usec \in Nat
        /\ m_startTime.tv_sec \in Nat /\ m_startTime.tv_usec \in Nat
    BY DEF TimerInv, TimeOfDay
  <2>2. MsPerSec \in Nat /\ UsPerMs \in Nat \ {0}
    BY TimeAssumption
  <2>3. PICK c \in Nat, m \in Nat, u \in Nat, v \in Nat :
          c = clock.tv_sec /\ m = m_startTime.tv_sec /\ u = clock.tv_usec /\ v = m_startTime.tv_usec
    BY <2>1
  <2>4. PICK q \in Int : q = Quotient(u - v, UsPerMs)
    BY <2>2, QuotientRounds
  <2>5. /\ q * UsPerMs \in Int
        /\ (u - v) - UsPerMs < q * UsPerMs /\ q * UsPerMs < (u - v) + UsPerMs
        /\ u - v >= 0 => q * UsPerMs <= u - v
    BY <2>2, <2>4, QuotientRounds
  <2>6. PICK s \in Int : s = (c - m) * UsPerSec
    BY <2>2, <2>3 DEF UsPerSec
  <2>7. GetTimeInMs * UsPerMs = s + q * UsPerMs
    <3>1. GetTimeInMs = (c - m) * MsPerSec + q
      BY <2>3, <2>4 DEF GetTimeInMs
    <3>2. ((c - m) * MsPerSec + q) * UsPerMs = (c - m) * (MsPerSec * UsPerMs) + q * UsPerMs
      BY <2>2
    <3> QED
      BY <2>6, <3>1, <3>2 DEF UsPerSec
  <2>8. Microseconds(clock) - Microseconds(m_startTime) = s + (u - v)
    <3>1. UsPerSec \in Nat
      BY <2>2, ProductMonotone DEF UsPerSec
    <3>2. (c - m) * UsPerSec = c * UsPerSec - m * UsPerSec
      BY <3>1
    <3>3. c * UsPerSec \in Nat /\ m * UsPerSec \in Nat
      BY <3>1, ProductMonotone
    <3> QED
      BY <2>3, <2>6, <3>2, <3>3 DEF Microseconds
  <2>9. PICK p \in Int : p = q * UsPerMs
    BY <2>5
  <2>10. PICK e \in Int : e = u - v
    OBVIOUS
  <2> QED
    BY <2>2, <2>3, <2>5, <2>6, <2>7, <2>8, <2>9, <2>10 DEF TimerWithinAMillisecond
<1> QED
  BY <1>1, TimerInvInit, TimerInvNext, PTL DEF Spec

-----------------------------------------------------------------------------
(* The checks. *)

(* What an unsigned number wraps around to. *)
LEMMA Wrapped ==
  ASSUME NEW n \in Int, NEW b \in Nat \ {0}, -b <= n, n < b + b
  PROVE  /\ n < 0 => n % b = n + b
         /\ 0 <= n /\ n < b => n % b = n
         /\ b <= n => n % b = n - b
<1>1. /\ n \div b \in Int /\ n % b \in 0 .. b - 1
      /\ n = b * (n \div b) + (n % b)
  OBVIOUS
<1>2. PICK q \in Int, r \in 0 .. b - 1 : r = n % b /\ n = b * q + r
  BY <1>1
<1>3. CASE q >= 2
  <2>1. q - 2 \in Nat /\ b * q = (q - 2) * b + 2 * b
    BY <1>3
  <2>2. (q - 2) * b \in Nat
    BY <2>1, ProductMonotone
  <2> QED
    BY <1>2, <2>1, <2>2
<1>4. CASE q <= -2
  <2>1. -2 - q \in Nat /\ b * q = -2 * b - (-2 - q) * b
    BY <1>4
  <2>2. (-2 - q) * b \in Nat
    BY <2>1, ProductMonotone
  <2> QED
    BY <1>2, <2>1, <2>2
<1>5. CASE q = 1
  BY <1>2, <1>5
<1>6. CASE q = 0
  BY <1>2, <1>6
<1>7. CASE q = -1
  BY <1>2, <1>7
<1> QED
  BY <1>2, <1>3, <1>4, <1>5, <1>6, <1>7

(* Where the bounds of the comparison do not wrap around it is exact, and  *)
(* where they do it is stricter.                                           *)
LEMMA CloseEnough ==
  ASSUME NEW kind \in Kinds, NEW e \in Number, NEW a \in Number, NEW t \in Number
  PROVE  /\ AreClose(kind, e, a, t) => Distance(e, a) <= t
         /\ Distance(e, a) <= t /\ ~(kind = "unsigned" /\ (e < t \/ e + t >= WordMod))
              => AreClose(kind, e, a, t)
         /\ t = 0 => (AreClose(kind, e, a, t) <=> e = a)
<1> DEFINE b == WordMod
<1>1. b \in Nat \ {0} /\ e \in 0 .. b - 1 /\ a \in 0 .. b - 1 /\ t \in 0 .. b - 1
  BY ChecksAssumption DEF Number
<1> HIDE DEF b
<1>2. CASE kind = "exact"
  <2>1. AreClose(kind, e, a, t) <=> a >= e - t /\ a <= e + t
    BY <1>2 DEF AreClose, In
  <2> QED
    BY <1>1, <1>2, <2>1 DEF Distance
<1>3. CASE kind = "unsigned"
  <2>1. AreClose(kind, e, a, t) <=> a >= (e - t) % b /\ a <= (e + t) % b
    BY <1>3 DEF AreClose, In, b
  <2>2. PICK l : l = (e - t) % b
    OBVIOUS
  <2>3. PICK h : h = (e + t) % b
    OBVIOUS
  <2>4. /\ e - t < 0 => l = (e - t) + b
        /\ 0 <= e - t => l = e - t
    <3>1. PICK n \in Int : n = e - t /\ -b <= n /\ n < b + b /\ n < b
      BY <1>1
    <3>2. (n < 0 => n % b = n + b) /\ (0 <= n /\ n < b => n % b = n)
      BY <1>1, <3>1, Wrapped
    <3> QED
      BY <2>2, <3>1, <3>2
  <2>5. /\ e + t < b => h = e + t
        /\ b <= e + t => h = (e + t) - b
    <3>1. PICK n \in Int : n = e + t /\ -b <= n /\ n < b + b /\ 0 <= n
      BY <1>1
    <3>2. (0 <= n /\ n < b => n % b = n) /\ (b <= n => n % b = n - b)
      BY <1>1, <3>1, Wrapped
    <3> QED
      BY <2>3, <3>1, <3>2
  <2>6. AreClose(kind, e, a, t) <=> a >= l /\ a <= h
    BY <2>1, <2>2, <2>3
  <2> QED
    BY <1>1, <1>3, <2>4, <2>5, <2>6 DEF Distance, b
<1> QED
  BY <1>2, <1>3 DEF Kinds

ArgumentsInv == arguments # NULL => arguments \in Arguments

LEMMA ArgumentsInvNext ==
  ASSUME ArgumentsInv, [Next]_unitTestVars
  PROVE  ArgumentsInv'
  BY DEF Next, Run, unitTestVars, ArgumentsInv

(* A check of closeness never passes what is not close, for every word     *)
(* size, also where unsigned bounds wrap around.                           *)
THEOREM ClosenessIsChecked == Spec => []ClosePassesOnlyWhatIsClose
<1>1. Init => ArgumentsInv
  BY DEF Init, ArgumentsInv
<1>2. ArgumentsInv => ClosePassesOnlyWhatIsClose
  <2> SUFFICES ASSUME arguments # NULL, arguments \in Arguments
               PROVE  ClosePassesOnlyWhatIsClose
    BY DEF ArgumentsInv, ClosePassesOnlyWhatIsClose
  <2>1. PICK kind \in Kinds, x \in Array2D, y \in Array2D, t \in Number \cup {Throws} :
          kind = arguments.kind /\ x = arguments.expected /\ y = arguments.actual
            /\ t = arguments.tolerance
    BY DEF Arguments
  <2> DEFINE passes == ~CHECK_ARRAY2D_CLOSE(kind, x, y, 2, 1, t)
             close == \A i \in 0 .. 1 : Distance(x[i][0], y[i][0]) <= t
             wraps == kind = "unsigned" /\ \E i \in 0 .. 1 :
                        x[i][0] < t \/ x[i][0] + t >= WordMod
             equal == \A i \in 0 .. 1 : ~CHECK_ARRAY_EQUAL(x[i], y[i], 1)
  <2>2. \A i \in 0 .. 1 : /\ x[i] \in [{0} -> Number] /\ y[i] \in [{0} -> Number]
                          /\ x[i][0] \in Number /\ y[i][0] \in Number
    BY DEF Array2D
  <2>3. CASE t = Throws
    <3>1. ~passes
      BY <2>3 DEF CHECK_ARRAY2D_CLOSE
    <3> QED
      BY <2>1, <2>3, <3>1 DEF ClosePassesOnlyWhatIsClose
  <2>4. CASE t # Throws
    <3>1. t \in Number /\ Throws \notin {x, y, 2, 1, t}
      BY <2>1, <2>4, ArgumentsAssumption, ChecksAssumption
    <3>2. passes <=> \A i \in 0 .. 1 : AreClose(kind, x[i][0], y[i][0], t)
      <4>1. /\ 0 .. 2 - 1 = 0 .. 1
            /\ 0 .. 1 - 1 = {0}
        OBVIOUS
      <4> QED
        BY <3>1, <4>1 DEF CHECK_ARRAY2D_CLOSE, CheckArray2DClose, ArrayAreClose
    <3>3. equal <=> \A i \in 0 .. 1 : x[i][0] = y[i][0]
      <4>1. 0 .. 1 - 1 = {0}
        OBVIOUS
      <4>2. \A i \in 0 .. 1 : Throws \notin {x[i], y[i], 1}
        BY <2>2, ArgumentsAssumption, ChecksAssumption
      <4> QED
        BY <4>1, <4>2 DEF CHECK_ARRAY_EQUAL, CheckArrayEqual
    <3>4. ASSUME NEW i \in 0 .. 1
          PROVE  /\ AreClose(kind, x[i][0], y[i][0], t) => Distance(x[i][0], y[i][0]) <= t
                 /\ Distance(x[i][0], y[i][0]) <= t
                      /\ ~(kind = "unsigned" /\ (x[i][0] < t \/ x[i][0] + t >= WordMod))
                      => AreClose(kind, x[i][0], y[i][0], t)
                 /\ t = 0 => (AreClose(kind, x[i][0], y[i][0], t) <=> x[i][0] = y[i][0])
      BY <2>1, <2>2, <3>1, CloseEnough
    <3>5. passes => close
      BY <3>2, <3>4
    <3>6. close /\ ~wraps => passes
      BY <3>2, <3>4
    <3>7. t = 0 => (passes <=> equal)
      BY <3>2, <3>3, <3>4
    <3> QED
      BY <2>1, <2>4, <3>5, <3>6, <3>7 DEF ClosePassesOnlyWhatIsClose
  <2> QED
    BY <2>3, <2>4
<1> QED
  BY <1>1, <1>2, ArgumentsInvNext, PTL DEF Spec
=============================================================================
