---------------------------- MODULE TimeHelpers ----------------------------
(***************************************************************************)
(* The Timer of UnitTest++ on POSIX: the milliseconds from Start to now,   *)
(* read from gettimeofday in seconds and microseconds.                     *)
(***************************************************************************)
EXTENDS Integers

CONSTANTS
  MsPerSec,     (* 1000                                                    *)
  UsPerMs,      (* 1000                                                    *)
  MaxSec        (* bound: the seconds of a reading                         *)

ASSUME TimeAssumption ==
  MsPerSec \in Nat \ {0} /\ UsPerMs \in Nat \ {0} /\ MaxSec \in Nat

VARIABLES
  clock,        (* what gettimeofday returns                               *)
  m_startTime

timerVars == <<clock, m_startTime>>

UsPerSec == MsPerSec * UsPerMs
Reading == [tv_sec : 0 .. MaxSec, tv_usec : 0 .. UsPerSec - 1]
Microseconds(r) == r.tv_sec * UsPerSec + r.tv_usec

(* Division of ints rounds towards zero. *)
Quotient(n, d) == IF n >= 0 THEN n \div d ELSE - ((- n) \div d)

(* Definitions named Bug... are what the one they precede could have been  *)
(* by mistake: the properties are tested against them.                     *)
BugTimeWithoutBorrow ==
  (clock.tv_sec - m_startTime.tv_sec) * MsPerSec
    + ((clock.tv_usec - m_startTime.tv_usec) % UsPerSec) \div UsPerMs

GetTimeInMs ==
  (clock.tv_sec - m_startTime.tv_sec) * MsPerSec
    + Quotient(clock.tv_usec - m_startTime.tv_usec, UsPerMs)

TimerInit == clock \in Reading /\ m_startTime = clock

StartTimer == m_startTime' = clock /\ UNCHANGED clock

TimePasses ==
  /\ clock' \in {r \in Reading : Microseconds(r) > Microseconds(clock)}
  /\ UNCHANGED m_startTime

TimerNext == StartTimer \/ TimePasses

-----------------------------------------------------------------------------
(* A timer is never off by a millisecond or more, also when the second     *)
(* changes; then it may round up, and otherwise it rounds down.            *)
TimerWithinAMillisecond ==
  LET elapsed == Microseconds(clock) - Microseconds(m_startTime)
  IN  /\ elapsed - UsPerMs < GetTimeInMs * UsPerMs
      /\ GetTimeInMs * UsPerMs < elapsed + UsPerMs
      /\ m_startTime.tv_usec <= clock.tv_usec => GetTimeInMs * UsPerMs <= elapsed
=============================================================================
