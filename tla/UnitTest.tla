------------------------------ MODULE UnitTest ------------------------------
(***************************************************************************)
(* UnitTest++ for TLC: the runner, a text stream, a timer and the checks   *)
(* with their arguments.  The last three keep no state between the uses    *)
(* the runner makes of them, so a behaviour moves only one of the four,    *)
(* its subject.                                                            *)
(***************************************************************************)
EXTENDS TestRunner, MemoryOutStream, TimeHelpers

VARIABLES
  subject,
  arguments    (* of a check of two rows of one number, or NULL            *)

(* Every test has a suite of its own. *)
OneSuiteEach == [t \in Tests |-> t]

Number == 0 .. WordMod - 1
Array2D == [0 .. 1 -> [{0} -> Number]]
Arguments ==
  [kind : Kinds, expected : Array2D, actual : Array2D, tolerance : Number \cup {Throws}]

(* An argument that throws is not an array. *)
ASSUME ArgumentsAssumption == Throws \notin Array2D \cup [{0} -> Number]

Init ==
  /\ subject \in {"runner", "stream", "timer", "checks"}
  /\ RunnerInit /\ StreamInit /\ arguments = NULL
  /\ IF subject = "timer" THEN TimerInit
     ELSE clock = [tv_sec |-> 0, tv_usec |-> 0] /\ m_startTime = clock

Run == subject = "runner" /\ RunStep /\ UNCHANGED <<subject, streamVars, timerVars, arguments>>

Next ==
  \/ Run
  \/ /\ subject = "runner"
     /\ \/ \E test \in Tests : Add(test)
        \/ \E opts \in Options : RunAllTestsIf(opts)
     /\ UNCHANGED <<subject, streamVars, timerVars, arguments>>
  \/ /\ subject = "stream" /\ StreamNext
     /\ UNCHANGED <<subject, runnerVars, timerVars, arguments>>
  \/ /\ subject = "timer" /\ TimerNext
     /\ UNCHANGED <<subject, runnerVars, streamVars, arguments>>
  \/ /\ subject = "checks" /\ arguments = NULL /\ arguments' \in Arguments
     /\ UNCHANGED <<subject, runnerVars, streamVars, timerVars>>

unitTestVars == <<subject, runnerVars, streamVars, timerVars, arguments>>

(* A single-threaded run goes on until it ends. *)
Spec == Init /\ [][Next]_unitTestVars /\ WF_unitTestVars(Run)

-----------------------------------------------------------------------------
Distance(m, n) == IF m < n THEN n - m ELSE m - n

(* CHECK_ARRAY2D_CLOSE passes only if every element is within the          *)
(* tolerance, also where the bounds of an unsigned comparison wrap around; *)
(* only if one does can it fail elements that are.  With tolerance 0 it    *)
(* agrees with CHECK_ARRAY_EQUAL of every row.                             *)
ClosePassesOnlyWhatIsClose ==
  arguments # NULL =>
    LET a == arguments
        passes == ~CHECK_ARRAY2D_CLOSE(a.kind, a.expected, a.actual, 2, 1, a.tolerance)
        close == \A i \in 0 .. 1 : Distance(a.expected[i][0], a.actual[i][0]) <= a.tolerance
        wraps == a.kind = "unsigned" /\ \E i \in 0 .. 1 :
                   \/ a.expected[i][0] < a.tolerance
                   \/ a.expected[i][0] + a.tolerance >= WordMod
    IN  IF a.tolerance = Throws THEN ~passes
        ELSE /\ passes => close
             /\ close /\ ~wraps => passes
             /\ a.tolerance = 0 =>
                  (passes <=> \A i \in 0 .. 1 : ~CHECK_ARRAY_EQUAL(a.expected[i], a.actual[i], 1))
=============================================================================
