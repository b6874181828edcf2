-------------------------- MODULE TestRunnerProofs --------------------------
(***************************************************************************)
(* What the runner guarantees whatever the tests do: for every set of      *)
(* tests and fixtures, and any number of checks, time constraints and      *)
(* tests within a test.                                                    *)
(***************************************************************************)
EXTENDS TestRunner, Facts, FiniteSetTheorems, TLAPS

-----------------------------------------------------------------------------
(* The invariant. *)

(* The list.  A test that is not on it has no successor, so Add cannot     *)
(* bring others along.                                                     *)
RegistryInv ==
  /\ m_head \in Tests \cup {NULL} /\ m_tail \in Tests \cup {NULL}
  /\ next \in [Tests -> Tests \cup {NULL}]
  /\ m_head = NULL <=> m_tail = NULL
  /\ m_head = NULL => \A t \in Tests : next[t] = NULL
  /\ m_tail \in Listed \cup {NULL}
  /\ \A t \in Tests : next[t] = NULL <=> t = m_tail \/ t \notin Listed
  /\ curTest \in Listed \cup {NULL}

(* Where the program is.  No time constraint outlives the body that opened *)
(* it.                                                                     *)
BodyInv ==
  /\ options \in Options
  /\ pc \in {"main", "select", "exited", "aborted"} \cup InTest
  /\ pc \in InTest => curTest # NULL
  /\ exempt \in SUBSET (Tests \ Fixtures) /\ constraints \in 0 .. acts /\ acts \in 0 .. MaxActs
  /\ flying \in Exceptions \cup {NULL} /\ (pc = "unwind" <=> flying # NULL)
  /\ summary \in {"Success", "FAILURE", NULL}
  /\ exitStatus \in 0 .. ExitMod - 1 \cup {NULL}
  /\ pc \notin {"body", "unwind", "aborted"} => constraints = 0

(* The SignalTranslators: the outermost one has the application's actions, *)
(* but for those of SIGBUS and SIGILL, the others have the handler.        *)
Frame ==
  [m_oldJumpTarget : Nat, m_old_actions : [Signals \ {"SIGILL"} -> Signals \cup {"SignalHandler"}]]
Application ==
  /\ \A s \in Signals \ {"SIGBUS"} : action[s] = s
  /\ action["SIGBUS"] \in {"SIGBUS", "SIGILL"}
SignalInv ==
  /\ frames \in Seq(Frame)
  /\ action \in [Signals -> Signals \cup {"SignalHandler"}]
  /\ s_jumpTarget = Depth
  /\ \A k \in 1 .. Depth : frames[k].m_oldJumpTarget = k - 1
  /\ \A k \in 2 .. Depth, f \in Signals \ {"SIGILL"} : frames[k].m_old_actions[f] = "SignalHandler"
  /\ Depth > 0 => /\ \A f \in Signals \ {"SIGILL"} :
                       frames[1].m_old_actions[f] = IF f = "SIGBUS" THEN "SIGILL" ELSE f
                  /\ \A s \in Signals : action[s] = "SignalHandler"
  /\ Depth = 0 => Application
  /\ pc \in {"body", "unwind"} => Depth > 0
  /\ pc \notin {"body", "unwind", "aborted"} => Depth = 0

(* The reports.  m_currentTestFailed is about the last of them.            *)
Result ==
  [testName : Tests, failed : BOOLEAN, failures : Seq(Lines),
   failureFile : {"", "own", "other", "garbage"}]
Details ==
  [testName : Tests \cup {NULL}, filename : {"own", "other", "garbage"}, lineNumber : Lines]
Counters ==
  [m_totalTestCount : Nat, m_failedTestCount : Nat, m_failureCount : Nat,
   m_currentTestFailed : BOOLEAN]
ReportInv ==
  /\ results \in Counters /\ m_results \in Seq(Result) /\ printed \in Seq(Details)
  /\ m_results = <<>> => ~results.m_currentTestFailed
  /\ m_results # <<>> => (results.m_currentTestFailed <=> Last(m_results).failed)
  /\ CountsAgree

(* An exception that flies out of the body of the test has happened but is *)
(* not reported yet; one out of a test within it will not be.              *)
FailuresAt(lines) ==
  Cardinality({k \in DOMAIN Last(m_results).failures : Last(m_results).failures[k] \in lines})
Due(line) ==
  IF /\ flying # NULL /\ Depth = 1
     /\ line = (IF flying = "AssertException" THEN "assert" ELSE "TEST")
  THEN 1 ELSE 0
MishapInv ==
  /\ mishaps \in [Lines -> Nat]
  /\ pc \in InTest => m_results # <<>>
  /\ m_results # <<>> =>
       /\ \A l \in {"TEST", "CHECK", "assert"} : mishaps[l] = FailuresAt({l}) + Due(l)
       /\ mishaps["constraint"] = FailuresAt({"constraint", "garbage"})

RunnerInv == RegistryInv /\ BodyInv /\ SignalInv /\ ReportInv /\ MishapInv

-----------------------------------------------------------------------------
(* The list. *)

LEMMA RegistryFacts ==
  ASSUME RegistryInv
  PROVE  /\ Listed \subseteq Tests
         /\ m_head \in Listed \cup {NULL}
         /\ \A t \in Listed : next[t] \in Listed \cup {NULL}
  BY RunnerAssumption DEF RegistryInv, Listed

(* Add puts a test behind the last one. *)
LEMMA AddStep ==
  ASSUME RegistryInv, NEW test \in Tests, Add(test)
  PROVE  RegistryInv' /\ Listed' = Listed \cup {test}
<1>1. /\ test \notin Listed /\ m_tail' = test /\ test # NULL
      /\ IF m_tail = NULL THEN m_head' = test /\ next' = next
         ELSE next' = [next EXCEPT ![m_tail] = test] /\ m_head' = m_head
      /\ curTest' = curTest
  BY RunnerAssumption DEF Add, NewTail
<1>2. CASE m_tail = NULL
  <2>1. m_head = NULL /\ \A t \in Tests : next[t] = NULL
    BY <1>2 DEF RegistryInv
  <2>2. m_head' = test /\ next' = next
    BY <1>1, <1>2
  <2>3. Listed = {} /\ Listed' = {test}
    BY <2>1, <2>2, RunnerAssumption DEF Listed
  <2>4. curTest' \in Listed' \cup {NULL}
    BY <1>1, <2>3 DEF RegistryInv
  <2> QED
    BY <1>1, <2>1, <2>2, <2>3, <2>4 DEF RegistryInv
<1>3. CASE m_tail # NULL
  <2>1. /\ m_tail \in Listed /\ m_tail \in Tests /\ next[m_tail] = NULL /\ m_head # NULL
        /\ m_tail # test
    BY <1>1, <1>3 DEF RegistryInv
  <2>2. /\ next \in [Tests -> Tests \cup {NULL}]
        /\ next' = [next EXCEPT ![m_tail] = test] /\ m_head' = m_head
    BY <1>1, <1>3 DEF RegistryInv
  <2>3. /\ next' \in [Tests -> Tests \cup {NULL}]
        /\ next'[m_tail] = test
        /\ \A t \in Tests \ {m_tail} : next'[t] = next[t]
    BY <2>1, <2>2
  <2>4. Listed' = Listed \cup {test}
    <3>1. ASSUME NEW t \in Listed'
          PROVE  t \in Listed \cup {test}
      BY <2>2, <2>3 DEF Listed
    <3>2. ASSUME NEW t \in Listed
          PROVE  t \in Listed'
      BY <2>1, <2>2, <2>3, RunnerAssumption DEF Listed
    <3>3. test \in Listed'
      BY <2>1, <2>3 DEF Listed
    <3> QED
      BY <3>1, <3>2, <3>3
  <2>5. \A t \in Tests : next'[t] = NULL <=> t = test \/ t \notin Listed'
    <3>1. \A t \in Tests : next[t] = NULL <=> t = m_tail \/ t \notin Listed
      BY DEF RegistryInv
    <3> QED
      BY <1>1, <2>1, <2>3, <2>4, <3>1
  <2> QED
    BY <1>1, <2>1, <2>2, <2>3, <2>4, <2>5 DEF RegistryInv
<1> QED
  BY <1>2, <1>3

(* Most steps of a run leave the list and the place in it alone.           *)
StaysAtTest == UNCHANGED <<listVars, curTest>>

LEMMA Staying ==
  /\ RunTest \/ Finish \/ setupOk \/ teardownOk \/ fixtureThrows \/ checkFails \/ nestedTest
       \/ setExempt \/ openConstraint \/ bodyReturns \/ aborts \/ catchException
       \/ UNCHANGED runnerVars => StaysAtTest
  /\ \A late \in BOOLEAN : closeConstraint(late) => StaysAtTest
  /\ \A exception \in Exceptions : bodyThrows(exception) => StaysAtTest
  /\ \A s \in Signals : signalInTest(s) => StaysAtTest
<1>1. RunTest \/ Finish \/ setupOk \/ teardownOk \/ fixtureThrows \/ checkFails \/ nestedTest
        => StaysAtTest
  BY DEF RunTest, Finish, setupOk, teardownOk, fixtureThrows, checkFails, nestedTest,
         StaysAtTest, endVars
<1>2. setExempt \/ openConstraint \/ bodyReturns \/ aborts \/ catchException
        \/ UNCHANGED runnerVars => StaysAtTest
  BY DEF setExempt, openConstraint, bodyReturns, aborts, catchException, runnerVars, StaysAtTest
<1>3. /\ \A late \in BOOLEAN : closeConstraint(late) => StaysAtTest
      /\ \A exception \in Exceptions : bodyThrows(exception) => StaysAtTest
      /\ \A s \in Signals : signalInTest(s) => StaysAtTest
  BY DEF closeConstraint, bodyThrows, signalInTest, StaysAtTest
<1> QED
  BY <1>1, <1>2, <1>3

(* The others only go along the list. *)
LEMMA RegistryNext ==
  ASSUME RegistryInv, BodyInv, [RunnerNext]_runnerVars
  PROVE  RegistryInv'
<1>1. ASSUME NEW test \in Tests, Add(test)
      PROVE  RegistryInv'
  BY <1>1, AddStep
<1>2. ASSUME UNCHANGED listVars, curTest' \in Listed \cup {NULL}
      PROVE  RegistryInv'
  BY <1>2 DEF RegistryInv, listVars, Listed
<1>3. ASSUME NEW opts \in Options, RunAllTestsIf(opts)
      PROVE  RegistryInv'
  BY <1>2, <1>3, RegistryFacts DEF RunAllTestsIf
<1>4. CASE SkipTest
  BY <1>2, <1>4, RegistryFacts DEF SkipTest, RegistryInv
<1>5. ASSUME NEW late \in BOOLEAN, FinishTest(late)
      PROVE  RegistryInv'
  <2>1. UNCHANGED listVars /\ curTest' = next[curTest] /\ curTest # NULL
    BY <1>5 DEF FinishTest, BodyInv, InTest
  <2> QED
    BY <1>2, <2>1, RegistryFacts DEF RegistryInv
<1>6. ASSUME StaysAtTest
      PROVE  RegistryInv'
  BY <1>2, <1>6 DEF StaysAtTest, RegistryInv
<1> QED
  BY <1>1, <1>3, <1>4, <1>5, <1>6, Staying DEF RunnerNext, RunStep

-----------------------------------------------------------------------------
(* The way through a test. *)

LEMMA BodyNext ==
  ASSUME RegistryInv, BodyInv, SignalInv, ReportInv, [RunnerNext]_runnerVars
  PROVE  BodyInv'
<1>1. /\ NULL \notin Exceptions /\ MaxActs \in Nat /\ ExitMod \in Nat \ {0}
      /\ constraints \in 0 .. acts /\ acts \in 0 .. MaxActs
  BY RunnerAssumption DEF BodyInv
<1>2. Behind \in {"body", "teardown", "finish"} /\ (Behind # "body" => ~(Depth > 1))
  BY DEF Behind
<1>3. ASSUME NEW test \in Tests, Add(test)
      PROVE  BodyInv'
  BY <1>3 DEF Add, BodyInv, InTest, bodyVars, endVars
<1>4. ASSUME NEW opts \in Options, RunAllTestsIf(opts)
      PROVE  BodyInv'
  BY <1>4 DEF RunAllTestsIf, BodyInv, InTest, bodyVars, endVars
<1>5. CASE SkipTest
  BY <1>5 DEF SkipTest, BodyInv, InTest, bodyVars, endVars
<1>6. CASE RunTest
  BY <1>1, <1>6 DEF RunTest, BodyInv, InTest, endVars
<1>7. ASSUME NEW late \in BOOLEAN, FinishTest(late)
      PROVE  BodyInv'
  BY <1>7 DEF FinishTest, BodyInv, InTest, bodyVars, endVars
<1>8. CASE Finish
  <2>1. exitStatus' \in 0 .. ExitMod - 1
    BY <1>1, <1>8 DEF Finish, ReportInv, Counters
  <2>2. summary' \in {"Success", "FAILURE"}
    BY <1>8 DEF Finish, ReportSummary
  <2> QED
    BY <1>8, <2>1, <2>2 DEF Finish, BodyInv, InTest, bodyVars
<1>9. CASE setupOk
  BY <1>9 DEF setupOk, BodyInv, InTest, bodyVars, endVars
<1>10. CASE teardownOk
  BY <1>10 DEF teardownOk, BodyInv, InTest, bodyVars, endVars
<1>11. CASE fixtureThrows
  BY <1>11 DEF fixtureThrows, BodyInv, InTest, bodyVars, endVars
<1>12. CASE checkFails
  BY <1>1, <1>12 DEF checkFails, Acts, BodyInv, InTest, endVars
<1>13. CASE nestedTest
  BY <1>1, <1>13 DEF nestedTest, Acts, BodyInv, InTest, endVars
<1>14. CASE setExempt
  <2>1. curTest \in Tests
    BY <1>14, RegistryFacts DEF setExempt, RegistryInv, BodyInv, InTest
  <2> QED
    BY <1>14, <2>1 DEF setExempt, BodyInv, InTest, endVars
<1>15. CASE openConstraint
  BY <1>1, <1>15 DEF openConstraint, Acts, BodyInv, InTest, endVars
<1>16. ASSUME NEW late \in BOOLEAN, closeConstraint(late)
       PROVE  BodyInv'
  BY <1>1, <1>16 DEF closeConstraint, BodyInv, InTest, endVars
<1>17. CASE bodyReturns
  <2>1. Depth > 0 /\ Depth \in Nat
    BY <1>17 DEF bodyReturns, SignalInv, Depth
  <2> QED
    BY <1>1, <1>2, <1>17, <2>1 DEF bodyReturns, BodyInv, InTest, bodyVars, endVars
<1>18. ASSUME NEW exception \in Exceptions, bodyThrows(exception)
       PROVE  BodyInv'
  BY <1>1, <1>18 DEF bodyThrows, Flies, BodyInv, InTest, bodyVars, endVars
<1>19. ASSUME NEW s \in Signals, signalInTest(s)
       PROVE  BodyInv'
  <2>1. constraints' \in 0 .. acts
    BY <1>1, <1>19 DEF signalInTest
  <2>2. "other" \in Exceptions
    BY DEF Exceptions
  <2> QED
    BY <1>1, <1>19, <2>1, <2>2 DEF signalInTest, Flies, BodyInv, InTest, endVars
<1>20. CASE aborts
  BY <1>20 DEF aborts, BodyInv, InTest, bodyVars, endVars
<1>21. CASE catchException
  <2>1. Depth > 0 /\ Depth \in Nat
    BY <1>21 DEF catchException, SignalInv, Depth
  <2> QED
    BY <1>1, <1>2, <1>21, <2>1 DEF catchException, BodyInv, InTest, bodyVars, endVars
<1>22. CASE UNCHANGED runnerVars
  BY <1>22 DEF runnerVars, BodyInv, bodyVars, endVars
<1> QED
  BY <1>3, <1>4, <1>5, <1>6, <1>7, <1>8, <1>9, <1>10, <1>11, <1>12, <1>13, <1>14, <1>15, <1>16,
     <1>17, <1>18, <1>19, <1>20, <1>21, <1>22 DEF RunnerNext, RunStep

-----------------------------------------------------------------------------
(* The SignalTranslators. *)

LEMMA DepthType ==
  ASSUME SignalInv
  PROVE  /\ Depth \in Nat /\ frames \in Seq(Frame) /\ DOMAIN frames = 1 .. Depth
         /\ \A k \in 1 .. Depth : frames[k] \in Frame
  BY DEF SignalInv, Depth

(* One more: it saves what is in force.                                    *)
LEMMA TranslateStep ==
  ASSUME SignalInv, Translate, pc' = "body"
  PROVE  SignalInv' /\ Depth' = Depth + 1
<1> DEFINE f == [m_oldJumpTarget |-> s_jumpTarget, m_old_actions |-> SavedActions]
<1>1. /\ frames' = Append(frames, f) /\ s_jumpTarget' = Depth + 1
      /\ action' = [s \in Signals |-> "SignalHandler"]
  BY DEF Translate, Depth
<1>2. /\ Depth \in Nat /\ frames \in Seq(Frame) /\ s_jumpTarget = Depth
      /\ action \in [Signals -> Signals \cup {"SignalHandler"}]
      /\ \A k \in 1 .. Depth : frames[k].m_oldJumpTarget = k - 1
      /\ \A k \in 2 .. Depth, g \in Signals \ {"SIGILL"} :
           frames[k].m_old_actions[g] = "SignalHandler"
  BY DepthType DEF SignalInv
<1>3. SavedActions \in [Signals \ {"SIGILL"} -> Signals \cup {"SignalHandler"}]
  BY <1>2 DEF SavedActions, Signals
<1>4. f \in Frame /\ f.m_oldJumpTarget = Depth /\ f.m_old_actions = SavedActions
  BY <1>2, <1>3 DEF Frame
<1> HIDE DEF f
<1>5. /\ frames' \in Seq(Frame) /\ Depth' = Depth + 1
      /\ frames'[Depth + 1] = f
      /\ \A k \in 1 .. Depth : frames'[k] = frames[k]
  BY <1>1, <1>2, <1>4 DEF Depth
<1>6. Depth = 0 => \A g \in Signals \ {"SIGILL"} :
                     SavedActions[g] = IF g = "SIGBUS" THEN "SIGILL" ELSE g
  BY DEF SavedActions, SignalInv, Application, Signals
<1>7. Depth > 0 => \A g \in Signals \ {"SIGILL"} : SavedActions[g] = "SignalHandler"
  BY DEF SavedActions, SignalInv, Signals
<1>8. action' \in [Signals -> Signals \cup {"SignalHandler"}]
      /\ \A s \in Signals : action'[s] = "SignalHandler"
  BY <1>1
<1>9. \A k \in 1 .. Depth' : frames'[k].m_oldJumpTarget = k - 1
  <2>1. \A k \in 1 .. Depth + 1 : k \in 1 .. Depth \/ k = Depth + 1
    BY <1>2
  <2>2. \A k \in 1 .. Depth : frames'[k].m_oldJumpTarget = k - 1
    BY <1>2, <1>5
  <2>3. frames'[Depth + 1].m_oldJumpTarget = Depth /\ (Depth + 1) - 1 = Depth
    BY <1>2, <1>4, <1>5
  <2> QED
    BY <1>5, <2>1, <2>2, <2>3
<1>10. \A k \in 2 .. Depth', g \in Signals \ {"SIGILL"} :
         frames'[k].m_old_actions[g] = "SignalHandler"
  <2>1. \A k \in 2 .. Depth + 1 : (k \in 2 .. Depth /\ k \in 1 .. Depth) \/ (k = Depth + 1 /\ Depth > 0)
    BY <1>2
  <2> QED
    BY <1>2, <1>4, <1>5, <1>7, <2>1
<1>11. \A g \in Signals \ {"SIGILL"} :
         frames'[1].m_old_actions[g] = IF g = "SIGBUS" THEN "SIGILL" ELSE g
  <2>1. CASE Depth = 0
    BY <1>4, <1>5, <1>6, <2>1
  <2>2. CASE Depth > 0
    <3>1. frames'[1] = frames[1]
      BY <1>2, <1>5, <2>2
    <3> QED
      BY <2>2, <3>1 DEF SignalInv
  <2> QED
    BY <1>2, <2>1, <2>2
<1>12. Depth' # 0
  BY <1>2, <1>5
<1> QED
  <2>1. s_jumpTarget' = Depth'
    BY <1>1, <1>5
  <2>2. Depth' > 0
    BY <1>2, <1>5
  <2> QED
    BY <1>5, <1>8, <1>9, <1>10, <1>11, <1>12, <2>1, <2>2 DEF SignalInv

(* One less: it puts back what it saved.                                   *)
LEMMA RestoreStep ==
  ASSUME SignalInv, Restore, pc \in {"body", "unwind"}, pc' = Behind
  PROVE  SignalInv'
<1>1. /\ Depth \in Nat /\ Depth > 0 /\ frames \in Seq(Frame) /\ s_jumpTarget = Depth
      /\ \A k \in 1 .. Depth : frames[k] \in Frame /\ frames[k].m_oldJumpTarget = k - 1
      /\ \A k \in 2 .. Depth, g \in Signals \ {"SIGILL"} :
           frames[k].m_old_actions[g] = "SignalHandler"
      /\ \A g \in Signals \ {"SIGILL"} :
           frames[1].m_old_actions[g] = IF g = "SIGBUS" THEN "SIGILL" ELSE g
  BY DepthType DEF SignalInv
<1>2. /\ frames' = SubSeq(frames, 1, Depth - 1) /\ s_jumpTarget' = frames[Depth].m_oldJumpTarget
      /\ action' = [s \in Signals |-> frames[Depth].m_old_actions[Field(s)]]
  BY DEF Restore
<1>3. /\ frames' \in Seq(Frame) /\ Depth' = Depth - 1
      /\ \A k \in 1 .. Depth - 1 : frames'[k] = frames[k]
  BY <1>1, <1>2 DEF Depth
<1>4. s_jumpTarget' = Depth - 1
  BY <1>1, <1>2
<1>5. \A s \in Signals : Field(s) \in Signals \ {"SIGILL"}
  BY DEF Field, Signals
<1>6. action' \in [Signals -> Signals \cup {"SignalHandler"}]
  <2>1. frames[Depth] \in Frame
    BY <1>1
  <2>2. frames[Depth].m_old_actions \in [Signals \ {"SIGILL"} -> Signals \cup {"SignalHandler"}]
    BY <2>1 DEF Frame
  <2> QED
    BY <1>2, <1>5, <2>2
<1>7. /\ \A k \in 1 .. Depth' : frames'[k].m_oldJumpTarget = k - 1
      /\ \A k \in 2 .. Depth', g \in Signals \ {"SIGILL"} :
           frames'[k].m_old_actions[g] = "SignalHandler"
  <2>1. \A k \in 1 .. Depth - 1 : k \in 1 .. Depth
    BY <1>1
  <2>2. \A k \in 2 .. Depth - 1 : k \in 2 .. Depth /\ k \in 1 .. Depth - 1
    BY <1>1
  <2> QED
    BY <1>1, <1>3, <2>1, <2>2
<1>8. CASE Depth = 1
  <2>1. \A s \in Signals : action'[s] = IF Field(s) = "SIGBUS" THEN "SIGILL" ELSE Field(s)
    BY <1>1, <1>2, <1>5, <1>8
  <2>2. Application'
    BY <2>1 DEF Application, Field, Signals
  <2>3. pc' \notin {"body", "unwind"}
    BY <1>8 DEF Behind
  <2>4. Depth' = 0
    BY <1>3, <1>8
  <2> QED
    BY <1>3, <1>4, <1>6, <1>7, <1>8, <2>2, <2>3, <2>4 DEF SignalInv
<1>9. CASE Depth > 1
  <2>1. \A s \in Signals : action'[s] = "SignalHandler"
    <3>1. Depth \in 2 .. Depth
      BY <1>1, <1>9
    <3> QED
      BY <1>1, <1>2, <1>5, <3>1
  <2>2. /\ Depth' > 0 /\ Depth' # 0
        /\ \A g \in Signals \ {"SIGILL"} :
             frames'[1].m_old_actions[g] = IF g = "SIGBUS" THEN "SIGILL" ELSE g
    BY <1>1, <1>3, <1>9
  <2>3. pc' = "body"
    BY <1>9 DEF Behind
  <2> QED
    BY <1>3, <1>4, <1>6, <1>7, <2>1, <2>2, <2>3 DEF SignalInv
<1> QED
  BY <1>1, <1>8, <1>9

(* A step that installs and restores nothing.                              *)
LEMMA NoTranslator ==
  ASSUME SignalInv, UNCHANGED signalVars,
         \/ pc' = pc
         \/ pc' = "aborted"
         \/ pc \in {"body", "unwind"} /\ pc' \in {"body", "unwind"}
         \/ pc \notin {"body", "unwind", "aborted"} /\ pc' \notin {"body", "unwind"}
  PROVE  SignalInv'
<1>1. frames' = frames /\ s_jumpTarget' = s_jumpTarget /\ action' = action /\ Depth' = Depth
  BY DEF signalVars, Depth
<1> QED
  BY <1>1 DEF SignalInv, Application

LEMMA SignalNext ==
  ASSUME BodyInv, SignalInv, [RunnerNext]_runnerVars
  PROVE  SignalInv'
<1>1. ASSUME NEW test \in Tests, Add(test)
      PROVE  SignalInv'
  BY <1>1, NoTranslator DEF Add
<1>2. ASSUME NEW opts \in Options, RunAllTestsIf(opts)
      PROVE  SignalInv'
  BY <1>2, NoTranslator DEF RunAllTestsIf
<1>3. CASE SkipTest \/ Finish \/ teardownOk \/ fixtureThrows
  BY <1>3, NoTranslator DEF SkipTest, Finish, teardownOk, fixtureThrows, bodyVars
<1>4. ASSUME NEW late \in BOOLEAN, FinishTest(late)
      PROVE  SignalInv'
  BY <1>4, NoTranslator DEF FinishTest
<1>5. CASE RunTest
  <2>1. CASE curTest \in Fixtures
    BY <1>5, <2>1, NoTranslator DEF RunTest
  <2>2. CASE curTest \notin Fixtures
    BY <1>5, <2>2, TranslateStep DEF RunTest
  <2> QED
    BY <2>1, <2>2
<1>6. CASE setupOk
  BY <1>6, TranslateStep DEF setupOk
<1>7. CASE nestedTest
  BY <1>7, TranslateStep DEF nestedTest, Acts
<1>8. CASE checkFails \/ setExempt \/ openConstraint \/ aborts
  BY <1>8, NoTranslator DEF checkFails, setExempt, openConstraint, aborts, Acts
<1>9. ASSUME NEW late \in BOOLEAN, closeConstraint(late)
      PROVE  SignalInv'
  BY <1>9, NoTranslator DEF closeConstraint
<1>10. CASE bodyReturns
  BY <1>10, RestoreStep DEF bodyReturns
<1>11. ASSUME NEW exception \in Exceptions, bodyThrows(exception)
       PROVE  SignalInv'
  BY <1>11, NoTranslator DEF bodyThrows, Flies
<1>12. ASSUME NEW s \in Signals, signalInTest(s)
       PROVE  SignalInv'
  <2>1. s_jumpTarget = Depth /\ frames \in Seq(Frame) /\ Depth = Len(frames)
    BY DEF SignalInv, Depth
  <2>2. SubSeq(frames, 1, Len(frames)) = frames
    BY <2>1
  <2>3. UNCHANGED signalVars /\ pc = "body" /\ pc' = "unwind"
    BY <1>12, <2>1, <2>2 DEF signalInTest, Flies, signalVars
  <2> QED
    BY <2>3, NoTranslator
<1>13. CASE catchException
  BY <1>13, RestoreStep DEF catchException
<1>14. CASE UNCHANGED runnerVars
  BY <1>14, NoTranslator DEF runnerVars
<1> QED
  BY <1>1, <1>2, <1>3, <1>4, <1>5, <1>6, <1>7, <1>8, <1>9, <1>10, <1>11, <1>12, <1>13, <1>14
     DEF RunnerNext, RunStep

-----------------------------------------------------------------------------
(* The reports. *)

FailedTests == {k \in DOMAIN m_results : m_results[k].failed}

LEMMA ReportFacts ==
  ASSUME ReportInv
  PROVE  /\ Len(m_results) \in Nat /\ DOMAIN m_results = 1 .. Len(m_results)
         /\ \A k \in DOMAIN m_results : m_results[k] \in Result
         /\ m_results # <<>> => Len(m_results) \in DOMAIN m_results
         /\ IsFiniteSet(FailedTests) /\ Cardinality(FailedTests) \in Nat
         /\ results.m_failedTestCount = Cardinality(FailedTests)
<1>1. /\ m_results \in Seq(Result)
      /\ results.m_failedTestCount = Cardinality(FailedTests)
  BY DEF ReportInv, CountsAgree, FailedTests
<1>2. /\ Len(m_results) \in Nat /\ DOMAIN m_results = 1 .. Len(m_results)
      /\ \A k \in DOMAIN m_results : m_results[k] \in Result
      /\ m_results # <<>> => Len(m_results) \in DOMAIN m_results
  BY <1>1
<1>3. IsFiniteSet(DOMAIN m_results)
  BY <1>2, FS_Interval
<1>4. IsFiniteSet(FailedTests)
  BY <1>3, FS_Subset DEF FailedTests
<1> QED
  BY <1>1, <1>2, <1>4, FS_CardinalityType

(* Another test has started. *)
LEMMA StartReported ==
  ASSUME ReportInv, NEW test \in Tests, OnTestStart(test)
  PROVE  /\ ReportInv' /\ m_results' # <<>>
         /\ Last(m_results)'.failures = <<>>
<1> DEFINE r == DeferredTestResult(test)
           n == Len(m_results)
<1>1. /\ r \in Result /\ r.failures = <<>> /\ r.failed = FALSE
  BY DEF DeferredTestResult, Result
<1>2. /\ m_results' = Append(m_results, r) /\ printed' = printed
      /\ results' = [results EXCEPT !.m_totalTestCount = @ + 1, !.m_currentTestFailed = FALSE]
  BY DEF OnTestStart
<1>3. /\ results \in Counters /\ m_results \in Seq(Result) /\ printed \in Seq(Details)
      /\ results.m_totalTestCount = n /\ results.m_failureCount = Len(printed)
      /\ \A k \in DOMAIN m_results : m_results[k].failed <=> m_results[k].failures # <<>>
  BY DEF ReportInv, CountsAgree
<1> HIDE DEF r
<1>4. /\ m_results' \in Seq(Result) /\ m_results' # <<>>
      /\ n \in Nat /\ Len(m_results') = n + 1
      /\ DOMAIN m_results = 1 .. n /\ DOMAIN m_results' = 1 .. n + 1
      /\ \A k \in DOMAIN m_results : m_results'[k] = m_results[k]
      /\ m_results'[n + 1] = r
  BY <1>1, <1>2, <1>3, AppendKeeps
<1>5. /\ results' \in Counters
      /\ results'.m_totalTestCount = results.m_totalTestCount + 1
      /\ results'.m_failedTestCount = results.m_failedTestCount
      /\ results'.m_failureCount = results.m_failureCount
      /\ results'.m_currentTestFailed = FALSE
  <2>1. PICK x \in Nat : x = results.m_totalTestCount + 1
    BY <1>3 DEF Counters
  <2>2. PICK y \in Nat : y = results.m_failureCount
    BY <1>3 DEF Counters
  <2>3. PICK z \in Nat : z = results.m_failedTestCount
    BY <1>3 DEF Counters
  <2>4. results' = [results EXCEPT !.m_totalTestCount = x, !.m_failureCount = y,
                                   !.m_failedTestCount = z, !.m_currentTestFailed = FALSE]
    BY <1>2, <1>3, <2>1, <2>2, <2>3 DEF Counters
  <2> QED
    BY <1>3, <2>1, <2>2, <2>3, <2>4 DEF Counters
<1>6. ~results'.m_currentTestFailed
  BY <1>5
<1>7. Last(m_results)' = r
  BY <1>4 DEF Last
<1> HIDE DEF n
<1>8. DOMAIN m_results' = DOMAIN m_results \cup {n + 1} /\ n + 1 \notin DOMAIN m_results
  BY <1>4
<1>9. FailedTests' = FailedTests
  BY <1>1, <1>4, <1>8 DEF FailedTests
<1>10. \A k \in DOMAIN m_results' : m_results'[k].failed <=> m_results'[k].failures # <<>>
  <2>1. r.failed <=> r.failures # <<>>
    BY <1>1
  <2> QED
    BY <1>3, <1>4, <1>8, <2>1
<1>11. CountsAgree'
  <2>1. results'.m_failedTestCount = Cardinality(FailedTests')
    BY <1>5, <1>9, ReportFacts
  <2>2. results'.m_totalTestCount = Len(m_results') /\ results'.m_failureCount = Len(printed')
    BY <1>2, <1>3, <1>4, <1>5 DEF n
  <2> QED
    BY <1>10, <2>1, <2>2 DEF CountsAgree, FailedTests
<1>12. Last(m_results)'.failed = FALSE
  BY <1>1, <1>7
<1>13. results'.m_currentTestFailed <=> Last(m_results)'.failed
  BY <1>6, <1>12
<1>14. m_results' # <<>> /\ printed' \in Seq(Details)
  BY <1>2, <1>3, <1>4
<1> QED
  BY <1>1, <1>4, <1>5, <1>7, <1>11, <1>13, <1>14 DEF ReportInv

LEMMA FailureRecorded ==
  ASSUME NEW r \in Result, NEW details \in Details
  PROVE  LET w == WithFailure(r, details)
         IN  /\ w \in Result /\ w.failed = TRUE
             /\ w.failures = Append(r.failures, details.lineNumber) /\ w.failures # <<>>
             /\ w.testName = r.testName /\ w.failureFile = details.filename
<1>1. /\ r.failures \in Seq(Lines) /\ details.lineNumber \in Lines
      /\ details.filename \in {"own", "other", "garbage"}
  BY DEF Result, Details
<1>2. /\ Append(r.failures, details.lineNumber) \in Seq(Lines)
      /\ Append(r.failures, details.lineNumber) # <<>>
  BY <1>1, AppendKeeps
<1>3. PICK w : w = WithFailure(r, details)
  OBVIOUS
<1>4. w = [r EXCEPT !.failed = TRUE, !.failures = Append(r.failures, details.lineNumber),
                    !.failureFile = details.filename]
  BY <1>3 DEF WithFailure, Result
<1>5. /\ w \in Result /\ w.failures = Append(r.failures, details.lineNumber)
      /\ w.testName = r.testName /\ w.failureFile = details.filename
  BY <1>1, <1>2, <1>4 DEF Result
<1>6. w.failed = TRUE
  BY <1>4 DEF Result
<1> QED
  BY <1>2, <1>3, <1>5, <1>6

(* A failure of the current test: it is the last of its failures.          *)
LEMMA FailureReported ==
  ASSUME ReportInv, m_results # <<>>, NEW details \in Details, OnTestFailure(details)
  PROVE  /\ ReportInv' /\ m_results' # <<>>
         /\ Last(m_results)'.failures = Append(Last(m_results).failures, details.lineNumber)
         /\ Last(m_results).failures \in Seq(Lines) /\ details.lineNumber \in Lines
<1> DEFINE n == Len(m_results)
           r == m_results[n]
           w == WithFailure(r, details)
<1>1. /\ results \in Counters /\ m_results \in Seq(Result) /\ printed \in Seq(Details)
      /\ results.m_totalTestCount = n /\ results.m_failureCount = Len(printed)
      /\ \A k \in DOMAIN m_results : m_results[k].failed <=> m_results[k].failures # <<>>
      /\ results.m_currentTestFailed <=> r.failed
  BY DEF ReportInv, CountsAgree, Last
<1>2. n \in Nat /\ DOMAIN m_results = 1 .. n /\ n \in DOMAIN m_results /\ r \in Result
  BY ReportFacts
<1>3. /\ m_results' = [m_results EXCEPT ![n] = w] /\ printed' = Append(printed, details)
      /\ results' = [results EXCEPT
           !.m_failureCount = @ + 1,
           !.m_failedTestCount = IF results.m_currentTestFailed THEN @ ELSE @ + 1,
           !.m_currentTestFailed = TRUE]
  BY DEF OnTestFailure, ReportFailure
<1>4. r.failures \in Seq(Lines) /\ details.lineNumber \in Lines
  BY <1>2 DEF Result, Details
<1>5. /\ w \in Result /\ w.failed = TRUE
      /\ w.failures = Append(r.failures, details.lineNumber) /\ w.failures # <<>>
  BY <1>2, FailureRecorded
<1> HIDE DEF w, r, n
<1>6. /\ m_results' \in Seq(Result) /\ Len(m_results') = n /\ DOMAIN m_results' = DOMAIN m_results
      /\ m_results'[n] = w
      /\ \A k \in DOMAIN m_results : k # n => m_results'[k] = m_results[k]
  BY <1>1, <1>2, <1>3, <1>5 DEF n
<1>7. /\ printed' \in Seq(Details) /\ Len(printed') = Len(printed) + 1 /\ Len(printed) \in Nat
  BY <1>1, <1>3, AppendKeeps
<1>8. PICK c \in Nat : c = IF results.m_currentTestFailed THEN results.m_failedTestCount
                           ELSE results.m_failedTestCount + 1
  BY <1>1 DEF Counters
<1>9. /\ results' \in Counters
       /\ results'.m_totalTestCount = results.m_totalTestCount
       /\ results'.m_failureCount = results.m_failureCount + 1
       /\ results'.m_failedTestCount = c
       /\ results'.m_currentTestFailed = TRUE
  <2>1. PICK x \in Nat : x = results.m_totalTestCount
    BY <1>1 DEF Counters
  <2>2. PICK y \in Nat : y = results.m_failureCount + 1
    BY <1>1 DEF Counters
  <2>3. results' = [results EXCEPT !.m_totalTestCount = x, !.m_failureCount = y,
                                   !.m_failedTestCount = c, !.m_currentTestFailed = TRUE]
    BY <1>1, <1>3, <1>8, <2>1, <2>2 DEF Counters
  <2> QED
    BY <1>1, <1>8, <2>1, <2>2, <2>3 DEF Counters
<1>10. Last(m_results)' = w /\ Last(m_results) = r
  BY <1>6 DEF Last, n, r
<1>11. FailedTests' = FailedTests \cup {n}
  BY <1>2, <1>5, <1>6 DEF FailedTests
<1>12. n \in FailedTests <=> results.m_currentTestFailed
  BY <1>1, <1>2 DEF FailedTests, r
<1>13. results'.m_failedTestCount = Cardinality(FailedTests')
  <2>1. /\ IsFiniteSet(FailedTests) /\ Cardinality(FailedTests) \in Nat
        /\ results.m_failedTestCount = Cardinality(FailedTests)
    BY ReportFacts
  <2>2. n \in FailedTests => FailedTests' = FailedTests
    BY <1>11
  <2>3. n \notin FailedTests => Cardinality(FailedTests') = Cardinality(FailedTests) + 1
    BY <1>11, <2>1, FS_AddElement
  <2> QED
    BY <1>8, <1>9, <1>12, <2>1, <2>2, <2>3
<1>14. \A k \in DOMAIN m_results' : m_results'[k].failed <=> m_results'[k].failures # <<>>
  <2>1. w.failed <=> w.failures # <<>>
    BY <1>5
  <2> QED
    BY <1>1, <1>6, <2>1
<1>15. CountsAgree'
  <2>1. results'.m_totalTestCount = Len(m_results') /\ results'.m_failureCount = Len(printed')
    BY <1>1, <1>6, <1>7, <1>9
  <2> QED
    BY <1>13, <1>14, <2>1 DEF CountsAgree, FailedTests
<1>16. Last(m_results)'.failed = TRUE
  BY <1>5, <1>10
<1>17. results'.m_currentTestFailed <=> Last(m_results)'.failed
  BY <1>9, <1>16
<1>18. m_results' # <<>>
  BY <1>2, <1>6
<1> QED
  BY <1>4, <1>5, <1>6, <1>7, <1>9, <1>10, <1>15, <1>17, <1>18 DEF ReportInv, r

(* What a step tells the reporters: that a test starts, that the one that  *)
(* runs has failed, or nothing.                                            *)
LEMMA NothingReported ==
  ASSUME ReportInv, UNCHANGED reportVars
  PROVE  ReportInv'
<1>1. results' = results /\ m_results' = m_results /\ printed' = printed
  BY DEF reportVars
<1> QED
  BY <1>1 DEF ReportInv, CountsAgree, Last

LEMMA DetailsType ==
  /\ Garbage \in Details
  /\ \A test \in Tests, line \in Lines : TestDetails(test, line) \in Details
  BY DEF Garbage, TestDetails, Details, Lines

LEMMA TestRuns ==
  ASSUME RegistryInv, BodyInv, MishapInv, pc \in InTest
  PROVE  curTest \in Tests /\ m_results # <<>>
  BY RegistryFacts DEF RegistryInv, BodyInv, MishapInv

ReportStep ==
  \/ UNCHANGED reportVars
  \/ pc = "select" /\ curTest \in Tests /\ OnTestStart(curTest)
  \/ \E details \in Details :
       /\ pc \in InTest /\ m_results # <<>>
       /\ \/ details.testName = curTest /\ details.lineNumber # "garbage"
          \/ details = Garbage /\ curTest \in MacroUsers
       /\ OnTestFailure(details)

LEMMA ReportSteps ==
  ASSUME RegistryInv, BodyInv, MishapInv, [RunnerNext]_runnerVars
  PROVE  ReportStep
<1>1. ASSUME UNCHANGED reportVars
      PROVE  ReportStep
  BY <1>1 DEF ReportStep
<1>2. ASSUME pc \in InTest, NEW line \in Lines \ {"garbage"},
             OnTestFailure(TestDetails(curTest, line))
      PROVE  ReportStep
  <2>1. curTest \in Tests /\ m_results # <<>>
    BY <1>2, TestRuns
  <2>2. /\ TestDetails(curTest, line) \in Details
        /\ TestDetails(curTest, line).testName = curTest
        /\ TestDetails(curTest, line).lineNumber # "garbage"
    BY <2>1, DetailsType DEF TestDetails
  <2> QED
    BY <1>2, <2>1, <2>2 DEF ReportStep
<1>3. CASE RunTest
  BY <1>3, RegistryFacts DEF RunTest, RegistryInv, ReportStep
<1>4. ASSUME NEW late \in BOOLEAN, FinishTest(late)
      PROVE  ReportStep
  <2>1. pc \in InTest /\ "TEST" \in Lines
    BY <1>4 DEF FinishTest, InTest, Lines
  <2>2. OnTestFailure(TestDetails(curTest, "TEST")) \/ UNCHANGED reportVars
    BY <1>4 DEF FinishTest
  <2> QED
    BY <1>1, <1>2, <2>1, <2>2
<1>5. CASE fixtureThrows \/ checkFails
  <2>1. pc \in InTest /\ "TEST" \in Lines /\ "CHECK" \in Lines
    BY <1>5 DEF fixtureThrows, checkFails, Acts, InTest, Lines
  <2>2. \E line \in {"TEST", "CHECK"} : OnTestFailure(TestDetails(curTest, line))
    BY <1>5 DEF fixtureThrows, checkFails
  <2> QED
    BY <1>2, <2>1, <2>2
<1>6. ASSUME NEW late \in BOOLEAN, closeConstraint(late)
      PROVE  ReportStep
  <2>1. pc \in InTest /\ "constraint" \in Lines
    BY <1>6 DEF closeConstraint, InTest, Lines
  <2>2. CASE late
    <3>1. PICK details \in ConstraintDetails(curTest) : OnTestFailure(details)
      BY <1>6, <2>2 DEF closeConstraint
    <3>2. CASE details = Garbage /\ curTest \in MacroUsers
      BY <2>1, <3>1, <3>2, TestRuns, DetailsType DEF ReportStep
    <3>3. CASE details = TestDetails(curTest, "constraint")
      BY <1>2, <2>1, <3>1, <3>3
    <3> QED
      BY <3>1, <3>2, <3>3 DEF ConstraintDetails
  <2>3. CASE ~late
    BY <1>1, <1>6, <2>3 DEF closeConstraint
  <2> QED
    BY <2>2, <2>3
<1>7. CASE catchException
  <2>1. pc \in InTest /\ "assert" \in Lines /\ "TEST" \in Lines
    BY <1>7 DEF catchException, InTest, Lines
  <2>2. \/ UNCHANGED reportVars
        \/ \E line \in {"assert", "TEST"} : OnTestFailure(TestDetails(curTest, line))
    BY <1>7 DEF catchException
  <2> QED
    BY <1>1, <1>2, <2>1, <2>2
<1>8. CASE SkipTest \/ Finish \/ setupOk \/ teardownOk \/ nestedTest \/ setExempt \/ openConstraint
             \/ bodyReturns \/ aborts \/ UNCHANGED runnerVars
  BY <1>1, <1>8 DEF SkipTest, Finish, setupOk, teardownOk, nestedTest, setExempt, openConstraint,
     bodyReturns, aborts, runnerVars
<1>9. ASSUME NEW test \in Tests, Add(test)
      PROVE  ReportStep
  BY <1>1, <1>9 DEF Add
<1>10. ASSUME NEW opts \in Options, RunAllTestsIf(opts)
       PROVE  ReportStep
  BY <1>1, <1>10 DEF RunAllTestsIf
<1>11. ASSUME NEW exception \in Exceptions, bodyThrows(exception)
       PROVE  ReportStep
  BY <1>1, <1>11 DEF bodyThrows
<1>12. ASSUME NEW s \in Signals, signalInTest(s)
       PROVE  ReportStep
  BY <1>1, <1>12 DEF signalInTest
<1> QED
  BY <1>3, <1>4, <1>5, <1>6, <1>7, <1>8, <1>9, <1>10, <1>11, <1>12 DEF RunnerNext, RunStep

LEMMA ReportNext ==
  ASSUME RegistryInv, BodyInv, ReportInv, MishapInv, [RunnerNext]_runnerVars
  PROVE  ReportInv'
<1>1. ReportStep
  BY ReportSteps
<1> QED
  BY <1>1, NothingReported, StartReported, FailureReported DEF ReportStep

-----------------------------------------------------------------------------
(* What went wrong and what was reported. *)

(* A failure is counted at its line, and at no other.                      *)
LEMMA FailureCounted ==
  ASSUME ReportInv, m_results # <<>>, NEW details \in Details, OnTestFailure(details), NEW lines
  PROVE  /\ FailuresAt(lines) \in Nat
         /\ details.lineNumber \in lines => FailuresAt(lines)' = FailuresAt(lines) + 1
         /\ details.lineNumber \notin lines => FailuresAt(lines)' = FailuresAt(lines)
<1>1. PICK s \in Seq(Lines), x \in Lines :
        s = Last(m_results).failures /\ x = details.lineNumber
    /\ Last(m_results)'.failures = Append(s, x)
  BY FailureReported
<1> DEFINE at(t) == {k \in DOMAIN t : t[k] \in lines}
<1>2. FailuresAt(lines) = Cardinality(at(s))
  BY <1>1 DEF FailuresAt
<1>3. FailuresAt(lines)' = Cardinality(at(Append(s, x)))
  <2>1. Last(m_results)' = Last(m_results')
    BY DEF Last
  <2> QED
    BY <1>1, <2>1 DEF FailuresAt
<1>4. /\ Cardinality(at(s)) \in Nat
      /\ x \in lines => Cardinality(at(Append(s, x))) = Cardinality(at(s)) + 1
      /\ x \notin lines => Cardinality(at(Append(s, x))) = Cardinality(at(s))
  BY AppendCounted
<1> QED
  BY <1>1, <1>2, <1>3, <1>4

LEMMA FailuresType ==
  ASSUME ReportInv, m_results # <<>>, NEW lines
  PROVE  FailuresAt(lines) \in Nat
<1>1. PICK s \in Seq(Lines) : s = Last(m_results).failures
  BY ReportFacts DEF Last, Result
<1>2. IsFiniteSet(DOMAIN s)
  BY FS_Interval
<1>3. IsFiniteSet({k \in DOMAIN s : s[k] \in lines})
  BY <1>2, FS_Subset
<1> QED
  BY <1>1, <1>3, FS_CardinalityType DEF FailuresAt

LEMMA FailuresUncounted ==
  ASSUME UNCHANGED reportVars, NEW lines
  PROVE  FailuresAt(lines)' = FailuresAt(lines)
  BY DEF FailuresAt, reportVars, Last

(* Nothing goes wrong and nothing is reported.                             *)
LEMMA NoMishap ==
  ASSUME MishapInv, UNCHANGED <<reportVars, mishaps>>,
         pc' \in InTest => pc \in InTest,
         \A l \in Lines : Due(l)' = Due(l)
  PROVE  MishapInv'
<1>1. m_results' = m_results /\ mishaps' = mishaps
  BY DEF reportVars
<1>2. \A l \in {"TEST", "CHECK", "assert"} :
        FailuresAt({l})' = FailuresAt({l}) /\ Due(l)' = Due(l)
  BY FailuresUncounted DEF Lines
<1>3. FailuresAt({"constraint", "garbage"})' = FailuresAt({"constraint", "garbage"})
  BY FailuresUncounted
<1> QED
  BY <1>1, <1>2, <1>3 DEF MishapInv

(* Only an exception in flight is due.                                     *)
LEMMA NothingDue ==
  ASSUME flying = NULL
  PROVE  \A l \in Lines : Due(l) = 0
  BY DEF Due

LEMMA DueUnchanged ==
  ASSUME flying' = flying, flying = NULL \/ UNCHANGED signalVars
  PROVE  \A l \in Lines : Due(l)' = Due(l)
  BY DEF Due, signalVars, Depth

(* Something goes wrong and is reported at once.                           *)
LEMMA MishapAtOnce ==
  ASSUME ReportInv, MishapInv, m_results # <<>>, flying' = flying,
         flying = NULL \/ UNCHANGED signalVars,
         NEW line \in {"TEST", "CHECK", "constraint"}, Mishap(line),
         NEW details \in Details, OnTestFailure(details),
         details.lineNumber = line \/ (line = "constraint" /\ details.lineNumber = "garbage")
  PROVE  MishapInv'
<1>1. m_results' # <<>>
  BY FailureReported
<1>2. /\ mishaps \in [Lines -> Nat] /\ mishaps' = [mishaps EXCEPT ![line] = @ + 1]
      /\ line \in Lines
  BY DEF MishapInv, Mishap, Lines
<1>3. /\ mishaps' \in [Lines -> Nat] /\ mishaps'[line] = mishaps[line] + 1
      /\ \A l \in Lines : mishaps[l] \in Nat /\ (l # line => mishaps'[l] = mishaps[l])
  BY <1>2
<1>4. \A l \in Lines : Due(l)' = Due(l) /\ Due(l) \in {0, 1}
  BY DueUnchanged DEF Due
<1>5. ASSUME NEW l \in {"TEST", "CHECK", "assert"}
      PROVE  mishaps'[l] = FailuresAt({l})' + Due(l)'
  <2>1. mishaps[l] = FailuresAt({l}) + Due(l) /\ l \in Lines
    BY <1>5 DEF MishapInv, Lines
  <2>2. /\ FailuresAt({l}) \in Nat
        /\ l = line => FailuresAt({l})' = FailuresAt({l}) + 1
        /\ l # line => FailuresAt({l})' = FailuresAt({l})
    BY <1>5, FailureCounted
  <2> HIDE DEF FailuresAt, Due
  <2>3. CASE l = line
    BY <1>3, <1>4, <2>1, <2>2, <2>3
  <2>4. CASE l # line
    BY <1>3, <1>4, <2>1, <2>2, <2>4
  <2> QED
    BY <2>3, <2>4
<1>6. mishaps'["constraint"] = FailuresAt({"constraint", "garbage"})'
  <2>1. mishaps["constraint"] = FailuresAt({"constraint", "garbage"}) /\ "constraint" \in Lines
    BY DEF MishapInv, Lines
  <2>2. /\ FailuresAt({"constraint", "garbage"}) \in Nat
        /\ line = "constraint" => FailuresAt({"constraint", "garbage"})'
                                    = FailuresAt({"constraint", "garbage"}) + 1
        /\ line # "constraint" => FailuresAt({"constraint", "garbage"})'
                                    = FailuresAt({"constraint", "garbage"})
    BY FailureCounted
  <2>3. CASE line = "constraint"
    BY <1>3, <2>1, <2>2, <2>3
  <2>4. CASE line # "constraint"
    BY <1>3, <2>1, <2>2, <2>4
  <2> QED
    BY <2>3, <2>4
<1> QED
  BY <1>1, <1>3, <1>5, <1>6 DEF MishapInv

(* An exception leaves the body of a test.                                 *)
LEMMA ExceptionFlies ==
  ASSUME BodyInv, SignalInv, ReportInv, MishapInv, NEW exception \in Exceptions, Flies(exception), pc = "body",
         Depth' = Depth, UNCHANGED reportVars
  PROVE  MishapInv'
<1> DEFINE where == IF exception = "AssertException" THEN "assert" ELSE "TEST"
<1>1. flying = NULL /\ flying' = exception /\ exception # NULL
  BY RunnerAssumption DEF BodyInv, Flies
<1>2. m_results' = m_results /\ m_results # <<>>
  BY DEF MishapInv, InTest, reportVars
<1>3. \A l \in Lines : Due(l) = 0
  BY <1>1, NothingDue
<1>4. /\ FailuresAt({"constraint", "garbage"})' = FailuresAt({"constraint", "garbage"})
      /\ \A l \in Lines : FailuresAt({l})' = FailuresAt({l})
  BY FailuresUncounted
<1>5. /\ \A l \in {"TEST", "CHECK", "assert"} :
           mishaps[l] = FailuresAt({l}) /\ FailuresAt({l}) \in Nat /\ l \in Lines
      /\ mishaps["constraint"] = FailuresAt({"constraint", "garbage"})
      /\ mishaps \in [Lines -> Nat] /\ "constraint" \in Lines
  <2>1. \A l \in {"TEST", "CHECK", "assert"} : mishaps[l] = FailuresAt({l}) + Due(l) /\ l \in Lines
    BY <1>2 DEF MishapInv, Lines
  <2>2. \A l \in {"TEST", "CHECK", "assert"} : Due(l) = 0 /\ FailuresAt({l}) \in Nat
    BY <1>2, <1>3, <2>1, FailuresType
  <2>3. ASSUME NEW l \in {"TEST", "CHECK", "assert"}
        PROVE  mishaps[l] = FailuresAt({l})
    <3>1. PICK n \in Nat : n = FailuresAt({l})
      BY <2>2
    <3>2. mishaps[l] = n + 0
      BY <2>1, <2>2, <3>1
    <3> QED
      BY <3>1, <3>2
  <2> QED
    BY <1>2, <2>1, <2>2, <2>3 DEF MishapInv, Lines
<1>6. CASE Depth = 1
  <2>1. mishaps' = [mishaps EXCEPT ![where] = @ + 1]
    BY <1>6 DEF Flies, Mishap
  <2>2. where \in {"TEST", "assert"} /\ where \in Lines /\ where # "constraint"
    BY DEF Lines
  <2>3. \A l \in Lines : Due(l)' = IF l = where THEN 1 ELSE 0
    BY <1>1, <1>6 DEF Due
  <2> HIDE DEF where
  <2>4. /\ mishaps' \in [Lines -> Nat] /\ mishaps'[where] = mishaps[where] + 1
        /\ \A l \in Lines : l # where => mishaps'[l] = mishaps[l]
    BY <1>5, <2>1, <2>2
  <2>5. ASSUME NEW l \in {"TEST", "CHECK", "assert"}
        PROVE  mishaps'[l] = FailuresAt({l})' + Due(l)'
    <3>1. CASE l = where
      BY <1>4, <1>5, <2>3, <2>4, <3>1
    <3>2. CASE l # where
      BY <1>4, <1>5, <2>3, <2>4, <3>2
    <3> QED
      BY <3>1, <3>2
  <2> QED
    BY <1>2, <1>4, <1>5, <2>2, <2>4, <2>5 DEF MishapInv
<1>7. CASE Depth > 1
  <2>1. mishaps' = mishaps
    BY <1>7 DEF Flies
  <2>2. \A l \in Lines : Due(l)' = 0
    BY <1>7, DepthType DEF Due
  <2>3. ASSUME NEW l \in {"TEST", "CHECK", "assert"}
        PROVE  mishaps'[l] = FailuresAt({l})' + Due(l)'
    <3>1. l \in Lines /\ mishaps'[l] = FailuresAt({l})
      BY <1>5, <2>1
    <3>2. PICK n \in Nat : n = FailuresAt({l})
      BY <1>5
    <3>3. FailuresAt({l})' = n /\ Due(l)' = 0 /\ mishaps'[l] = n
      BY <1>4, <2>2, <3>1, <3>2
    <3>4. n = n + 0
      OBVIOUS
    <3> QED
      BY <3>3, <3>4
  <2> QED
    BY <1>2, <1>4, <1>5, <2>1, <2>3 DEF MishapInv
<1> QED
  BY <1>6, <1>7, DepthType DEF SignalInv

(* The exception is caught: what was due has been reported, and what flew  *)
(* out of a test within the test never was.                                *)
LEMMA ExceptionCaught ==
  ASSUME RegistryInv, BodyInv, SignalInv, ReportInv, MishapInv, catchException
  PROVE  MishapInv'
<1> DEFINE where == IF flying = "AssertException" THEN "assert" ELSE "TEST"
<1>1. /\ flying \in Exceptions /\ flying # NULL /\ flying' = NULL
      /\ curTest \in Tests /\ m_results # <<>> /\ mishaps' = mishaps
      /\ Depth \in Nat /\ Depth > 0
  BY TestRuns, DepthType DEF catchException, BodyInv, SignalInv, InTest
<1>2. \A l \in Lines : Due(l)' = 0
  BY <1>1 DEF Due
<1>3. CASE Depth > 1
  <2>1. UNCHANGED <<reportVars, mishaps>>
    BY <1>3 DEF catchException
  <2>2. \A l \in Lines : Due(l) = 0
    BY <1>1, <1>3 DEF Due
  <2>3. pc \in InTest
    BY DEF catchException, InTest
  <2> QED
    BY <1>2, <2>1, <2>2, <2>3, NoMishap
<1>4. CASE Depth = 1
  <2>1. OnTestFailure(TestDetails(curTest, where))
    <3>1. PICK handler \in {"AssertException", "std::exception", "..."} :
            /\ Catches(handler, flying)
            /\ handler # "AssertException" => ~Catches("AssertException", flying)
            /\ OnTestFailure(
                 TestDetails(curTest, IF handler = "AssertException" THEN "assert" ELSE "TEST"))
      BY <1>4 DEF catchException
    <3>2. handler = "AssertException" <=> flying = "AssertException"
      BY <1>1, <3>1 DEF Catches, Exceptions
    <3> QED
      BY <3>1, <3>2
  <2>2. where \in {"TEST", "assert"} /\ where \in Lines /\ where # "constraint"
    BY DEF Lines
  <2>3. \A l \in Lines : Due(l) = IF l = where THEN 1 ELSE 0
    BY <1>1, <1>4 DEF Due
  <2> HIDE DEF where
  <2>4. PICK details \in Details : details.lineNumber = where /\ OnTestFailure(details)
    BY <1>1, <2>1, <2>2, DetailsType DEF TestDetails
  <2>5. m_results' # <<>>
    BY <1>1, <2>4, FailureReported
  <2>6. ASSUME NEW l \in {"TEST", "CHECK", "assert"}
        PROVE  mishaps'[l] = FailuresAt({l})' + Due(l)'
    <3>1. mishaps[l] = FailuresAt({l}) + Due(l) /\ l \in Lines
      BY <1>1 DEF MishapInv, Lines
    <3>2. /\ FailuresAt({l}) \in Nat
          /\ l = where => FailuresAt({l})' = FailuresAt({l}) + 1
          /\ l # where => FailuresAt({l})' = FailuresAt({l})
      BY <1>1, <2>4, FailureCounted
    <3>3. CASE l = where
      BY <1>1, <1>2, <2>3, <3>1, <3>2, <3>3
    <3>4. CASE l # where
      BY <1>1, <1>2, <2>3, <3>1, <3>2, <3>4
    <3> QED
      BY <3>3, <3>4
  <2>7. mishaps'["constraint"] = FailuresAt({"constraint", "garbage"})'
    <3>1. mishaps["constraint"] = FailuresAt({"constraint", "garbage"})
      BY <1>1 DEF MishapInv
    <3>2. where \notin {"constraint", "garbage"}
      BY <2>2
    <3> QED
      BY <1>1, <2>4, <3>1, <3>2, FailureCounted
  <2> QED
    BY <1>1, <2>5, <2>6, <2>7 DEF MishapInv
<1> QED
  BY <1>1, <1>3, <1>4

LEMMA MishapNext ==
  ASSUME RunnerInv, [RunnerNext]_runnerVars
  PROVE  MishapInv'
<1>1. RegistryInv /\ BodyInv /\ SignalInv /\ ReportInv /\ MishapInv
  BY DEF RunnerInv
<1>2. pc = "unwind" <=> flying # NULL
  BY <1>1 DEF BodyInv
(* Steps that nothing goes wrong in. *)
<1>3. ASSUME UNCHANGED <<reportVars, mishaps, flying>>, pc' \in InTest => pc \in InTest,
             pc # "unwind" \/ UNCHANGED signalVars
      PROVE  MishapInv'
  BY <1>1, <1>2, <1>3, DueUnchanged, NoMishap
<1>4. CASE setupOk \/ teardownOk \/ nestedTest \/ setExempt \/ openConstraint
  BY <1>3, <1>4 DEF setupOk, teardownOk, nestedTest, setExempt, openConstraint, Acts, InTest
<1>5. CASE SkipTest \/ Finish \/ bodyReturns \/ aborts
  BY <1>3, <1>5 DEF SkipTest, Finish, bodyReturns, aborts, InTest
<1>6. ASSUME NEW test \in Tests, Add(test)
      PROVE  MishapInv'
  BY <1>3, <1>6 DEF Add
<1>7. ASSUME NEW opts \in Options, RunAllTestsIf(opts)
      PROVE  MishapInv'
  BY <1>3, <1>7 DEF RunAllTestsIf, InTest
<1>8. CASE UNCHANGED runnerVars
  BY <1>3, <1>8 DEF runnerVars
(* A test starts: nothing has gone wrong in it yet. *)
<1>9. CASE RunTest
  <2>1. curTest \in Tests /\ OnTestStart(curTest) /\ flying' = flying /\ flying = NULL
    BY <1>1, <1>2, <1>9, RegistryFacts DEF RunTest, RegistryInv
  <2>2. m_results' # <<>> /\ Last(m_results)'.failures = <<>>
    BY <1>1, <2>1, StartReported
  <2>3. mishaps' = [l \in Lines |-> 0]
    BY <1>9 DEF RunTest
  <2>4. \A l \in Lines : Due(l)' = 0
    BY <2>1 DEF Due
  <2>5. ASSUME NEW lines
        PROVE  FailuresAt(lines)' = 0
    <3>1. Last(m_results)' = Last(m_results')
      BY DEF Last
    <3>2. {k \in DOMAIN Last(m_results').failures : Last(m_results').failures[k] \in lines} = {}
      BY <2>2, <3>1
    <3> QED
      BY <3>2, FS_EmptySet DEF FailuresAt
  <2>6. mishaps' \in [Lines -> Nat] /\ \A l \in Lines : mishaps'[l] = 0
    BY <2>3
  <2>7. ASSUME NEW l \in {"TEST", "CHECK", "assert"}
        PROVE  mishaps'[l] = FailuresAt({l})' + Due(l)'
    <3>1. l \in Lines
      BY DEF Lines
    <3>2. mishaps'[l] = 0 /\ FailuresAt({l})' = 0 /\ Due(l)' = 0
      BY <2>4, <2>5, <2>6, <3>1
    <3> QED
      BY <3>2
  <2>8. mishaps'["constraint"] = FailuresAt({"constraint", "garbage"})'
    BY <2>5, <2>6 DEF Lines
  <2> QED
    BY <2>2, <2>6, <2>7, <2>8 DEF MishapInv
(* What is reported at once. *)
<1>10. ASSUME pc \in InTest, flying' = flying, pc # "unwind" \/ UNCHANGED signalVars,
              NEW line \in {"TEST", "CHECK", "constraint"}, Mishap(line),
              OnTestFailure(TestDetails(curTest, line))
       PROVE  MishapInv'
  <2>1. curTest \in Tests /\ m_results # <<>> /\ line \in Lines
    BY <1>1, <1>10, TestRuns DEF Lines
  <2>2. PICK details \in Details : details.lineNumber = line /\ OnTestFailure(details)
    BY <1>10, <2>1, DetailsType DEF TestDetails
  <2> QED
    BY <1>1, <1>2, <1>10, <2>1, <2>2, MishapAtOnce
<1>11. ASSUME NEW late \in BOOLEAN, FinishTest(late)
       PROVE  MishapInv'
  <2>1. pc = "finish" /\ pc' = "select" /\ UNCHANGED <<flying, signalVars>>
    BY <1>11 DEF FinishTest
  <2>2. \/ OnTestFailure(TestDetails(curTest, "TEST")) /\ Mishap("TEST")
        \/ UNCHANGED <<reportVars, mishaps>>
    BY <1>11 DEF FinishTest
  <2> QED
    BY <1>3, <1>10, <2>1, <2>2 DEF InTest
<1>12. CASE fixtureThrows
  BY <1>10, <1>12 DEF fixtureThrows, InTest
<1>13. CASE checkFails
  BY <1>10, <1>13 DEF checkFails, Acts, InTest
<1>14. ASSUME NEW late \in BOOLEAN, closeConstraint(late)
       PROVE  MishapInv'
  <2>1. pc \in InTest /\ pc' = pc /\ UNCHANGED <<flying, signalVars>>
    BY <1>14 DEF closeConstraint, InTest
  <2>2. CASE late
    <3>1. PICK details \in {TestDetails(curTest, "constraint"), Garbage} : OnTestFailure(details)
      BY <1>14, <2>2 DEF closeConstraint, ConstraintDetails
    <3>2. Mishap("constraint")
      BY <1>14, <2>2 DEF closeConstraint
    <3>3. curTest \in Tests /\ m_results # <<>> /\ "constraint" \in Lines
      BY <1>1, <2>1, TestRuns DEF Lines
    <3>4. details \in Details
      BY <3>1, <3>3, DetailsType
    <3>5. details.lineNumber \in {"constraint", "garbage"}
      BY <3>1 DEF TestDetails, Garbage
    <3> QED
      BY <1>1, <2>1, <3>1, <3>2, <3>3, <3>4, <3>5, MishapAtOnce
  <2>3. CASE ~late
    BY <1>3, <1>14, <2>1, <2>3 DEF closeConstraint
  <2> QED
    BY <2>2, <2>3
(* What is reported once it has been caught. *)
<1>15. ASSUME NEW exception \in Exceptions, bodyThrows(exception)
       PROVE  MishapInv'
  BY <1>1, <1>15, ExceptionFlies DEF bodyThrows, signalVars, Depth
<1>16. ASSUME NEW s \in Signals, signalInTest(s)
       PROVE  MishapInv'
  <2>1. s_jumpTarget = Len(frames) /\ frames \in Seq(Frame)
    BY <1>1 DEF SignalInv, Depth
  <2>2. frames' = frames
    BY <1>16, <2>1 DEF signalInTest
  <2>3. "other" \in Exceptions
    BY DEF Exceptions
  <2> QED
    BY <1>1, <1>16, <2>2, <2>3, ExceptionFlies DEF signalInTest, Depth
<1>17. CASE catchException
  BY <1>1, <1>17, ExceptionCaught
<1> QED
  BY <1>4, <1>5, <1>6, <1>7, <1>8, <1>9, <1>11, <1>12, <1>13, <1>14, <1>15, <1>16, <1>17
     DEF RunnerNext, RunStep

-----------------------------------------------------------------------------
(* The invariant holds. *)

LEMMA RunnerInvInit ==
  ASSUME RunnerInit
  PROVE  RunnerInv
<1>1. RegistryInv
  BY RunnerAssumption DEF RunnerInit, RegistryInv, Listed
<1>2. BodyInv
  <2>1. options \in Options
    BY DEF RunnerInit, Options
  <2> QED
    BY <2>1, RunnerAssumption DEF RunnerInit, BodyInv, InTest
<1>3. SignalInv
  BY DEF RunnerInit, SignalInv, Application, Depth, Signals
<1>4. ReportInv
  <2>1. results = NewResults /\ m_results = <<>> /\ printed = <<>>
    BY DEF RunnerInit, ContextInit
  <2>2. results \in Counters /\ ~results.m_currentTestFailed
    BY <2>1 DEF NewResults, Counters
  <2>3. {k \in DOMAIN m_results : m_results[k].failed} = {}
    BY <2>1
  <2>4. CountsAgree
    BY <2>1, <2>3, FS_EmptySet DEF CountsAgree, NewResults
  <2> QED
    BY <2>1, <2>2, <2>4 DEF ReportInv
<1>5. MishapInv
  BY DEF RunnerInit, ContextInit, MishapInv, InTest
<1> QED
  BY <1>1, <1>2, <1>3, <1>4, <1>5 DEF RunnerInv

LEMMA RunnerInvNext ==
  ASSUME RunnerInv, [RunnerNext]_runnerVars
  PROVE  RunnerInv'
  BY RegistryNext, BodyNext, SignalNext, ReportNext, MishapNext DEF RunnerInv

(* The invariant every theorem below rests on.                             *)
LEMMA RunnerInvariant == RunnerSpec => []RunnerInv
  BY RunnerInvInit, RunnerInvNext, PTL DEF RunnerSpec

(* Types; the list of tests ends at m_tail and only there, and the run's   *)
(* place is on it: whatever order tests register and end in, the walk      *)
(* along Test::next stays on the list.                                     *)
THEOREM RunnerTypeCorrect == RunnerSpec => []RunnerTypeOK
<1>1. RunnerInv => RunnerTypeOK
  <2> SUFFICES ASSUME RunnerInv
               PROVE  RunnerTypeOK
    OBVIOUS
  <2>1. RegistryInv /\ BodyInv /\ SignalInv /\ MishapInv
    BY DEF RunnerInv
  <2>2. \A t \in Listed : next[t] = NULL <=> t = m_tail
    BY <2>1, RegistryFacts DEF RegistryInv
  <2>3. s_jumpTarget \in Nat
    BY <2>1, DepthType DEF SignalInv
  <2> QED
    BY <2>1, <2>2, <2>3 DEF RunnerTypeOK, RegistryInv, BodyInv, SignalInv, MishapInv
<1> QED
  BY <1>1, RunnerInvariant, PTL

(* TestResults' counters agree with what the reporters have got, however   *)
(* often and in whatever order checks, constraints, fixtures and           *)
(* exceptions fail.                                                        *)
THEOREM CountersCorrect == RunnerSpec => []CountsAgree
<1>1. RunnerInv => CountsAgree
  BY DEF RunnerInv, ReportInv
<1> QED
  BY <1>1, RunnerInvariant, PTL

(* As many failures as mishaps, whoever uses the macro: what goes wrong in *)
(* a time constraint is reported once, be it in another place.             *)
LEMMA MishapsCounted ==
  ASSUME RunnerInv, m_results # <<>>, flying = NULL
  PROVE  /\ \A l \in {"TEST", "CHECK", "assert"} : FailuresAt({l}) = mishaps[l]
         /\ FailuresAt({"constraint", "garbage"}) = mishaps["constraint"]
<1>1. ReportInv /\ MishapInv
  BY DEF RunnerInv
<1>2. ASSUME NEW l \in {"TEST", "CHECK", "assert"}
      PROVE  FailuresAt({l}) = mishaps[l]
  <2>1. mishaps[l] = FailuresAt({l}) + Due(l) /\ l \in Lines
    BY <1>1 DEF MishapInv, Lines
  <2>2. PICK n \in Nat : n = FailuresAt({l})
    BY <1>1, FailuresType
  <2>3. mishaps[l] = n + 0
    BY <2>1, <2>2, NothingDue
  <2> QED
    BY <2>2, <2>3
<1>3. FailuresAt({"constraint", "garbage"}) = mishaps["constraint"]
  BY <1>1 DEF MishapInv
<1> QED
  BY <1>2, <1>3

(* Nothing is garbage. *)
NoGarbage ==
  /\ mishaps["garbage"] = 0
  /\ m_results # <<>> => \A k \in DOMAIN Last(m_results).failures :
                            Last(m_results).failures[k] # "garbage"

(* What a step says of mishaps: nothing, that none has happened in the     *)
(* test that starts, or that there is one more somewhere.                  *)
LEMMA MishapSteps ==
  ASSUME [RunnerNext]_runnerVars
  PROVE  \/ mishaps' = mishaps
         \/ mishaps' = [l \in Lines |-> 0]
         \/ \E line \in Lines \ {"garbage"} : Mishap(line)
<1> DEFINE Said == \/ mishaps' = mishaps
                   \/ mishaps' = [l \in Lines |-> 0]
                   \/ \E line \in Lines \ {"garbage"} : Mishap(line)
<1>1. {"TEST", "CHECK", "constraint", "assert"} \subseteq Lines \ {"garbage"}
  BY DEF Lines
<1>2. RunTest \/ fixtureThrows \/ checkFails => Said
  BY <1>1 DEF RunTest, fixtureThrows, checkFails
<1>3. \A late \in BOOLEAN : FinishTest(late) \/ closeConstraint(late) => Said
  BY <1>1 DEF FinishTest, closeConstraint
<1>4. ASSUME NEW exception, Flies(exception)
      PROVE  Said
  BY <1>1, <1>4 DEF Flies
<1>5. \A exception \in Exceptions : bodyThrows(exception) => Said
  BY <1>4 DEF bodyThrows
<1>6. \A s \in Signals : signalInTest(s) => Said
  BY <1>4 DEF signalInTest
<1>7. SkipTest \/ Finish \/ setupOk \/ teardownOk \/ nestedTest \/ setExempt \/ openConstraint
        \/ bodyReturns \/ aborts \/ catchException \/ UNCHANGED runnerVars => mishaps' = mishaps
  BY DEF SkipTest, Finish, setupOk, teardownOk, nestedTest, setExempt, openConstraint,
     bodyReturns, aborts, catchException, runnerVars
<1>8. /\ \A test \in Tests : Add(test) => mishaps' = mishaps
      /\ \A opts \in Options : RunAllTestsIf(opts) => mishaps' = mishaps
  BY DEF Add, RunAllTestsIf
<1> QED
  BY <1>2, <1>3, <1>5, <1>6, <1>7, <1>8 DEF RunnerNext, RunStep

LEMMA NoGarbageNext ==
  ASSUME MacroUsers = {}, RunnerInv, NoGarbage, [RunnerNext]_runnerVars
  PROVE  NoGarbage'
<1>1. RegistryInv /\ BodyInv /\ ReportInv /\ MishapInv /\ ReportStep
  BY ReportSteps DEF RunnerInv
<1>2. mishaps'["garbage"] = 0
  <2>1. mishaps \in [Lines -> Nat] /\ "garbage" \in Lines
    BY <1>1 DEF MishapInv, Lines
  <2> QED
    BY <2>1, MishapSteps DEF NoGarbage, Mishap
<1>3. Last(m_results)' = Last(m_results')
  BY DEF Last
<1>4. CASE UNCHANGED reportVars
  BY <1>2, <1>4 DEF NoGarbage, reportVars, Last
<1>5. CASE curTest \in Tests /\ OnTestStart(curTest)
  <2>1. Last(m_results)'.failures = <<>>
    BY <1>1, <1>5, StartReported
  <2> QED
    BY <1>2, <1>3, <2>1 DEF NoGarbage
<1>6. ASSUME NEW details \in Details, m_results # <<>>, details.lineNumber # "garbage",
             OnTestFailure(details)
      PROVE  NoGarbage'
  <2>1. PICK s \in Seq(Lines), x \in Lines :
          /\ s = Last(m_results).failures /\ x = details.lineNumber
          /\ Last(m_results)'.failures = Append(s, x)
    BY <1>1, <1>6, FailureReported
  <2>2. \A k \in DOMAIN s : s[k] # "garbage"
    BY <1>6, <2>1 DEF NoGarbage
  <2>3. \A k \in DOMAIN Append(s, x) : Append(s, x)[k] # "garbage"
    BY <1>6, <2>1, <2>2
  <2> QED
    BY <1>2, <1>3, <2>1, <2>3 DEF NoGarbage
<1> QED
  BY <1>1, <1>4, <1>5, <1>6 DEF ReportStep

(* No failure of a test is lost and none is reported twice or at another   *)
(* line, provided no test uses UNITTEST_TIME_CONSTRAINT: a time constraint *)
(* has the details of the place that opened it as long as they exist.      *)
THEOREM NoMishapIsLost ==
  ASSUME MacroUsers = {}
  PROVE  RunnerSpec => []MishapsReported
<1>1. RunnerInit => NoGarbage
  BY DEF RunnerInit, ContextInit, NoGarbage, Lines
<1>2. RunnerInv /\ NoGarbage /\ [RunnerNext]_runnerVars => NoGarbage'
  BY NoGarbageNext
<1>3. RunnerInv /\ NoGarbage => MishapsReported
  <2> SUFFICES ASSUME RunnerInv, NoGarbage, m_results # <<>>, flying = NULL, NEW line \in Lines
               PROVE  FailuresAt({line}) = mishaps[line]
    BY DEF MishapsReported, FailuresAt
  <2>1. /\ \A l \in {"TEST", "CHECK", "assert"} : FailuresAt({l}) = mishaps[l]
        /\ FailuresAt({"constraint", "garbage"}) = mishaps["constraint"]
    BY MishapsCounted
  <2>2. \A k \in DOMAIN Last(m_results).failures : Last(m_results).failures[k] # "garbage"
    BY DEF NoGarbage
  <2>3. FailuresAt({"constraint"}) = FailuresAt({"constraint", "garbage"})
    BY <2>2 DEF FailuresAt
  <2>4. FailuresAt({"garbage"}) = 0 /\ mishaps["garbage"] = 0
    BY <2>2, FS_EmptySet DEF FailuresAt, NoGarbage
  <2> QED
    BY <2>1, <2>3, <2>4 DEF Lines
<1> QED
  BY <1>1, <1>2, <1>3, RunnerInvariant, PTL DEF RunnerSpec

(* SignalHandler never jumps to an ExecuteTest that has returned, however  *)
(* deep tests run within tests.                                            *)
THEOREM JumpsStayLive == RunnerSpec => []JumpTargetLive
<1>1. RunnerInv => JumpTargetLive
  <2> SUFFICES ASSUME SignalInv
               PROVE  JumpTargetLive
    BY DEF RunnerInv
  <2>1. Depth \in Nat /\ s_jumpTarget = Depth
    BY DepthType DEF SignalInv
  <2>2. Depth = 0 => \A s \in Signals : action[s] # "SignalHandler"
    BY DEF SignalInv, Application, Signals
  <2>3. Depth > 0 => \A s \in Signals : action[s] = "SignalHandler"
    BY DEF SignalInv
  <2>4. pc \in {"body", "unwind"} => Depth > 0
    BY DEF SignalInv
  <2> QED
    BY <2>1, <2>2, <2>3, <2>4 DEF JumpTargetLive
<1> QED
  BY <1>1, RunnerInvariant, PTL

(* Between tests the application has its signal actions back, but for the  *)
(* one of SIGBUS, however the tests ended.                                 *)
THEOREM SignalActionsReturn == RunnerSpec => []DispositionsRestored
<1>1. RunnerInv => DispositionsRestored
  <2> SUFFICES ASSUME SignalInv, pc \notin {"body", "unwind", "aborted"}
               PROVE  frames = <<>> /\ s_jumpTarget = 0 /\ Application
    BY DEF RunnerInv, DispositionsRestored, Application
  <2>1. Depth = 0 /\ frames \in Seq(Frame) /\ Depth = Len(frames)
    BY DEF SignalInv, Depth
  <2> QED
    BY <2>1 DEF SignalInv
<1> QED
  BY <1>1, RunnerInvariant, PTL
=============================================================================
