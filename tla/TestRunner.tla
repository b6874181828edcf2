----------------------------- MODULE TestRunner -----------------------------
(***************************************************************************)
(* UnitTest++ runs the tests of a program: TestList, TestRunner,           *)
(* TestResults, ExecuteTest with its SignalTranslator (POSIX), fixtures,   *)
(* time constraints, and the reporters (stdout as it goes, XML at the      *)
(* end).  What the body of a test does is up to the test: fail checks,     *)
(* open time constraints, throw, crash, or run a test of its own with      *)
(* results of its own.                                                     *)
(***************************************************************************)
EXTENDS Checks, Sequences, FiniteSets, SequencesExt

CONSTANTS
  Tests,
  Fixtures,    (* the tests made by TEST_FIXTURE                           *)
  MacroUsers,  (* those whose time constraints are opened with             *)
               (* UNITTEST_TIME_CONSTRAINT                                 *)
  suite,       (* m_details.suiteName of every test                        *)
  NULL,
  ExitMod,     (* the range of a process's exit status: 256                *)
  MaxActs      (* bound: failed checks, time constraints and tests within  *)
               (* the body of a test                                       *)

ASSUME RunnerAssumption ==
  /\ Fixtures \subseteq Tests /\ MacroUsers \subseteq Tests
  /\ NULL \notin Tests \cup Range(suite) \cup Exceptions /\ DOMAIN suite = Tests
  /\ ExitMod \in Nat \ {0} /\ MaxActs \in Nat

VARIABLES
  m_head, m_tail, next,   (* TestList; Test::next                          *)
  options,                (* the arguments of RunAllTestsIf                *)
  pc, curTest,
  exempt,                 (* the tests with m_timeConstraintExempt         *)
  constraints,            (* TimeConstraints the body has open             *)
  acts,                   (* what the body has done, up to MaxActs         *)
  flying,                 (* the exception in flight, or NULL              *)
  frames,                 (* the SignalTranslators on the stack            *)
  s_jumpTarget,           (* the one of them to jump to, 0 for none        *)
  action,                 (* who handles each signal                       *)
  results,                (* the counters of TestResults                   *)
  m_results,              (* DeferredTestReporter                          *)
  printed,                (* what TestReporterStdout has printed           *)
  summary, exitStatus,    (* what it prints and returns in the end         *)
  mishaps                 (* history: how often the current test went      *)
                          (* wrong at each line                            *)

listVars == <<m_head, m_tail, next>>
bodyVars == <<exempt, constraints, acts>>
signalVars == <<frames, s_jumpTarget, action>>
reportVars == <<results, m_results, printed>>
endVars == <<summary, exitStatus>>
runnerVars == <<listVars, options, pc, curTest, bodyVars, flying, signalVars, reportVars,
                endVars, mishaps>>

Signals == {"SIGSEGV", "SIGFPE", "SIGTRAP", "SIGBUS", "SIGILL"}
InTest == {"setup", "body", "unwind", "teardown", "finish"}

-----------------------------------------------------------------------------
(* TestDetails: the place of a failure.  A line is known by what is on it. *)
Lines == {"TEST", "CHECK", "constraint", "assert", "garbage"}
TestDetails(test, line) ==
  [testName |-> test, filename |-> IF line = "assert" THEN "other" ELSE "own",
   lineNumber |-> line]
Garbage == [testName |-> NULL, filename |-> "garbage", lineNumber |-> "garbage"]

NewResults ==
  [m_totalTestCount |-> 0, m_failedTestCount |-> 0, m_failureCount |-> 0,
   m_currentTestFailed |-> FALSE]

(* TestContext: the results and the reporter of the one run.               *)
ContextInit == results = NewResults /\ m_results = <<>> /\ printed = <<>>

RunnerInit ==
  /\ m_head = NULL /\ m_tail = NULL /\ next = [t \in Tests |-> NULL]
  /\ options = [suiteName |-> NULL, predicate |-> Tests, limited |-> FALSE]
  /\ pc = "main" /\ curTest = NULL
  /\ exempt = {} /\ constraints = 0 /\ acts = 0
  /\ flying = NULL
  /\ frames = <<>> /\ s_jumpTarget = 0
  /\ action = [s \in Signals |-> s]
  /\ ContextInit
  /\ summary = NULL /\ exitStatus = NULL
  /\ mishaps = [l \in Lines |-> 0]

-----------------------------------------------------------------------------
(* TestResults and the reporters it calls. *)

DeferredTestResult(test) ==
  [testName |-> test, failed |-> FALSE, failures |-> <<>>, failureFile |-> ""]

(* Definitions named Bug... are what the one they precede could have been  *)
(* by mistake: the properties are tested against them.                     *)
BugOnTestStartKeepsFlag(test) ==
  /\ results' = [results EXCEPT !.m_totalTestCount = @ + 1]
  /\ m_results' = Append(m_results, DeferredTestResult(test))
  /\ UNCHANGED printed

OnTestStart(test) ==
  /\ results' = [results EXCEPT !.m_totalTestCount = @ + 1, !.m_currentTestFailed = FALSE]
  /\ m_results' = Append(m_results, DeferredTestResult(test))
  /\ UNCHANGED printed

BugFailedOnce(r, details) ==
  [r EXCEPT !.failed = TRUE,
            !.failures = IF r.failed THEN @ ELSE Append(@, details.lineNumber),
            !.failureFile = details.filename]

(* DeferredTestReporter::ReportFailure: one file for all the failures.     *)
WithFailure(r, details) ==
  [r EXCEPT !.failed = TRUE,
            !.failures = Append(@, details.lineNumber),
            !.failureFile = details.filename]

(* TestReporterStdout::ReportFailure *)
ReportFailure(details) == printed' = Append(printed, details)

BugReportedOnce(details) ==
  IF results.m_currentTestFailed THEN UNCHANGED reportVars
  ELSE /\ results' = [results EXCEPT
            !.m_failureCount = @ + 1, !.m_failedTestCount = @ + 1, !.m_currentTestFailed = TRUE]
       /\ m_results' = [m_results EXCEPT ![Len(m_results)] = WithFailure(@, details)]
       /\ ReportFailure(details)

OnTestFailure(details) ==
  /\ results' = [results EXCEPT
       !.m_failureCount = @ + 1,
       !.m_failedTestCount = IF results.m_currentTestFailed THEN @ ELSE @ + 1,
       !.m_currentTestFailed = TRUE]
  /\ m_results' = [m_results EXCEPT ![Len(m_results)] = WithFailure(@, details)]
  /\ ReportFailure(details)

Mishap(line) == mishaps' = [mishaps EXCEPT ![line] = @ + 1]

-----------------------------------------------------------------------------
(* SignalTranslator. *)

(* The constructor's calls of sigaction leave the old action of SIGILL in  *)
(* the field of SIGBUS, and the destructor restores both from there.       *)
SavedActions ==
  [f \in Signals \ {"SIGILL"} |-> action[IF f = "SIGBUS" THEN "SIGILL" ELSE f]]

BugField(s) == IF s \in {"SIGILL", "SIGTRAP"} THEN "SIGBUS" ELSE s
Field(s) == IF s = "SIGILL" THEN "SIGBUS" ELSE s

(* UNITTEST_THROW_SIGNALS *)
Translate ==
  /\ frames' = Append(frames, [m_oldJumpTarget |-> s_jumpTarget, m_old_actions |-> SavedActions])
  /\ s_jumpTarget' = Len(frames) + 1
  /\ action' = [s \in Signals |-> "SignalHandler"]

Depth == Len(frames)

BugJumpTargetKept ==
  /\ frames' = SubSeq(frames, 1, Depth - 1)
  /\ action' = [s \in Signals |-> frames[Depth].m_old_actions[Field(s)]]
  /\ UNCHANGED s_jumpTarget

(* ~SignalTranslator, of the innermost one. *)
Restore ==
  /\ frames' = SubSeq(frames, 1, Depth - 1)
  /\ action' = [s \in Signals |-> frames[Depth].m_old_actions[Field(s)]]
  /\ s_jumpTarget' = frames[Depth].m_oldJumpTarget

(* Where a program is once ExecuteTest has returned: in the body that ran  *)
(* the test, or behind the test.                                           *)
Behind ==
  IF Depth > 1 THEN "body" ELSE IF curTest \in Fixtures THEN "teardown" ELSE "finish"

-----------------------------------------------------------------------------
(* Static initialisation: ListAdder. *)
Listed == {t \in Tests : t = m_head \/ \E u \in Tests : next[u] = t}

BugTailKept(test) == IF m_tail = NULL THEN test ELSE m_tail
NewTail(test) == test

Add(test) ==
  /\ pc = "main" /\ test \notin Listed
  /\ m_tail' = NewTail(test)
  /\ IF m_tail = NULL
     THEN m_head' = test /\ UNCHANGED next
     ELSE next' = [next EXCEPT ![m_tail] = test] /\ UNCHANGED m_head
  /\ UNCHANGED <<options, pc, curTest, bodyVars, flying, signalVars, reportVars,
                 endVars, mishaps>>

(* The runner.  RunAllTests without a suite passes a null suite name,      *)
(* without a predicate the one that is always true, without a limit 0.     *)
RunAllTestsIf(opts) ==
  /\ pc = "main"
  /\ options' = opts
  /\ pc' = "select" /\ curTest' = m_head
  /\ UNCHANGED <<listVars, bodyVars, flying, signalVars, reportVars, endVars, mishaps>>

BugNotInSuite(test) == options.suiteName = NULL \/ suite[test] # options.suiteName
IsTestInSuite(test) == options.suiteName = NULL \/ suite[test] = options.suiteName

SkipTest ==
  /\ pc = "select" /\ curTest # NULL
  /\ ~(IsTestInSuite(curTest) /\ curTest \in options.predicate)
  /\ curTest' = next[curTest]
  /\ UNCHANGED <<listVars, options, pc, bodyVars, flying, signalVars, reportVars, endVars,
                 mishaps>>

(* RunTest, up to the fixture's constructor or the body of a plain test.   *)
RunTest ==
  /\ pc = "select" /\ curTest # NULL
  /\ IsTestInSuite(curTest) /\ curTest \in options.predicate
  /\ OnTestStart(curTest)
  /\ acts' = 0 /\ mishaps' = [l \in Lines |-> 0]
  /\ IF curTest \in Fixtures
     THEN pc' = "setup" /\ UNCHANGED signalVars
     ELSE pc' = "body" /\ Translate
  /\ UNCHANGED <<listVars, options, curTest, exempt, constraints, flying, endVars>>

(* RunTest, once the test has run; `late' if it took longer than allowed.  *)
FinishTest(late) ==
  /\ pc = "finish"
  /\ IF options.limited /\ late /\ curTest \notin exempt
     THEN OnTestFailure(TestDetails(curTest, "TEST")) /\ Mishap("TEST")
     ELSE UNCHANGED <<reportVars, mishaps>>
  /\ pc' = "select" /\ curTest' = next[curTest]
  /\ UNCHANGED <<listVars, options, bodyVars, flying, signalVars, endVars>>

ReportSummary == IF results.m_failureCount > 0 THEN "FAILURE" ELSE "Success"

Finish ==
  /\ pc = "select" /\ curTest = NULL
  /\ pc' = "exited"
  /\ summary' = ReportSummary
  /\ exitStatus' = results.m_failureCount % ExitMod
  /\ UNCHANGED <<listVars, options, curTest, bodyVars, flying, signalVars, reportVars, mishaps>>

-----------------------------------------------------------------------------
(* TEST_FIXTURE. *)

setupOk ==
  /\ pc = "setup"
  /\ pc' = "body" /\ Translate
  /\ UNCHANGED <<listVars, options, curTest, bodyVars, flying, reportVars, endVars, mishaps>>

teardownOk ==
  /\ pc = "teardown"
  /\ pc' = "finish"
  /\ UNCHANGED <<listVars, options, curTest, bodyVars, flying, signalVars, reportVars,
                 endVars, mishaps>>

(* "Unhandled exception while constructing", "while destroying".  A        *)
(* destructor may throw if it is noexcept(false); otherwise it aborts.     *)
fixtureThrows ==
  /\ pc \in {"setup", "teardown"}
  /\ OnTestFailure(TestDetails(curTest, "TEST")) /\ Mishap("TEST")
  /\ pc' = "finish"
  /\ UNCHANGED <<listVars, options, curTest, bodyVars, flying, signalVars, endVars>>

-----------------------------------------------------------------------------
(* The body of a test. *)

Acts == pc = "body" /\ acts < MaxActs /\ acts' = acts + 1

checkFails ==
  /\ Acts /\ Depth = 1
  /\ OnTestFailure(TestDetails(curTest, "CHECK")) /\ Mishap("CHECK")
  /\ UNCHANGED <<listVars, options, pc, curTest, exempt, constraints, flying, signalVars,
                 endVars>>

(* The body runs a test of its own, which may run one in turn. *)
nestedTest ==
  /\ Acts /\ Translate
  /\ UNCHANGED <<listVars, options, pc, curTest, exempt, constraints, flying, reportVars,
                 endVars, mishaps>>

(* UNITTEST_TIME_CONSTRAINT_EXEMPT, which the body of a fixture cannot use *)
setExempt ==
  /\ pc = "body" /\ Depth = 1 /\ curTest \notin Fixtures
  /\ exempt' = exempt \cup {curTest}
  /\ UNCHANGED <<listVars, options, pc, curTest, constraints, acts, flying, signalVars,
                 reportVars, endVars, mishaps>>

openConstraint ==
  /\ Acts /\ Depth = 1
  /\ constraints' = constraints + 1
  /\ UNCHANGED <<listVars, options, pc, curTest, exempt, flying, signalVars, reportVars,
                 endVars, mishaps>>

(* A TimeConstraint refers to the TestDetails it is given.  Those of the   *)
(* macro are a temporary, which is gone when ~TimeConstraint reads them:   *)
(* it reads them still, or what has been put in their place.               *)
ConstraintDetails(test) ==
  {TestDetails(test, "constraint")} \cup (IF test \in MacroUsers THEN {Garbage} ELSE {})

closeConstraint(late) ==
  /\ pc \in {"body", "unwind"} /\ Depth = 1 /\ constraints > 0
  /\ constraints' = constraints - 1
  /\ IF late
     THEN /\ \E details \in ConstraintDetails(curTest) : OnTestFailure(details)
          /\ Mishap("constraint")
     ELSE UNCHANGED <<reportVars, mishaps>>
  /\ UNCHANGED <<listVars, options, pc, curTest, exempt, acts, flying, signalVars, endVars>>

bodyReturns ==
  /\ pc = "body" /\ (Depth = 1 => constraints = 0)
  /\ pc' = Behind /\ Restore
  /\ UNCHANGED <<listVars, options, curTest, bodyVars, flying, reportVars, endVars, mishaps>>

(* What goes wrong in a nested test is for the results of its own.         *)
Flies(exception) ==
  /\ flying' = exception /\ pc' = "unwind"
  /\ IF Depth > 1 THEN UNCHANGED mishaps
     ELSE Mishap(IF exception = "AssertException" THEN "assert" ELSE "TEST")

bodyThrows(exception) ==
  /\ pc = "body" /\ Flies(exception)
  /\ UNCHANGED <<listVars, options, curTest, bodyVars, signalVars, reportVars, endVars>>

(* SignalHandler jumps back to where its target was set, which throws.     *)
(* Constraints in between are not destroyed.                               *)
signalInTest(s) ==
  /\ pc = "body" /\ action[s] = "SignalHandler"
  /\ frames' = SubSeq(frames, 1, s_jumpTarget)
  /\ constraints' = IF s_jumpTarget = 1 THEN 0 ELSE constraints
  /\ Flies("other")
  /\ UNCHANGED <<listVars, options, curTest, exempt, acts, s_jumpTarget, action, reportVars,
                 endVars>>

(* std::terminate, SIGABRT and SIGALRM anywhere, and a signal where the    *)
(* application has not installed a handler.                                *)
aborts ==
  /\ pc \in {"setup", "body", "teardown"}
  /\ pc' = "aborted"
  /\ UNCHANGED <<listVars, options, curTest, bodyVars, flying, signalVars, reportVars,
                 endVars, mishaps>>

(* The handlers of ExecuteTest: the first that catches the exception.      *)
catchException ==
  /\ pc = "unwind" /\ (Depth = 1 => constraints = 0)
  /\ \E handler \in {"AssertException", "std::exception", "..."} :
       /\ Catches(handler, flying)
       /\ handler # "AssertException" => ~Catches("AssertException", flying)
       /\ handler = "..." => ~Catches("std::exception", flying)
       /\ IF Depth > 1 THEN UNCHANGED reportVars
          ELSE OnTestFailure(
                 TestDetails(curTest, IF handler = "AssertException" THEN "assert" ELSE "TEST"))
  /\ flying' = NULL
  /\ pc' = Behind /\ Restore
  /\ UNCHANGED <<listVars, options, curTest, bodyVars, endVars, mishaps>>

-----------------------------------------------------------------------------
Options ==
  [suiteName : Range(suite) \cup {NULL}, predicate : SUBSET Tests, limited : BOOLEAN]

(* What follows the start of a run, until it ends. *)
RunStep ==
  \/ SkipTest \/ RunTest \/ Finish
  \/ \E late \in BOOLEAN : FinishTest(late) \/ closeConstraint(late)
  \/ setupOk \/ teardownOk \/ fixtureThrows
  \/ checkFails \/ nestedTest \/ setExempt \/ openConstraint
  \/ bodyReturns
  \/ \E exception \in Exceptions : bodyThrows(exception)
  \/ \E s \in Signals : signalInTest(s)
  \/ aborts
  \/ catchException

RunnerNext ==
  \/ \E test \in Tests : Add(test)
  \/ \E opts \in Options : RunAllTestsIf(opts)
  \/ RunStep

RunnerSpec == RunnerInit /\ [][RunnerNext]_runnerVars

-----------------------------------------------------------------------------
(* Properties. *)

(* Types; the list ends at m_tail, and only then; curTest is on it.        *)
RunnerTypeOK ==
  /\ m_head \in Tests \cup {NULL} /\ m_tail \in Tests \cup {NULL}
  /\ m_head = NULL <=> m_tail = NULL
  /\ \A t \in Listed : next[t] = NULL <=> t = m_tail
  /\ curTest \in Listed \cup {NULL}
  /\ next \in [Tests -> Tests \cup {NULL}]
  /\ options \in Options
  /\ pc \in {"main", "select", "exited", "aborted"} \cup InTest
  /\ pc \in InTest => curTest # NULL
  /\ exempt \in SUBSET (Tests \ Fixtures) /\ constraints \in 0 .. acts /\ acts \in 0 .. MaxActs
  /\ flying \in Exceptions \cup {NULL} /\ (pc = "unwind" <=> flying # NULL)
  /\ s_jumpTarget \in Nat
  /\ action \in [Signals -> Signals \cup {"SignalHandler"}]
  /\ summary \in {"Success", "FAILURE", NULL}
  /\ exitStatus \in 0 .. ExitMod - 1 \cup {NULL}
  /\ mishaps \in [Lines -> Nat]

(* The three counters of TestResults agree with each other and with the    *)
(* failures its reporters have got: a test that fails twice, or after      *)
(* another failed test, counts as one failed test.                         *)
CountsAgree ==
  /\ results.m_totalTestCount = Len(m_results)
  /\ results.m_failureCount = Len(printed)
  /\ results.m_failedTestCount = Cardinality({i \in DOMAIN m_results : m_results[i].failed})
  /\ \A i \in DOMAIN m_results : m_results[i].failed <=> m_results[i].failures # <<>>

(* Nothing that goes wrong in a test, its fixture or its time constraints  *)
(* is lost or reported twice, in whatever order it goes wrong, except the  *)
(* constraints a signal jumps over: a test has as many failures at each    *)
(* line as went wrong there.                                               *)
MishapsReported ==
  m_results # <<>> /\ flying = NULL =>
    LET failures == Last(m_results).failures
    IN  \A line \in Lines :
          Cardinality({k \in DOMAIN failures : failures[k] = line}) = mishaps[line]

(* While SignalHandler may be called, the target it jumps to is the one of *)
(* the innermost ExecuteTest that has not returned.                        *)
JumpTargetLive ==
  /\ (\E s \in Signals : action[s] = "SignalHandler") => s_jumpTarget = Depth /\ Depth > 0
  /\ pc \in {"body", "unwind"} => \A s \in Signals : action[s] = "SignalHandler"

(* Outside the bodies of tests the application's actions are in force,     *)
(* except the one for SIGBUS, which may be its action for SIGILL.          *)
DispositionsRestored ==
  pc \notin {"body", "unwind", "aborted"} =>
    /\ frames = <<>> /\ s_jumpTarget = 0
    /\ \A s \in Signals \ {"SIGBUS"} : action[s] = s
    /\ action["SIGBUS"] \in {"SIGBUS", "SIGILL"}

(* XmlTestReporter: the failures of the tests that failed, as <failure>    *)
(* elements under the name of the test.                                    *)
AddFailure(r) ==
  [k \in DOMAIN r.failures |->
    [testName |-> r.testName, filename |-> r.failureFile, lineNumber |-> r.failures[k]]]
XmlReport ==
  FlattenSeq([i \in DOMAIN m_results |->
                IF m_results[i].failed THEN AddFailure(m_results[i]) ELSE <<>>])

(* The XML report has the failures that were printed, in the same order,   *)
(* of the same tests and at the same lines.  A test's are all in the file  *)
(* of the last of them, wherever stdout said they were.                    *)
XmlAgreesWithStdout ==
  /\ Len(XmlReport) = Len(printed)
  /\ \A i \in DOMAIN printed :
       LET xml == XmlReport[i]
           lastOfTest == i = Len(printed) \/ printed[i + 1].testName # printed[i].testName
       IN  /\ xml.lineNumber = printed[i].lineNumber
           /\ xml.testName = printed[i].testName
           /\ xml.filename = (IF lastOfTest THEN printed[i] ELSE XmlReport[i + 1]).filename

(* The tests as a session sees them. *)
walk[t \in Tests \cup {NULL}] == IF t = NULL THEN <<>> ELSE <<t>> \o walk[next[t]]
Wanted(t) == options.suiteName \in {NULL, suite[t]} /\ t \in options.predicate
Ahead == {i \in DOMAIN walk[m_head] : i > Len(walk[m_head]) - Len(walk[curTest])}
Finished == IF pc \in InTest \cup {"aborted"} THEN Front(m_results) ELSE m_results

Session == INSTANCE TestSession WITH
  status <- CASE pc = "main" -> "registering"
              [] pc = "exited" -> "ended"
              [] pc = "aborted" -> "aborted"
              [] OTHER -> "running",
  registered <- walk[m_head],
  todo <- {i \in Ahead : Wanted(walk[m_head][i])},
  outcomes <- [i \in DOMAIN Finished |->
                [test |-> Finished[i].testName, failed |-> Finished[i].failed]],
  passed <- pc = "exited" /\ summary = "Success"

(* A run is a session: the wanted tests run once each in the order of      *)
(* registration, whatever they do short of ending the program, and it      *)
(* prints Success if and only if none of them failed.                      *)
ImplementsSession == Session!Spec

(* Once tests run, the program comes to an end, provided their bodies do.  *)
RunEnds == pc = "select" ~> pc \in {"exited", "aborted"}

(* tests/TestTimeConstraintMacro.cpp: a time constraint of the macro is    *)
(* reported with the file, line and test it was opened in.  So each one    *)
(* that was late is printed with its own details.                          *)
TimeConstraintMacroUsesCorrectInfo ==
  m_results # <<>> =>
    LET test == Last(m_results).testName
        own == {i \in DOMAIN printed : printed[i] = TestDetails(test, "constraint")}
    IN  Cardinality(own) = mishaps["constraint"]

(* docs/UnitTest++.html: a failed test run always returns a non-zero exit  *)
(* code.  RunAllTests returns the number of failures, and main returns it. *)
FailedRunExitsNonzero == pc = "exited" /\ results.m_failureCount > 0 => exitStatus # 0
=============================================================================
