---------------------------- MODULE TidenRunner ----------------------------
(***************************************************************************)
(* The test runner: TidenRunner.process_tests of src/tiden/tidenrunner.py  *)
(* and everything it calls, composed with the result ledger (Result), the  *)
(* plugin manager's do() and kill_stalled_java of src/tiden/util.py.       *)
(*                                                                         *)
(* The runner is one thread.  What makes it hard are the callbacks: test   *)
(* code and plugin hooks run between any two of its steps, and each may    *)
(* raise.  A hook that raises TidenPluginException is logged and ignored   *)
(* (PluginManager.do), so only the other exceptions are steps of their     *)
(* own; they are the fault "hook" below.                                   *)
(***************************************************************************)
EXTENDS Result

CONSTANTS
  Modules,    \* the test modules
  ModuleOf,   \* the module of each test
  Marks,      \* what the decorators and the options may say of a test
  Options,    \* the configurations of a run
  Faults,     \* what the environment may do wrong, a subset of FaultKinds
  None        \* no test, no module

\* "hook"        a plugin hook or get_run_info raises anything but TidenPluginException
\* "interrupt"   test code, or a hook, raises SystemExit or KeyboardInterrupt
\* "remote"      the SSH pool raises in check_requirements, directory creation or jps
\* "unkillable"  killall('java') leaves a process alive
FaultKinds == {"hook", "interrupt", "remote", "unkillable"}

\* filtered: 'mute', or --attr does not match; blocked: @skip or an unmet @require;
\* repeat: the number of iterations; known: @known_issue.
Mark   == [filtered : BOOLEAN, blocked : BOOLEAN, repeat : Iteration, known : BOOLEAN]
Option == [contFail : BOOLEAN, contPass : BOOLEAN, keepJava : BOOLEAN]

ASSUME ModuleOfAssumption == ModuleOf \in [Tests -> Modules]
ASSUME MarksAssumption    == Marks \subseteq Mark
ASSUME OptionsAssumption  == Options \subseteq Option
ASSUME FaultsAssumption   == Faults \subseteq FaultKinds
ASSUME NoneAssumption     == None \notin Tests \cup Modules

VARIABLES
  marks,     \* the decorators of each test
  opts,      \* the options of the run
  pc,        \* where the runner is
  left,      \* the modules not prepared yet
  mod,       \* the current module, test_module
  toSkip,    \* skipped_tests of the module still to be reported
  toRun,     \* tests_to_execute of the module still to be run
  test,      \* the test picked by _run_tests, current_test_name
  iter,      \* test_iteration
  status,    \* test_status of _run_test
  setupOk,   \* setup_passed
  java,      \* who started the Java processes alive on the hosts
  outcome,   \* what the current iteration really did
  seen,      \* what the iterations of each test really did
  last,      \* what really happened when each test got its latest verdict
  fixtures   \* the modules whose setup, and whose teardown, was called

planVars    == <<left, mod, toSkip, toRun>>
inputVars   == <<marks, opts>>
historyVars == <<seen, last>>
vars == <<resultVars, inputVars, planVars, historyVars, pc, test, iter, status,
          setupOk, java, outcome, fixtures>>

-----------------------------------------------------------------------------
Final    == {"done", "exited", "aborted"}
Location == Final \cup
  {"requirements", "modules", "skip", "setup", "tests", "before", "start", "test_setup",
   "execute", "stop", "test_teardown", "after", "kill", "iterate", "teardown"}

\* What an iteration really did; "none" until its code ran.
Outcome == {"ok", "fail", "error", "interrupted"}

RunnerTypeOK ==
  /\ marks    \in [Tests -> Marks]
  /\ opts     \in Options
  /\ pc       \in Location
  /\ left     \subseteq Modules
  /\ mod      \in Modules \cup {None}
  /\ toSkip   \subseteq Tests
  /\ toRun    \subseteq Tests
  /\ test     \in Tests \cup {None}
  /\ iter     \in Iteration
  /\ status   \in Verdict
  /\ setupOk  \in BOOLEAN
  /\ java     \subseteq {"module", "test"}
  /\ outcome  \in Outcome \cup {"none"}
  /\ seen     \in [Tests -> SUBSET Outcome]
  /\ last     \in [Tests -> Outcome \cup {"none"}]
  /\ fixtures \in [setup : SUBSET Modules, teardown : SUBSET Modules]

\* Every status is one the summary has a counter for, every reported name is a test's.
TypeOK == ResultTypeOK /\ RunnerTypeOK

Init ==
  /\ ResultInit
  /\ marks    \in [Tests -> Marks]
  /\ opts     \in Options
  /\ pc       = "requirements"
  /\ left     = Modules
  /\ mod      = None
  /\ toSkip   = {}
  /\ toRun    = {}
  /\ test     = None
  /\ iter     = 0
  /\ status   = "pass"
  /\ setupOk  = TRUE
  /\ java     = {}
  /\ outcome  = "none"
  /\ seen     = [t \in Tests |-> {}]
  /\ last     = [t \in Tests |-> "none"]
  /\ fixtures = [setup |-> {}, teardown |-> {}]

Move(from, to) == pc = from /\ pc' = to

\* An exception leaves process_tests: nothing else of the run is executed.
Abort(from, fault) ==
  /\ fault \in Faults
  /\ Move(from, "aborted")
  /\ UNCHANGED <<resultVars, inputVars, planVars, historyVars, test, iter, status,
                 setupOk, java, outcome, fixtures>>

-----------------------------------------------------------------------------
\* Before the modules: check_requirements of every test class.
CheckRequirements ==
  /\ Move("requirements", "modules")
  /\ UNCHANGED <<resultVars, inputVars, planVars, historyVars, test, iter, status,
                 setupOk, java, outcome, fixtures>>

\* _check_test_for_skip and the repeat count of collect_tests1: a count of 0 overrides
\* 'skipped_no_start', which mute and attributes give and @skip does not withdraw.
SkipStatus(m) ==
  CASE m.repeat = 0 -> "skipped"
    [] m.repeat # 0 /\ m.filtered -> "skipped_no_start"
    [] m.repeat # 0 /\ ~m.filtered /\ m.blocked -> "skipped"
    [] OTHER -> "run"

\* __prepare_module_vars and collect_tests1: the plan of the next module.
PrepareModule(m) ==
  LET planned == {t \in Tests : ModuleOf[t] = m}
      skipped == {t \in planned : SkipStatus(marks[t]) # "run"}
  IN  /\ Move("modules", "skip")
      /\ m \in left
      /\ left'   = left \ {m}
      /\ mod'    = m
      /\ toSkip' = skipped
      /\ toRun'  = planned \ skipped
      /\ UNCHANGED <<resultVars, inputVars, historyVars, test, iter, status, setupOk,
                     java, outcome, fixtures>>

\* _skip_tests, one test of its loop.
SkipTest(t) ==
  /\ pc = "skip"
  /\ t \in toSkip
  /\ toSkip' = toSkip \ {t}
  /\ SkipTestcaseNoStart(t, SkipStatus(marks[t]))
  /\ UNCHANGED <<inputVars, left, mod, toRun, historyVars, pc, test, iter, status,
                 setupOk, java, outcome, fixtures>>

\* A module without a test to execute gets neither setup nor teardown.
SkipDone ==
  /\ pc = "skip"
  /\ toSkip = {}
  /\ pc' = IF toRun = {} THEN "modules" ELSE "setup"
  /\ UNCHANGED <<resultVars, inputVars, planVars, historyVars, test, iter, status,
                 setupOk, java, outcome, fixtures>>

-----------------------------------------------------------------------------
\* __call_module_setup_teardown('setup').  `return fixture_passed` stands in a finally
\* block, so an interrupted fixture is swallowed and counts as passed; the hook after it
\* runs in that block too, and what it raises is not swallowed.
ModuleSetup(o, crash) ==
  /\ pc = "setup"
  /\ o = "interrupted" => "interrupt" \in Faults
  /\ crash => "hook" \in Faults
  /\ setupOk'  = (o \in {"ok", "interrupted"})
  /\ pc'       = CASE crash -> "aborted"
                   [] ~crash /\ setupOk' -> "tests"
                   [] OTHER -> "teardown"
  /\ java'     \in SUBSET (java \cup {"module"})
  /\ fixtures' = [fixtures EXCEPT !.setup = @ \cup {mod}]
  /\ UNCHANGED <<resultVars, inputVars, planVars, historyVars, test, iter, status,
                 outcome>>

\* __call_module_setup_teardown('teardown'), which runs whether or not the setup passed,
\* and the exit(1) of a module whose setup failed.
TeardownIfSetUp(crash) ==
  /\ pc = "teardown"
  /\ crash => "hook" \in Faults
  /\ pc'       = CASE crash -> "aborted"
                   [] ~crash /\ setupOk -> "modules"
                   [] OTHER -> "exited"
  /\ java'     \in SUBSET (java \cup {"module"})
  /\ fixtures' = IF setupOk THEN [fixtures EXCEPT !.teardown = @ \cup {mod}] ELSE fixtures
  /\ UNCHANGED <<resultVars, inputVars, planVars, historyVars, test, iter, status,
                 setupOk, outcome>>

ModuleTeardown(crash) ==
  /\ pc = "teardown"
  /\ crash => "hook" \in Faults
  /\ pc'       = CASE crash -> "aborted"
                   [] ~crash /\ setupOk -> "modules"
                   [] OTHER -> "exited"
  /\ java'     \in SUBSET (java \cup {"module"})
  /\ fixtures' = [fixtures EXCEPT !.teardown = @ \cup {mod}]
  /\ UNCHANGED <<resultVars, inputVars, planVars, historyVars, test, iter, status,
                 setupOk, outcome>>

\* The next test of _run_tests, and the end of its loop.
PickTest(t) ==
  /\ Move("tests", "before")
  /\ t \in toRun
  /\ toRun' = toRun \ {t}
  /\ test'  = t
  /\ iter'  = 0
  /\ UNCHANGED <<resultVars, inputVars, left, mod, toSkip, historyVars, status, setupOk,
                 java, outcome, fixtures>>

TestsDone ==
  /\ Move("tests", "teardown")
  /\ toRun = {}
  /\ UNCHANGED <<resultVars, inputVars, planVars, historyVars, test, iter, status,
                 setupOk, java, outcome, fixtures>>

AllDone ==
  /\ Move("modules", "done")
  /\ left = {}
  /\ UNCHANGED <<resultVars, inputVars, planVars, historyVars, test, iter, status,
                 setupOk, java, outcome, fixtures>>

-----------------------------------------------------------------------------
\* The except clauses of _run_test: AssertionError and TidenException are a failure,
\* any other Exception an error; SystemExit and KeyboardInterrupt are neither, and the
\* `return test_status` of the finally block swallows them.
StatusPassOnly(o) == "pass"
StatusAsRaised(o) == IF o = "ok" THEN "pass" ELSE o
StatusFor(o) == IF o \in {"fail", "error"} THEN o ELSE "pass"

\* _run_test, up to the test's entry: the before_test_method hook.  When a hook raises, the
\* finally block runs although start_testcase was not reached.
BeforeTestMethod(o) ==
  /\ pc = "before"
  /\ o # "ok" => "hook" \in Faults
  /\ o = "interrupted" => "interrupt" \in Faults
  /\ pc'      = IF o = "ok" THEN "start" ELSE "stop"
  /\ status'  = StatusFor(o)
  /\ outcome' = "none"
  /\ UNCHANGED <<resultVars, inputVars, planVars, historyVars, test, iter, setupOk,
                 java, fixtures>>

\* start_testcase, and the update of the configuration file and the test directory.
StartTest ==
  /\ Move("start", "test_setup")
  /\ StartTestcase(test)
  /\ UNCHANGED <<inputVars, planVars, historyVars, test, iter, status, setupOk, java,
                 outcome, fixtures>>

\* __call_test_setup_teardown('setup') with its two hooks.
TestSetup(o) ==
  /\ pc = "test_setup"
  /\ o = "interrupted" => "interrupt" \in Faults
  /\ pc'      = IF o = "ok" THEN "execute" ELSE "stop"
  /\ status'  = StatusFor(o)
  /\ outcome' = o
  /\ java'    \in SUBSET (java \cup {"test"})
  /\ UNCHANGED <<resultVars, inputVars, planVars, historyVars, test, iter, setupOk,
                 fixtures>>

\* call_method of the test itself.
Execute(o) ==
  /\ Move("execute", "stop")
  /\ o = "interrupted" => "interrupt" \in Faults
  /\ status'  = StatusFor(o)
  /\ outcome' = o
  /\ java'    \in SUBSET (java \cup {"test"})
  /\ UNCHANGED <<resultVars, inputVars, planVars, historyVars, test, iter, setupOk,
                 fixtures>>

\* The first half of the finally block.  When the hook of this iteration raised,
\* current_test is still the key of an earlier test, or of none.
StopTest ==
  /\ Move("stop", "test_teardown")
  /\ StopTestcase(status, marks[test].known)
  /\ IF outcome = "none"
     THEN /\ seen' = seen
          /\ last' = IF status = "pass"
                     THEN [last EXCEPT ![tests[current].name] = "interrupted"] ELSE last
     ELSE /\ seen' = [seen EXCEPT ![test] = @ \cup {outcome}]
          /\ last' = [last EXCEPT ![test] = outcome]
  /\ UNCHANGED <<inputVars, planVars, test, iter, status, setupOk, java, outcome,
                 fixtures>>

\* The KeyError of stop_testcase leaves the finally block, and the run with it.
StopRaises ==
  /\ Move("stop", "aborted")
  /\ ~CanStop
  /\ UNCHANGED <<resultVars, inputVars, planVars, historyVars, test, iter, status,
                 setupOk, java, outcome, fixtures>>

\* __call_test_setup_teardown('teardown'): its exceptions are logged and swallowed,
\* but not an interrupt, nor what its hooks raise.
TestTeardown(crash) ==
  /\ pc = "test_teardown"
  /\ crash => Faults \cap {"hook", "interrupt"} # {}
  /\ pc'   = IF crash THEN "aborted" ELSE "after"
  /\ java' \in SUBSET (java \cup {"test"})
  /\ UNCHANGED <<resultVars, inputVars, planVars, historyVars, test, iter, status,
                 setupOk, outcome, fixtures>>

AfterTestMethod ==
  /\ Move("after", "kill")
  /\ UNCHANGED <<resultVars, inputVars, planVars, historyVars, test, iter, status,
                 setupOk, java, outcome, fixtures>>

\* kill_stalled_java, unless the class keeps its nodes between tests.
KillAfterFailure ==
  /\ Move("kill", "iterate")
  /\ java' = IF opts.keepJava \/ status = "pass" THEN java ELSE {}
  /\ UNCHANGED <<resultVars, inputVars, planVars, historyVars, test, iter, status,
                 setupOk, outcome, fixtures>>

KillStalledJava ==
  /\ Move("kill", "iterate")
  /\ \/ opts.keepJava /\ java' = java
     \/ ~opts.keepJava /\ java' = {}
     \/ ~opts.keepJava /\ "unkillable" \in Faults /\ java' \in SUBSET java
  /\ UNCHANGED <<resultVars, inputVars, planVars, historyVars, test, iter, status,
                 setupOk, outcome, fixtures>>

-----------------------------------------------------------------------------
\* The loop over the iterations of one test in _run_tests.
Repeated == marks[test].repeat > 1

LastWanted ==
  /\ Repeated
  /\ \/ status = "pass" /\ ~opts.contPass
     \/ status # "pass" /\ ~opts.contFail

\* The iteration that ends a repeated test early also renames its entry.
BreakAndRename ==
  /\ Move("iterate", "tests")
  /\ LastWanted
  /\ UpdateTestName(test, iter + 1)
  /\ UNCHANGED <<inputVars, planVars, historyVars, test, iter, status, setupOk, java,
                 outcome, fixtures>>

RepeatForever ==
  /\ Move("iterate", "before")
  /\ ~LastWanted
  /\ iter + 1 < marks[test].repeat
  /\ UNCHANGED <<resultVars, inputVars, planVars, historyVars, test, iter, status, setupOk,
                 java, outcome, fixtures>>

NextIteration ==
  /\ Move("iterate", "before")
  /\ ~LastWanted
  /\ iter + 1 < marks[test].repeat
  /\ iter' = iter + 1
  /\ UNCHANGED <<resultVars, inputVars, planVars, historyVars, test, status, setupOk,
                 java, outcome, fixtures>>

BreakModule ==
  /\ Move("iterate", "teardown")
  /\ ~LastWanted
  /\ iter + 1 >= marks[test].repeat
  /\ UNCHANGED <<resultVars, inputVars, planVars, historyVars, test, iter, status,
                 setupOk, java, outcome, fixtures>>

IterationsDone ==
  /\ Move("iterate", "tests")
  /\ ~LastWanted
  /\ iter + 1 >= marks[test].repeat
  /\ UNCHANGED <<resultVars, inputVars, planVars, historyVars, test, iter, status,
                 setupOk, java, outcome, fixtures>>

-----------------------------------------------------------------------------
\* Where an exception is not caught by the runner.
Aborts ==
  \/ Abort("requirements", "remote")
  \/ Abort("modules", "remote")
  \/ Abort("setup", "hook")
  \/ Abort("teardown", "hook")
  \/ Abort("stop", "hook")
  \/ Abort("after", "hook")
  \/ Abort("kill", "remote")

Terminated == pc \in Final /\ UNCHANGED vars

Next ==
  \/ CheckRequirements
  \/ \E m \in Modules : PrepareModule(m)
  \/ \E t \in Tests : SkipTest(t)
  \/ SkipDone
  \/ \E o \in {"ok", "error", "interrupted"}, crash \in BOOLEAN : ModuleSetup(o, crash)
  \/ \E t \in Tests : PickTest(t)
  \/ \E o \in Outcome : BeforeTestMethod(o)
  \/ StartTest
  \/ \E o \in Outcome : TestSetup(o)
  \/ \E o \in Outcome : Execute(o)
  \/ StopTest
  \/ StopRaises
  \/ \E crash \in BOOLEAN : TestTeardown(crash)
  \/ AfterTestMethod
  \/ KillStalledJava
  \/ BreakAndRename
  \/ NextIteration
  \/ IterationsDone
  \/ TestsDone
  \/ \E crash \in BOOLEAN : ModuleTeardown(crash)
  \/ AllDone
  \/ Aborts
  \/ Terminated

Spec     == Init /\ [][Next]_vars
FairSpec == Spec /\ WF_vars(Next)

-----------------------------------------------------------------------------
\* An iteration that failed is never lost: whatever the later iterations, the hooks and
\* the other tests do, the test is reported under exactly one entry, as failed
\* (stop_testcase: "do not change fail status in iterations").
FailureIsFinal ==
  \A t \in Tests : "fail" \in seen[t] =>
    \E k \in Key : EntriesOf(t) = {k} /\ tests[k].status = "fail"

\* A test reported as passed did pass in its latest iteration, or an interrupt was swallowed
\* under its name: its own, or one of the hook before a later iteration or test, which the
\* finally block of _run_test records with the status 'pass' under a stale current_test.
PassIsEarned ==
  \A t \in Tests : \A k \in EntriesOf(t) :
    tests[k].status = "pass" => last[t] \in {"ok", "interrupted"}

\* The two reports give a finished test one verdict: the last <testcase> element of it has the
\* status that the summary counts it under, and the report for TestRail has one record of it,
\* with that status, also when another test's hook made it change.
ReportsAgree ==
  \A t \in Tests : \A k \in EntriesOf(t) :
    tests[k].status # "running" =>
      LET written == {i \in DOMAIN xunit : xunit[i].name = t}
      IN  \E i \in written :
            /\ \A j \in written : j <= i
            /\ xunit[i].status = tests[k].status
            /\ {r \in TestrailReport : r.function = t}
                 = {[function |-> t, last_status |-> TestrailStatus[xunit[i].status]]}

\* Java processes a test left behind are gone when the next iteration or test begins,
\* unless its class asked to keep them (kill_stalled_java).
NoStrayJava ==
  pc \in {"before", "start"} /\ ~opts.keepJava => "test" \notin java

\* When a module ends, and when the run ends by itself, every module whose setup was
\* called was torn down, also after a setup that failed.
FixturesBalanced ==
  pc \in {"modules", "done", "exited"} => fixtures.setup = fixtures.teardown

\* Without faults a run that goes through all its modules reports every test, under one
\* entry, with a verdict or as skipped.
AllReported ==
  pc = "done" => \A t \in Tests :
    \E k \in Key : EntriesOf(t) = {k} /\ tests[k].status # "running"

\* The run ends when the test code, the hooks and the remote calls return.
Terminates == <>(pc \in Final)

\* The verdict of a test: the status of the entry reported under its name.
VerdictOf(t) ==
  IF EntriesOf(t) = {} THEN "absent" ELSE tests[CHOOSE k \in EntriesOf(t) : TRUE].status

Abstract == INSTANCE Verdicts WITH verdict <- [t \in Tests |-> VerdictOf(t)],
                                   summary <- num

\* The runner, its iterations and renames implement one final verdict per test and a
\* summary that is always the tally of the verdicts.
VerdictsSpec == Abstract!Spec

-----------------------------------------------------------------------------
\* tests/test_runner.py:393: "If test fails in some iteration it shows as one failed test
\* in test results".  An iteration that ended with an unexpected exception is not sticky.
ErrorIsReported ==
  pc = "done" => \A t \in Tests :
    "error" \in seen[t] => \A k \in EntriesOf(t) : tests[k].status \in {"fail", "error"}

\* result.py:418: "WARNING: these tests marked with known issue but PASSED", printed with
\* every test of passed_with_issue.  A test stays there when a later iteration fails.
KnownIssuesPassed ==
  pc = "done" => \A k \in issues : \A e \in EntriesOf(k[1]) : tests[e].status = "pass"

\* README.md:405: "When test fails, its name will be renamed in report file to
\* `<test_name>_iteration_<M>`".  Only the key of the dictionary is renamed: the reports
\* are written from the entry's 'name', and the <testcase> was written before.
RenamedInReport ==
  pc = "done" => \A t \in Tests :
    marks[t].repeat > 1 /\ "fail" \in seen[t] =>
      \A i \in DOMAIN xunit : xunit[i].status = "fail" => xunit[i].name # t
=============================================================================
