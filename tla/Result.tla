------------------------------- MODULE Result -------------------------------
(***************************************************************************)
(* The result ledger of a Tiden run: class Result of src/tiden/result.py.  *)
(* It keeps a dictionary of test entries, the counters printed in the      *)
(* summary, the key of the test the runner is working on, the list of      *)
(* tests that passed in spite of a known issue, and the xUnit report.      *)
(*                                                                         *)
(* The module has no next-state relation of its own: the runner            *)
(* (TidenRunner) calls these operations, and they are conjuncts of its     *)
(* actions.                                                                *)
(***************************************************************************)
EXTENDS Integers, FiniteSets, Sequences

CONSTANTS
  Tests,     \* the test names ("<module>.<Class>.<method>(<configuration>)")
  MaxIter    \* the largest number of iterations a test is repeated for

ASSUME TestsAssumption == IsFiniteSet(Tests)
ASSUME MaxIterAssumption == MaxIter \in Nat \ {0}

VARIABLES
  tests,     \* the dictionary of entries: key -> status and reported name
  num,       \* the counters of the summary, tests_num
  current,   \* the key of the current test, current_test
  issues,    \* the keys of passed_with_issue
  xunit,     \* the <testcase> elements of the report, in the order appended
  suite      \* the attributes of the <testsuite> element

resultVars == <<tests, num, current, issues, xunit, suite>>

-----------------------------------------------------------------------------
\* A test is stored under its own name, <<t, 0>>, or, once update_test_name has
\* renamed it, under "<t>_iteration_<i>", <<t, i>>.
Iteration == 0 .. MaxIter
Key       == Tests \X Iteration
Plain(t)  == <<t, 0>>
NoKey     == << >>

Verdict == {"pass", "fail", "error"}
Counter == Verdict \cup {"total", "skip"}
Skipped == {"skipped", "skipped_no_start"}
Status  == Verdict \cup Skipped \cup {"running"}
Absent  == "absent"

\* An entry holds the status and the reported 'name', which is set when the entry is
\* made and not touched by a rename.
Entry      == [status : Status \cup {Absent}, name : Tests]
NoEntry(k) == [status |-> Absent, name |-> k[1]]

\* What the <testsuite> element says of the counters.
SuiteOf(n) ==
  [tests |-> n["total"], failures |-> n["fail"], errors |-> n["error"], skipped |-> n["skip"]]

ResultInit ==
  /\ tests   = [k \in Key |-> NoEntry(k)]
  /\ num     = [c \in Counter |-> 0]
  /\ current = NoKey
  /\ issues  = {}
  /\ xunit   = << >>
  /\ suite   = SuiteOf(num)

ResultTypeOK ==
  /\ tests   \in [Key -> Entry]
  /\ num     \in [Counter -> Int]
  /\ current \in Key \cup {NoKey}
  /\ issues  \subseteq Key
  /\ xunit   \in Seq([name : Tests, status : Status])
  /\ suite   \in [tests : Int, failures : Int, errors : Int, skipped : Int]

-----------------------------------------------------------------------------
\* update_xunit: one more <testcase> element for the current entry, named by the
\* entry's 'name', and the counters copied to the <testsuite> attributes.
UpdateXunit(entry, n) ==
  /\ xunit' = Append(xunit, entry)
  /\ suite' = SuiteOf(n)

\* The counters with one more test in each of the given ones.
CountIn(S) == [c \in Counter |-> num[c] + (IF c \in S THEN 1 ELSE 0)]

\* start_testcase: a test that already has an entry (an earlier iteration) keeps its
\* status and is not counted again.
StartTestcaseRecount(t) ==
  /\ current' = Plain(t)
  /\ tests'   = [tests EXCEPT ![Plain(t)] = [status |-> "running", name |-> t]]
  /\ num'     = CountIn({"total"})
  /\ UNCHANGED <<issues, xunit, suite>>

StartTestcase(t) ==
  /\ current' = Plain(t)
  /\ \/ /\ tests[Plain(t)].status = Absent
        /\ tests' = [tests EXCEPT ![Plain(t)] = [status |-> "running", name |-> t]]
        /\ num'   = CountIn({"total"})
     \/ /\ tests[Plain(t)].status # Absent
        /\ UNCHANGED <<tests, num>>
  /\ UNCHANGED <<issues, xunit, suite>>

\* skip_testcase_no_start followed by update_xunit, as _skip_tests calls them.
SkipTestcaseNoStart(t, s) ==
  /\ current' = Plain(t)
  /\ tests'   = [tests EXCEPT ![Plain(t)] = [status |-> s, name |-> t]]
  /\ num'     = CountIn({"total", "skip"})
  /\ UpdateXunit([name |-> t, status |-> s], num')
  /\ UNCHANGED issues

\* stop_testcase reads self.tests[self.current_test] and, unless the entry is still
\* running, decrements tests_num of its status: both are lookups that raise KeyError
\* when there is no such entry, and when the entry is a skipped one.
CanStop ==
  /\ current # NoKey
  /\ tests[current].status \in Verdict \cup {"running"}

\* The counters after an entry went from one status to another; there is no counter of
\* the running tests.
RecountNoDecrement(old, v) ==
  [c \in Counter |-> num[c] + (IF c = v /\ old # v THEN 1 ELSE 0)]

Recount(old, v) ==
  [c \in Counter |-> num[c] + (IF c = v THEN 1 ELSE 0) - (IF c = old THEN 1 ELSE 0)]

RecordOnce(v, knownIssue) ==
  /\ tests'  = [tests EXCEPT ![current].status = v]
  /\ num'    = Recount(tests[current].status, v)
  /\ issues' = IF knownIssue /\ v = "pass" THEN issues \cup {current} ELSE issues
  /\ IF tests[current].status = "running"
     THEN UpdateXunit([name |-> tests[current].name, status |-> v], num')
     ELSE xunit' = xunit /\ suite' = SuiteOf(num')

RecordVerdict(v, knownIssue) ==
  /\ tests'  = [tests EXCEPT ![current].status = v]
  /\ num'    = Recount(tests[current].status, v)
  /\ issues' = IF knownIssue /\ v = "pass" THEN issues \cup {current} ELSE issues
  /\ UpdateXunit([name |-> tests[current].name, status |-> v], num')

\* stop_testcase: a 'fail' is kept whatever the later iterations give, and nothing at
\* all is updated then.
StopNotSticky(v, knownIssue) ==
  /\ CanStop
  /\ RecordVerdict(v, knownIssue)
  /\ UNCHANGED current

StopTestcase(v, knownIssue) ==
  /\ CanStop
  /\ \/ /\ tests[current].status = "fail"
        /\ UNCHANGED <<tests, num, issues, xunit, suite>>
     \/ /\ tests[current].status # "fail"
        /\ RecordVerdict(v, knownIssue)
  /\ UNCHANGED current

\* update_test_name with the name "<t>_iteration_<i>": the entry of the current test
\* moves to the new key; current_test keeps the old one.
UpdateTestName(t, i) ==
  /\ tests' = [k \in Key |-> CASE k = <<t, i>> -> tests[current]
                             [] k # <<t, i>> /\ k = current -> NoEntry(k)
                             [] OTHER -> tests[k]]
  /\ UNCHANGED <<num, current, issues, xunit, suite>>

-----------------------------------------------------------------------------
\* The keys whose entry has one of the given statuses.
WithStatus(S) == {k \in Key : tests[k].status \in S}

\* The summary is the tally of the entries.
CountersMatch ==
  /\ num["total"] = Cardinality(WithStatus(Status))
  /\ num["pass"]  = Cardinality(WithStatus({"pass"}))
  /\ num["fail"]  = Cardinality(WithStatus({"fail"}))
  /\ num["error"] = Cardinality(WithStatus({"error"}))
  /\ num["skip"]  = Cardinality(WithStatus(Skipped))

\* The entries reported under the name of a test.
EntriesOf(t) == {k \in WithStatus(Status) : tests[k].name = t}

\* The report for TestRail, made from the entries when the run is over; it does not know the
\* status of a running test.
TestrailStatus ==
  [s \in Status |-> CASE s = "pass" -> "passed"
                     [] s \in {"fail", "error"} -> "failed"
                     [] s = "skipped" -> "skipped"
                     [] s = "skipped_no_start" -> "not started"
                     [] s = "running" -> "None"]

TestrailReport ==
  {[function |-> tests[k].name, last_status |-> TestrailStatus[tests[k].status]] :
     k \in WithStatus(Status)}
=============================================================================
