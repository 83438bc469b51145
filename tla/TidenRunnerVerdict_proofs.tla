---------------------- MODULE TidenRunnerVerdict_proofs ----------------------
(***************************************************************************)
(* Proofs about the verdicts: a failure is never lost and a pass is always *)
(* earned, whatever the iterations, the renames and the hooks that raise   *)
(* between two steps.                                                      *)
(*                                                                         *)
(* The difficulty is that the runner writes through current_test, which    *)
(* after a hook that raised is the key of another test.  VInv says why     *)
(* that does no harm to the verdicts: two entries never have one reported  *)
(* name, a test that is still to come has none, and a failure stays what   *)
(* it is; a pass written through a stale key comes from an interrupt.      *)
(***************************************************************************)
EXTENDS TidenRunner_proofs

Present(k) == tests[k].status # Absent

\* A reported name has one entry, none before the test's turn, and during it only the
\* one under the test's own key.
NamesOK ==
  /\ \A k, j \in Key : Present(k) /\ Present(j) /\ tests[k].name = tests[j].name => k = j
  /\ \A k \in Key : Present(k) => ~ Pending(tests[k].name)
  /\ \A k \in Key : Present(k) /\ InPhase(tests[k].name) => k = Plain(tests[k].name)
  /\ \A t \in Tests : Present(Plain(t)) => tests[Plain(t)].name = t

\* What the entries say of what the iterations did.
HistoryOK ==
  /\ \A t \in Tests : "fail" \in seen[t] =>
       \E k \in Key : tests[k].status = "fail" /\ tests[k].name = t
  /\ \A k \in Key : tests[k].status = "pass" =>
       last[tests[k].name] \in {"ok", "interrupted"}

\* The verdict about to be written is that of the iteration, under the test's own key, unless
\* a hook raised.
IterationOK ==
  /\ pc \in {"test_setup", "execute"} => current = Plain(test) /\ Present(current)
  /\ pc = "stop" /\ outcome # "none" =>
       current = Plain(test) /\ Present(current) /\ status = StatusFor(outcome)

VInv == NamesOK /\ HistoryOK /\ IterationOK

-----------------------------------------------------------------------------
LEMMA VerdictInit == Init => VInv
<1> SUFFICES ASSUME Init PROVE VInv
  OBVIOUS
<1>1. \A k \in Key : tests[k].status = Absent
  BY KeyFacts DEF Init, ResultInit, NoEntry
<1>2. NamesOK
  BY <1>1, KeyFacts DEF NamesOK, Present
<1>3. HistoryOK
  BY <1>1 DEF HistoryOK, Init, Absent
<1>4. IterationOK
  BY DEF IterationOK, Init
<1> QED BY <1>2, <1>3, <1>4 DEF VInv

\* A step that touches neither the entries nor the history, and gives no test a new turn.
LEMMA EntriesUnchanged ==
  ASSUME ResultTypeOK, NamesOK, HistoryOK, UNCHANGED <<tests, seen, last>>,
         \A t \in Tests : Pending(t)' => Pending(t),
         \A t \in Tests : InPhase(t)' => InPhase(t) \/ Pending(t)
  PROVE  NamesOK' /\ HistoryOK'
<1>1. \A k \in Key : tests[k].name \in Tests
  BY DEF ResultTypeOK, Entry
<1>2. NamesOK'
  BY <1>1 DEF NamesOK, Present, Plain
<1>3. HistoryOK'
  BY DEF HistoryOK
<1> QED BY <1>2, <1>3

LEMMA VerdictNext ==
  ASSUME IInv, VInv, [Next]_vars
  PROVE  VInv'
<1> USE DEF IInv, TypeOK, VInv
<1> USE DEF resultVars, inputVars, planVars, historyVars, Move
<1>1. ASSUME CheckRequirements
      PROVE  VInv'
  <2>1. /\ UNCHANGED <<tests, seen, last>>
        /\ \A x \in Tests : Pending(x)' => Pending(x)
        /\ \A x \in Tests : InPhase(x)' => InPhase(x) \/ Pending(x)
    BY <1>1 DEF CheckRequirements, Pending, InPhase, TestPhase
  <2>2. IterationOK'
    BY <1>1 DEF CheckRequirements, IterationOK, Present
  <2> QED BY <2>1, <2>2, EntriesUnchanged
<1>2. ASSUME NEW m \in Modules, PrepareModule(m)
      PROVE  VInv'
  <2>1. /\ UNCHANGED <<tests, seen, last>>
        /\ \A x \in Tests : Pending(x)' => Pending(x)
        /\ \A x \in Tests : InPhase(x)' => InPhase(x) \/ Pending(x)
    BY <1>2 DEF PrepareModule, Pending, InPhase, TestPhase
  <2>2. IterationOK'
    BY <1>2 DEF PrepareModule, IterationOK, Present
  <2> QED BY <2>1, <2>2, EntriesUnchanged
<1>3. ASSUME SkipDone
      PROVE  VInv'
  <2>1. /\ UNCHANGED <<tests, seen, last>>
        /\ \A x \in Tests : Pending(x)' => Pending(x)
        /\ \A x \in Tests : InPhase(x)' => InPhase(x) \/ Pending(x)
    BY <1>3 DEF SkipDone, Pending, InPhase, TestPhase
  <2>2. IterationOK'
    BY <1>3 DEF SkipDone, IterationOK, Present
  <2> QED BY <2>1, <2>2, EntriesUnchanged
<1>4. ASSUME NEW o \in {"ok", "error", "interrupted"}, NEW crash \in BOOLEAN, ModuleSetup(o, crash)
      PROVE  VInv'
  <2>1. /\ UNCHANGED <<tests, seen, last>>
        /\ \A x \in Tests : Pending(x)' => Pending(x)
        /\ \A x \in Tests : InPhase(x)' => InPhase(x) \/ Pending(x)
    BY <1>4 DEF ModuleSetup, Pending, InPhase, TestPhase
  <2>2. IterationOK'
    BY <1>4 DEF ModuleSetup, IterationOK, Present
  <2> QED BY <2>1, <2>2, EntriesUnchanged
<1>5. ASSUME NEW t \in Tests, PickTest(t)
      PROVE  VInv'
  <2>1. /\ UNCHANGED <<tests, seen, last>>
        /\ \A x \in Tests : Pending(x)' => Pending(x)
        /\ \A x \in Tests : InPhase(x)' => InPhase(x) \/ Pending(x)
    BY <1>5 DEF PickTest, Pending, InPhase, TestPhase
  <2>2. IterationOK'
    BY <1>5 DEF PickTest, IterationOK, Present
  <2> QED BY <2>1, <2>2, EntriesUnchanged
<1>6. ASSUME NEW o \in Outcome, BeforeTestMethod(o)
      PROVE  VInv'
  <2>1. /\ UNCHANGED <<tests, seen, last>>
        /\ \A x \in Tests : Pending(x)' => Pending(x)
        /\ \A x \in Tests : InPhase(x)' => InPhase(x) \/ Pending(x)
    BY <1>6 DEF BeforeTestMethod, Pending, InPhase, TestPhase
  <2>2. IterationOK'
    BY <1>6 DEF BeforeTestMethod, IterationOK, Present
  <2> QED BY <2>1, <2>2, EntriesUnchanged
<1>7. ASSUME NEW o \in Outcome, TestSetup(o)
      PROVE  VInv'
  <2>1. /\ UNCHANGED <<tests, seen, last>>
        /\ \A x \in Tests : Pending(x)' => Pending(x)
        /\ \A x \in Tests : InPhase(x)' => InPhase(x) \/ Pending(x)
    BY <1>7 DEF TestSetup, Pending, InPhase, TestPhase
  <2>2. IterationOK'
    BY <1>7 DEF TestSetup, Outcome, IterationOK, Present
  <2> QED BY <2>1, <2>2, EntriesUnchanged
<1>8. ASSUME NEW o \in Outcome, Execute(o)
      PROVE  VInv'
  <2>1. /\ UNCHANGED <<tests, seen, last>>
        /\ \A x \in Tests : Pending(x)' => Pending(x)
        /\ \A x \in Tests : InPhase(x)' => InPhase(x) \/ Pending(x)
    BY <1>8 DEF Execute, Pending, InPhase, TestPhase
  <2>2. IterationOK'
    BY <1>8 DEF Execute, Outcome, IterationOK, Present
  <2> QED BY <2>1, <2>2, EntriesUnchanged
<1>9. ASSUME StopRaises
      PROVE  VInv'
  <2>1. /\ UNCHANGED <<tests, seen, last>>
        /\ \A x \in Tests : Pending(x)' => Pending(x)
        /\ \A x \in Tests : InPhase(x)' => InPhase(x) \/ Pending(x)
    BY <1>9 DEF StopRaises, Pending, InPhase, TestPhase
  <2>2. IterationOK'
    BY <1>9 DEF StopRaises, IterationOK, Present
  <2> QED BY <2>1, <2>2, EntriesUnchanged
<1>10. ASSUME NEW crash \in BOOLEAN, TestTeardown(crash)
      PROVE  VInv'
  <2>1. /\ UNCHANGED <<tests, seen, last>>
        /\ \A x \in Tests : Pending(x)' => Pending(x)
        /\ \A x \in Tests : InPhase(x)' => InPhase(x) \/ Pending(x)
    BY <1>10 DEF TestTeardown, Pending, InPhase, TestPhase
  <2>2. IterationOK'
    BY <1>10 DEF TestTeardown, IterationOK, Present
  <2> QED BY <2>1, <2>2, EntriesUnchanged
<1>11. ASSUME AfterTestMethod
      PROVE  VInv'
  <2>1. /\ UNCHANGED <<tests, seen, last>>
        /\ \A x \in Tests : Pending(x)' => Pending(x)
        /\ \A x \in Tests : InPhase(x)' => InPhase(x) \/ Pending(x)
    BY <1>11 DEF AfterTestMethod, Pending, InPhase, TestPhase
  <2>2. IterationOK'
    BY <1>11 DEF AfterTestMethod, IterationOK, Present
  <2> QED BY <2>1, <2>2, EntriesUnchanged
<1>12. ASSUME KillStalledJava
      PROVE  VInv'
  <2>1. /\ UNCHANGED <<tests, seen, last>>
        /\ \A x \in Tests : Pending(x)' => Pending(x)
        /\ \A x \in Tests : InPhase(x)' => InPhase(x) \/ Pending(x)
    BY <1>12 DEF KillStalledJava, Pending, InPhase, TestPhase
  <2>2. IterationOK'
    BY <1>12 DEF KillStalledJava, IterationOK, Present
  <2> QED BY <2>1, <2>2, EntriesUnchanged
<1>13. ASSUME NextIteration
      PROVE  VInv'
  <2>1. /\ UNCHANGED <<tests, seen, last>>
        /\ \A x \in Tests : Pending(x)' => Pending(x)
        /\ \A x \in Tests : InPhase(x)' => InPhase(x) \/ Pending(x)
    BY <1>13 DEF NextIteration, Pending, InPhase, TestPhase
  <2>2. IterationOK'
    BY <1>13 DEF NextIteration, IterationOK, Present
  <2> QED BY <2>1, <2>2, EntriesUnchanged
<1>14. ASSUME IterationsDone
      PROVE  VInv'
  <2>1. /\ UNCHANGED <<tests, seen, last>>
        /\ \A x \in Tests : Pending(x)' => Pending(x)
        /\ \A x \in Tests : InPhase(x)' => InPhase(x) \/ Pending(x)
    BY <1>14 DEF IterationsDone, Pending, InPhase, TestPhase
  <2>2. IterationOK'
    BY <1>14 DEF IterationsDone, IterationOK, Present
  <2> QED BY <2>1, <2>2, EntriesUnchanged
<1>15. ASSUME TestsDone
      PROVE  VInv'
  <2>1. /\ UNCHANGED <<tests, seen, last>>
        /\ \A x \in Tests : Pending(x)' => Pending(x)
        /\ \A x \in Tests : InPhase(x)' => InPhase(x) \/ Pending(x)
    BY <1>15 DEF TestsDone, Pending, InPhase, TestPhase
  <2>2. IterationOK'
    BY <1>15 DEF TestsDone, IterationOK, Present
  <2> QED BY <2>1, <2>2, EntriesUnchanged
<1>16. ASSUME NEW crash \in BOOLEAN, ModuleTeardown(crash)
      PROVE  VInv'
  <2>1. /\ UNCHANGED <<tests, seen, last>>
        /\ \A x \in Tests : Pending(x)' => Pending(x)
        /\ \A x \in Tests : InPhase(x)' => InPhase(x) \/ Pending(x)
    BY <1>16 DEF ModuleTeardown, Pending, InPhase, TestPhase
  <2>2. IterationOK'
    BY <1>16 DEF ModuleTeardown, IterationOK, Present
  <2> QED BY <2>1, <2>2, EntriesUnchanged
<1>17. ASSUME AllDone
      PROVE  VInv'
  <2>1. /\ UNCHANGED <<tests, seen, last>>
        /\ \A x \in Tests : Pending(x)' => Pending(x)
        /\ \A x \in Tests : InPhase(x)' => InPhase(x) \/ Pending(x)
    BY <1>17 DEF AllDone, Pending, InPhase, TestPhase
  <2>2. IterationOK'
    BY <1>17 DEF AllDone, IterationOK, Present
  <2> QED BY <2>1, <2>2, EntriesUnchanged
<1>18. ASSUME Aborts
      PROVE  VInv'
  <2>1. /\ UNCHANGED <<tests, seen, last>>
        /\ \A x \in Tests : Pending(x)' => Pending(x)
        /\ \A x \in Tests : InPhase(x)' => InPhase(x) \/ Pending(x)
    BY <1>18 DEF Aborts, Abort, Pending, InPhase, TestPhase, Final
  <2>2. IterationOK'
    BY <1>18 DEF Aborts, Abort, IterationOK, Present, Final
  <2> QED BY <2>1, <2>2, EntriesUnchanged
<1>19. ASSUME NEW t \in Tests, SkipTest(t)
       PROVE  VInv'
  <2> DEFINE e == [status |-> SkipStatus(marks[t]), name |-> t]
  <2>1. /\ Plain(t) \in Key
        /\ tests' = [tests EXCEPT ![Plain(t)] = e]
        /\ tests[Plain(t)].status = Absent
        /\ UNCHANGED <<seen, last, pc, test, left>>
        /\ e.status \in Skipped /\ e.name = t
    BY <1>19, KeyFacts, MaxIterAssumption
       DEF SkipTest, SkipTestcaseNoStart, FreeKeys, Pending, Plain, Iteration, PlanOK,
           SkipStatus, Skipped
  <2>2. /\ Pending(t) /\ ~ Pending(t)' /\ ~ InPhase(t)'
        /\ \A x \in Tests : Pending(x)' => Pending(x)
        /\ \A x \in Tests : ~ InPhase(x)'
    BY <1>19 DEF SkipTest, Pending, PlanOK, InPhase, TestPhase
  <2>3. /\ tests'[Plain(t)] = e
        /\ \A k \in Key : k # Plain(t) => tests'[k] = tests[k]
        /\ \A k \in Key : tests[k].name \in Tests
        /\ \A x \in Tests : Plain(x) \in Key /\ (x # t => Plain(x) # Plain(t))
    BY <2>1, KeyFacts DEF ResultTypeOK, Entry, Plain
  <2> HIDE DEF e
  <2>4. NamesOK'
    BY <2>1, <2>2, <2>3 DEF NamesOK, Present, Plain
  <2>5. HistoryOK'
    BY <2>1, <2>3 DEF HistoryOK, Skipped, Absent
  <2>6. IterationOK'
    BY <1>19 DEF SkipTest, IterationOK
  <2> QED BY <2>4, <2>5, <2>6
<1>20. ASSUME StartTest
       PROVE  VInv'
  <2> DEFINE e == [status |-> "running", name |-> test]
  <2>1. /\ test \in Tests /\ InPhase(test) /\ InPhase(test)' /\ ~ Pending(test)
        /\ StartTestcase(test)
        /\ UNCHANGED <<seen, last, test>>
        /\ Plain(test) \in Key
        /\ \A x \in Tests : (Pending(x)' <=> Pending(x)) /\ (InPhase(x)' <=> InPhase(x))
    BY <1>20, KeyFacts DEF StartTest, PhaseOK, TestPhase, InPhase, Pending, PlanOK
  <2>2. CASE tests[Plain(test)].status # Absent
    <3>1. tests' = tests /\ current' = Plain(test)
      BY <2>1, <2>2 DEF StartTestcase
    <3>2. IterationOK'
      BY <1>20, <2>1, <2>2, <3>1 DEF StartTest, IterationOK, Present
    <3> QED BY <2>1, <3>1, <3>2, EntriesUnchanged
  <2>3. CASE tests[Plain(test)].status = Absent
    <3>1. /\ tests'[Plain(test)] = e
          /\ e.status = "running" /\ e.name = test
          /\ \A k \in Key : k # Plain(test) => tests'[k] = tests[k]
          /\ \A k \in Key : tests[k].name \in Tests
          /\ \A x \in Tests : Plain(x) \in Key /\ (x # test => Plain(x) # Plain(test))
      BY <2>1, <2>3, KeyFacts DEF StartTestcase, ResultTypeOK, Entry, Plain
    <3>2. IterationOK'
      BY <1>20, <2>1, <3>1 DEF StartTest, StartTestcase, IterationOK, Present, Absent, Plain
    <3> HIDE DEF e
    <3>3. \A k \in Key : Present(k) => tests[k].name # test
      BY <2>1, <2>3 DEF NamesOK, Present
    <3>4. NamesOK'
      BY <2>1, <2>3, <3>1, <3>3 DEF NamesOK, Present, Plain
    <3>5. HistoryOK'
      BY <2>1, <2>3, <3>1 DEF HistoryOK, Absent
    <3> QED BY <3>2, <3>4, <3>5
  <2> QED BY <2>2, <2>3
<1>21. ASSUME StopTest
       PROVE  VInv'
  <2>1. /\ test \in Tests /\ InPhase(test) /\ ~ Pending(test)
        /\ current \in Key /\ Present(current)
        /\ status \in Verdict
        /\ \A x \in Tests : (Pending(x)' <=> Pending(x)) /\ (InPhase(x)' <=> InPhase(x))
    BY <1>21 DEF StopTest, StopTestcase, CanStop, PhaseOK, TestPhase, InPhase, Pending, PlanOK,
                 ResultTypeOK, RunnerTypeOK, Present, Absent, Verdict
  <2>2. /\ \A k \in Key : tests'[k].name = tests[k].name
        /\ \A k \in Key : k # current => tests'[k] = tests[k]
        /\ tests'[current].status =
             IF tests[current].status = "fail" THEN "fail" ELSE status
    BY <1>21, <2>1 DEF StopTest, StopTestcase, RecordVerdict, ResultTypeOK, Entry
  <2>3. /\ \A k \in Key : Present(k)' <=> Present(k)
        /\ \A k \in Key : tests[k].name \in Tests
        /\ \A x \in Tests : Plain(x) \in Key
    BY <2>1, <2>2, KeyFacts DEF Present, Verdict, Absent, ResultTypeOK, Entry
  <2>4. NamesOK'
    BY <2>1, <2>2, <2>3 DEF NamesOK, Plain
  <2>5. IterationOK'
    BY <1>21 DEF StopTest, IterationOK
  <2>6. CASE outcome = "none"
    <3>1. /\ UNCHANGED seen
          /\ last' = IF status = "pass"
                     THEN [last EXCEPT ![tests[current].name] = "interrupted"] ELSE last
      BY <1>21, <2>6 DEF StopTest
    <3>2. /\ \A x \in Tests : last'[x] = last[x] \/ last'[x] = "interrupted"
          /\ status = "pass" => last'[tests[current].name] = "interrupted"
      BY <2>1, <2>3, <3>1 DEF RunnerTypeOK
    <3>3. \A x \in Tests : "fail" \in seen'[x] =>
             \E k \in Key : tests'[k].status = "fail" /\ tests'[k].name = x
      <4> SUFFICES ASSUME NEW x \in Tests, "fail" \in seen[x]
                   PROVE  \E k \in Key : tests'[k].status = "fail" /\ tests'[k].name = x
        BY <3>1
      <4>1. PICK k \in Key : tests[k].status = "fail" /\ tests[k].name = x
        BY DEF HistoryOK
      <4> QED BY <2>2, <4>1
    <3>4. \A k \in Key : tests'[k].status = "pass" =>
             last'[tests'[k].name] \in {"ok", "interrupted"}
      BY <2>1, <2>2, <2>3, <3>2 DEF HistoryOK
    <3> QED BY <2>4, <2>5, <3>3, <3>4 DEF HistoryOK
  <2>7. CASE outcome # "none"
    <3>1. /\ current = Plain(test) /\ tests[current].name = test
          /\ status = StatusFor(outcome)
          /\ outcome \in Outcome
          /\ seen' = [seen EXCEPT ![test] = @ \cup {outcome}]
          /\ last' = [last EXCEPT ![test] = outcome]
      BY <1>21, <2>1, <2>7 DEF StopTest, IterationOK, NamesOK, RunnerTypeOK
    <3>2. \A k \in Key : Present(k) /\ tests[k].name = test => k = current
      BY <2>1, <3>1 DEF NamesOK
    <3>3. /\ last'[test] = outcome /\ \A x \in Tests : x # test => last'[x] = last[x]
          /\ seen'[test] = seen[test] \cup {outcome}
          /\ \A x \in Tests : x # test => seen'[x] = seen[x]
      BY <2>1, <3>1 DEF RunnerTypeOK
    <3>4. \A x \in Tests : "fail" \in seen'[x] =>
             \E k \in Key : tests'[k].status = "fail" /\ tests'[k].name = x
      <4> SUFFICES ASSUME NEW x \in Tests, "fail" \in seen'[x]
                   PROVE  \E k \in Key : tests'[k].status = "fail" /\ tests'[k].name = x
        OBVIOUS
      <4>1. CASE x # test
        <5>1. PICK k \in Key : tests[k].status = "fail" /\ tests[k].name = x
          BY <3>3, <4>1 DEF HistoryOK
        <5>2. k # current
          BY <3>1, <4>1, <5>1
        <5> QED BY <2>2, <5>1, <5>2
      <4>2. CASE x = test /\ outcome = "fail"
        BY <2>1, <2>2, <3>1, <4>2 DEF StatusFor
      <4>3. CASE x = test /\ outcome # "fail"
        <5>1. PICK k \in Key : tests[k].status = "fail" /\ tests[k].name = test
          BY <3>3, <4>3 DEF HistoryOK
        <5>2. k = current
          BY <3>2, <5>1 DEF Present, Absent
        <5> QED BY <2>1, <2>2, <3>1, <4>3, <5>1, <5>2
      <4> QED BY <4>1, <4>2, <4>3
    <3>5. \A k \in Key : tests'[k].status = "pass" =>
             last'[tests'[k].name] \in {"ok", "interrupted"}
      <4> SUFFICES ASSUME NEW k \in Key, tests'[k].status = "pass"
                   PROVE  last'[tests'[k].name] \in {"ok", "interrupted"}
        OBVIOUS
      <4>1. CASE k = current
        BY <2>2, <3>1, <3>3, <4>1 DEF StatusFor, Outcome
      <4>2. CASE k # current
        <5>1. tests'[k] = tests[k] /\ Present(k)
          BY <2>2, <4>2 DEF Present, Absent
        <5>2. tests[k].name # test
          BY <3>2, <4>2, <5>1
        <5> QED BY <2>3, <3>3, <5>1, <5>2 DEF HistoryOK
      <4> QED BY <4>1, <4>2
    <3> QED BY <2>4, <2>5, <3>4, <3>5 DEF HistoryOK
  <2> QED BY <2>6, <2>7
<1>22. ASSUME BreakAndRename
       PROVE  VInv'
  <2> DEFINE new == <<test, iter + 1>>
  <2>1. /\ test \in Tests /\ iter + 1 \in Iteration \ {0}
        /\ current \in Key /\ new \in Key
        /\ tests[new].status = Absent
        /\ UNCHANGED <<seen, last>>
        /\ \A x \in Tests : (Pending(x)' <=> Pending(x)) /\ ~ InPhase(x)'
    BY <1>22, MarkFacts, KeyFacts, MaxIterAssumption
       DEF BreakAndRename, PhaseOK, TestPhase, CurrentSet, ResultTypeOK, RunnerTypeOK, Iteration,
           FreeKeys, InPhase, Pending
  <2>2. /\ tests'[new] = tests[current]
        /\ \A k \in Key : k # new /\ k # current => tests'[k] = tests[k]
        /\ current # new => tests'[current].status = Absent
    BY <1>22, <2>1 DEF BreakAndRename, UpdateTestName, NoEntry
  <2>3. \A k \in Key : tests[k].name \in Tests
    BY DEF ResultTypeOK, Entry
  <2>4. \A x \in Tests : Plain(x) \in Key /\ Plain(x) # new
    BY <2>1, KeyFacts DEF Plain
  <2> HIDE DEF new
  <2>5. NamesOK'
    BY <2>1, <2>2, <2>3, <2>4 DEF NamesOK, Present, Plain
  <2>6. HistoryOK'
    BY <2>1, <2>2, <2>3 DEF HistoryOK, Absent
  <2>7. IterationOK'
    BY <1>22 DEF BreakAndRename, IterationOK
  <2> QED BY <2>5, <2>6, <2>7
<1>23. ASSUME UNCHANGED vars
       PROVE  VInv'
  <2>1. /\ UNCHANGED <<tests, seen, last>>
        /\ \A x \in Tests : Pending(x)' => Pending(x)
        /\ \A x \in Tests : InPhase(x)' => InPhase(x) \/ Pending(x)
    BY <1>23 DEF vars, Pending, InPhase
  <2>2. IterationOK'
    BY <1>23 DEF vars, IterationOK, Present
  <2> QED BY <2>1, <2>2, EntriesUnchanged
<1> QED
  BY <1>1, <1>2, <1>3, <1>4, <1>5, <1>6, <1>7, <1>8, <1>9, <1>10, <1>11, <1>12, <1>13, <1>14,
     <1>15, <1>16, <1>17, <1>18, <1>19, <1>20, <1>21, <1>22, <1>23 DEF Next, Terminated

-----------------------------------------------------------------------------
\* A test one of whose iterations failed is reported under exactly one entry, and that
\* entry is a failure: no later iteration, rename, hook or other test changes it
\* (stop_testcase, update_test_name).
THEOREM FailuresAreFinal == Spec => []FailureIsFinal
<1>1. ResultTypeOK /\ NamesOK /\ HistoryOK => FailureIsFinal
  <2> SUFFICES ASSUME ResultTypeOK, NamesOK, HistoryOK, NEW t \in Tests, "fail" \in seen[t]
               PROVE  \E k \in Key : EntriesOf(t) = {k} /\ tests[k].status = "fail"
    BY DEF FailureIsFinal
  <2>1. PICK k \in Key : tests[k].status = "fail" /\ tests[k].name = t
    BY DEF HistoryOK
  <2>2. \A j \in Key : Present(j) <=> tests[j].status \in Status
    BY DEF Present, ResultTypeOK, Entry, Status, Verdict, Skipped, Absent
  <2>3. EntriesOf(t) = {k}
    BY <2>1, <2>2 DEF EntriesOf, WithStatus, NamesOK, Status, Verdict
  <2> QED BY <2>1, <2>3
<1>2. IInv /\ VInv /\ [Next]_vars => (IInv /\ VInv)'
  BY InvNext, VerdictNext
<1>3. Init => IInv /\ VInv
  BY InvInit, VerdictInit
<1>4. IInv /\ VInv => FailureIsFinal
  BY <1>1 DEF IInv, TypeOK, VInv
<1> QED BY <1>2, <1>3, <1>4, PTL DEF Spec

\* A test reported as passed passed in its latest iteration, or an interrupt was swallowed
\* under its name: an entry never shows a pass that another test earned.
THEOREM PassesAreEarned == Spec => []PassIsEarned
<1>1. IInv /\ VInv => PassIsEarned
  BY DEF VInv, HistoryOK, PassIsEarned, EntriesOf, WithStatus
<1>2. IInv /\ VInv /\ [Next]_vars => (IInv /\ VInv)'
  BY InvNext, VerdictNext
<1>3. Init => IInv /\ VInv
  BY InvInit, VerdictInit
<1> QED BY <1>1, <1>2, <1>3, PTL DEF Spec

-----------------------------------------------------------------------------
(***************************************************************************)
(* The two reports.                                                        *)
(***************************************************************************)

\* The last <testcase> element named n of the report x has the status s.
LastSays(x, n, s) ==
  \E i \in DOMAIN x :
    /\ x[i].name = n /\ x[i].status = s
    /\ \A j \in DOMAIN x : x[j].name = n => j <= i

XunitOK ==
  \A k \in Key : Present(k) /\ tests[k].status # "running" =>
    LastSays(xunit, tests[k].name, tests[k].status)

LEMMA EntryFacts ==
  ASSUME ResultTypeOK
  PROVE  \A k \in Key : /\ tests[k].name \in Tests
                        /\ Present(k) <=> tests[k].status \in Status
BY DEF ResultTypeOK, Entry, Present, Status, Verdict, Skipped, Absent

\* An element appended to the report is the last one of its name, and of no other.
LEMMA AppendedIsLast ==
  ASSUME ResultTypeOK, NEW e \in [name : Tests, status : Status], xunit' = Append(xunit, e)
  PROVE  /\ LastSays(xunit', e.name, e.status)
         /\ \A n \in Tests \ {e.name}, s \in Status : LastSays(xunit, n, s) => LastSays(xunit', n, s)
<1> DEFINE n == Len(xunit)
<1>1. /\ n \in Nat /\ DOMAIN xunit = 1 .. n /\ DOMAIN xunit' = 1 .. n + 1
      /\ xunit'[n + 1] = e
      /\ \A i \in 1 .. n : xunit'[i] = xunit[i]
  BY DEF ResultTypeOK
<1> HIDE DEF n
<1>2. \A i \in 1 .. n + 1 : i \in 1 .. n \/ i = n + 1
  BY <1>1
<1>3. LastSays(xunit', e.name, e.status)
  BY <1>1 DEF LastSays
<1>4. ASSUME NEW x \in Tests \ {e.name}, NEW s \in Status, LastSays(xunit, x, s)
      PROVE  LastSays(xunit', x, s)
  BY <1>1, <1>2, <1>4 DEF LastSays
<1> QED BY <1>3, <1>4

LEMMA XunitNext ==
  ASSUME IInv, VInv, XunitOK, [Next]_vars
  PROVE  XunitOK'
<1> USE DEF resultVars, inputVars, planVars, historyVars, Move, IInv, TypeOK, VInv
<1>1. ASSUME CheckRequirements
      PROVE  XunitOK'
  BY <1>1 DEF CheckRequirements, XunitOK, Present, LastSays
<1>2. ASSUME NEW m \in Modules, PrepareModule(m)
      PROVE  XunitOK'
  BY <1>2 DEF PrepareModule, XunitOK, Present, LastSays
<1>3. ASSUME NEW t \in Tests, SkipTest(t)
      PROVE  XunitOK'
  <2> DEFINE e == [name |-> t, status |-> SkipStatus(marks[t])]
  <2>1. /\ Plain(t) \in Key /\ Pending(t)
        /\ tests'[Plain(t)] = [status |-> SkipStatus(marks[t]), name |-> t]
        /\ \A k \in Key : k # Plain(t) => tests'[k] = tests[k]
        /\ xunit' = Append(xunit, e)
    BY <1>3, KeyFacts DEF SkipTest, SkipTestcaseNoStart, UpdateXunit, Pending, ResultTypeOK
  <2>2. /\ LastSays(xunit', t, SkipStatus(marks[t]))
        /\ \A n \in Tests \ {t}, s \in Status : LastSays(xunit, n, s) => LastSays(xunit', n, s)
    <3>1. SkipStatus(marks[t]) \in Skipped
      BY <1>3 DEF SkipTest, PlanOK, SkipStatus, Skipped
    <3>2. e \in [name : Tests, status : Status] /\ e.name = t /\ e.status = SkipStatus(marks[t])
      BY <3>1 DEF Status
    <3> HIDE DEF e
    <3> QED BY <2>1, <3>2, AppendedIsLast
  <2> QED BY <2>1, <2>2, EntryFacts DEF XunitOK, NamesOK, Present, Absent
<1>4. ASSUME SkipDone
      PROVE  XunitOK'
  BY <1>4 DEF SkipDone, XunitOK, Present, LastSays
<1>5. ASSUME NEW o \in {"ok", "error", "interrupted"}, NEW crash \in BOOLEAN,
             ModuleSetup(o, crash)
      PROVE  XunitOK'
  BY <1>5 DEF ModuleSetup, XunitOK, Present, LastSays
<1>6. ASSUME NEW t \in Tests, PickTest(t)
      PROVE  XunitOK'
  BY <1>6 DEF PickTest, XunitOK, Present, LastSays
<1>7. ASSUME NEW o \in Outcome, BeforeTestMethod(o)
      PROVE  XunitOK'
  BY <1>7 DEF BeforeTestMethod, XunitOK, Present, LastSays
<1>8. ASSUME StartTest
      PROVE  XunitOK'
  <2>1. /\ xunit' = xunit
        /\ \A k \in Key : tests'[k] = tests[k] \/ tests'[k].status = "running"
    BY <1>8 DEF StartTest, StartTestcase, ResultTypeOK
  <2> QED BY <2>1 DEF XunitOK, Present, LastSays
<1>9. ASSUME NEW o \in Outcome, TestSetup(o)
      PROVE  XunitOK'
  BY <1>9 DEF TestSetup, XunitOK, Present, LastSays
<1>10. ASSUME NEW o \in Outcome, Execute(o)
       PROVE  XunitOK'
  BY <1>10 DEF Execute, XunitOK, Present, LastSays
<1>11. ASSUME StopTest
       PROVE  XunitOK'
  <2>1. /\ current \in Key /\ Present(current) /\ status \in Verdict
        /\ StopTestcase(status, marks[test].known)
    BY <1>11 DEF StopTest, StopTestcase, CanStop, ResultTypeOK, RunnerTypeOK, Present, Absent,
                  Verdict
  <2>2. CASE tests[current].status = "fail"
    <3>1. UNCHANGED <<tests, xunit>>
      BY <2>1, <2>2 DEF StopTestcase
    <3> QED BY <3>1 DEF XunitOK, Present, LastSays
  <2>3. CASE tests[current].status # "fail"
    <3> DEFINE e == [name |-> tests[current].name, status |-> status]
    <3>1. /\ tests' = [tests EXCEPT ![current].status = status]
          /\ xunit' = Append(xunit, e)
      BY <2>1, <2>3 DEF StopTestcase, RecordVerdict, UpdateXunit
    <3>2. /\ tests'[current].name = tests[current].name /\ tests'[current].status = status
          /\ \A k \in Key : k # current => tests'[k] = tests[k]
      BY <2>1, <3>1 DEF ResultTypeOK, Entry
    <3>3. /\ LastSays(xunit', tests[current].name, status)
          /\ \A n \in Tests \ {tests[current].name}, s \in Status :
               LastSays(xunit, n, s) => LastSays(xunit', n, s)
      <4>1. e \in [name : Tests, status : Status] /\ e.name = tests[current].name /\ e.status = status
        BY <2>1, EntryFacts DEF Status
      <4> HIDE DEF e
      <4> QED BY <3>1, <4>1, AppendedIsLast
    <3> QED BY <2>1, <3>2, <3>3, EntryFacts DEF XunitOK, NamesOK, Present
  <2> QED BY <2>2, <2>3
<1>12. ASSUME StopRaises
       PROVE  XunitOK'
  BY <1>12 DEF StopRaises, XunitOK, Present, LastSays
<1>13. ASSUME NEW crash \in BOOLEAN, TestTeardown(crash)
       PROVE  XunitOK'
  BY <1>13 DEF TestTeardown, XunitOK, Present, LastSays
<1>14. ASSUME AfterTestMethod
       PROVE  XunitOK'
  BY <1>14 DEF AfterTestMethod, XunitOK, Present, LastSays
<1>15. ASSUME KillStalledJava
       PROVE  XunitOK'
  BY <1>15 DEF KillStalledJava, XunitOK, Present, LastSays
<1>16. ASSUME BreakAndRename
       PROVE  XunitOK'
  <2>1. /\ xunit' = xunit
        /\ \A k \in Key : \/ tests'[k] = tests[k]
                            \/ tests'[k] = tests[current]
                            \/ tests'[k].status = Absent
        /\ current \in Key
    BY <1>16 DEF BreakAndRename, UpdateTestName, CurrentSet, ResultTypeOK, NoEntry
  <2> QED BY <2>1 DEF XunitOK, Present, LastSays
<1>17. ASSUME NextIteration
       PROVE  XunitOK'
  BY <1>17 DEF NextIteration, XunitOK, Present, LastSays
<1>18. ASSUME IterationsDone
       PROVE  XunitOK'
  BY <1>18 DEF IterationsDone, XunitOK, Present, LastSays
<1>19. ASSUME TestsDone
       PROVE  XunitOK'
  BY <1>19 DEF TestsDone, XunitOK, Present, LastSays
<1>20. ASSUME NEW crash \in BOOLEAN, ModuleTeardown(crash)
       PROVE  XunitOK'
  BY <1>20 DEF ModuleTeardown, XunitOK, Present, LastSays
<1>21. ASSUME AllDone
       PROVE  XunitOK'
  BY <1>21 DEF AllDone, XunitOK, Present, LastSays
<1>22. ASSUME Aborts
       PROVE  XunitOK'
  BY <1>22 DEF Aborts, Abort, XunitOK, Present, LastSays
<1>23. ASSUME UNCHANGED vars
       PROVE  XunitOK'
  BY <1>23 DEF vars, XunitOK, Present, LastSays
<1> QED
  BY <1>1, <1>2, <1>3, <1>4, <1>5, <1>6, <1>7, <1>8, <1>9, <1>10, <1>11, <1>12, <1>13, <1>14,
     <1>15, <1>16, <1>17, <1>18, <1>19, <1>20, <1>21, <1>22, <1>23 DEF Next, Terminated

\* The two reports give a finished test one verdict: the last <testcase> element of the
\* xUnit report, which is written as the run goes (update_xunit), has the status that the
\* entry has at the end, and the report for TestRail, made from the entries, has one record
\* of the test with that status.
THEOREM TheReportsAgree == Spec => []ReportsAgree
<1>1. IInv /\ VInv /\ XunitOK => ReportsAgree
  <2> SUFFICES ASSUME IInv, VInv, XunitOK, NEW t \in Tests, NEW k \in EntriesOf(t),
                      tests[k].status # "running"
               PROVE  LET written == {i \in DOMAIN xunit : xunit[i].name = t}
                      IN  \E i \in written :
                            /\ \A j \in written : j <= i
                            /\ xunit[i].status = tests[k].status
                            /\ {r \in TestrailReport : r.function = t}
                                 = {[function |-> t,
                                     last_status |-> TestrailStatus[xunit[i].status]]}
    BY DEF ReportsAgree
  <2>1. k \in Key /\ Present(k) /\ tests[k].name = t /\ tests[k].status \in Status
    BY EntryFacts DEF EntriesOf, WithStatus, IInv, TypeOK
  <2>2. PICK i \in DOMAIN xunit :
          /\ xunit[i].name = t /\ xunit[i].status = tests[k].status
          /\ \A j \in DOMAIN xunit : xunit[j].name = t => j <= i
    BY <2>1 DEF XunitOK, LastSays
  <2>3. {r \in TestrailReport : r.function = t}
          = {[function |-> t, last_status |-> TestrailStatus[tests[k].status]]}
    <3> DEFINE Row(j) == [function |-> tests[j].name,
                          last_status |-> TestrailStatus[tests[j].status]]
    <3>1. TestrailReport = {Row(j) : j \in WithStatus(Status)}
      BY DEF TestrailReport
    <3>2. \A j \in WithStatus(Status) : Row(j).function = t => j = k
      BY <2>1, EntryFacts DEF WithStatus, IInv, TypeOK, VInv, NamesOK
    <3>3. k \in WithStatus(Status) /\ Row(k).function = t
      BY <2>1 DEF WithStatus
    <3>4. {r \in TestrailReport : r.function = t} = {Row(k)}
      <4> HIDE DEF Row
      <4> QED BY <3>1, <3>2, <3>3
    <3> QED BY <2>1, <3>4
  <2> QED BY <2>2, <2>3
<1>2. Init => XunitOK
  BY KeyFacts DEF Init, ResultInit, XunitOK, Present, NoEntry
<1>3. IInv /\ VInv /\ XunitOK /\ [Next]_vars => (IInv /\ VInv /\ XunitOK)'
  BY InvNext, VerdictNext, XunitNext
<1> QED BY <1>1, <1>2, <1>3, InvInit, VerdictInit, PTL DEF Spec

-----------------------------------------------------------------------------
(***************************************************************************)
(* Every test is reported.                                                 *)
(***************************************************************************)

\* The statuses of a test the runner is done with.
Concluded == Status \ {"running"}

Reported(t) == \E k \in Key : tests[k].name = t /\ tests[k].status \in Concluded

\* Of a run that goes on, every test is still to come, at work, or reported; a module is left
\* only with its plan carried out, and a test only with its verdict recorded.
ReportedOK ==
  /\ pc \notin {"aborted", "exited"} =>
       \A t \in Tests : Pending(t) \/ InPhase(t) \/ Reported(t)
  /\ pc \notin {"aborted", "exited", "skip"} => toSkip = {}
  /\ pc \in {"requirements", "modules", "done"} => toRun = {}
  /\ pc = "teardown" /\ setupOk => toRun = {}
  /\ pc = "done" => left = {}
  /\ pc = "stop" => outcome # "none"
  /\ pc \in {"test_teardown", "after", "kill", "iterate"} => Reported(test)

LEMMA ReportedNext ==
  ASSUME IInv, VInv, ReportedOK, "hook" \notin Faults, [Next]_vars
  PROVE  ReportedOK'
<1> USE DEF resultVars, inputVars, planVars, historyVars, Move, IInv, TypeOK, VInv
<1>1. ASSUME CheckRequirements
      PROVE  ReportedOK'
  <2>1. \A x \in Tests : Reported(x)' <=> Reported(x)
    BY <1>1 DEF CheckRequirements, Reported
  <2> QED BY <1>1, <2>1 DEF CheckRequirements, ReportedOK, Pending, InPhase, TestPhase
<1>2. ASSUME NEW m \in Modules, PrepareModule(m)
      PROVE  ReportedOK'
  <2>1. \A x \in Tests : Reported(x)' <=> Reported(x)
    BY <1>2 DEF PrepareModule, Reported
  <2> QED BY <1>2, <2>1 DEF PrepareModule, ReportedOK, Pending, InPhase, TestPhase
<1>3. ASSUME NEW t \in Tests, SkipTest(t)
      PROVE  ReportedOK'
  <2>1. /\ Plain(t) \in Key /\ t \in toSkip
        /\ tests'[Plain(t)] = [status |-> SkipStatus(marks[t]), name |-> t]
        /\ \A k \in Key : k # Plain(t) => tests'[k] = tests[k]
        /\ tests[Plain(t)].status = Absent
    BY <1>3, KeyFacts, MaxIterAssumption
       DEF SkipTest, SkipTestcaseNoStart, Pending, ResultTypeOK, FreeKeys, Plain, Iteration
  <2>2. SkipStatus(marks[t]) \in Concluded
    BY <2>1 DEF PlanOK, SkipStatus, Concluded, Status, Skipped, Verdict
  <2>3. \A x \in Tests : Reported(x) => Reported(x)'
    BY <2>1 DEF Reported, Concluded, Absent, Status, Verdict, Skipped
  <2>4. Reported(t)'
    BY <2>1, <2>2 DEF Reported
  <2>5. \A x \in Tests : Pending(x) => Pending(x)' \/ x = t
    BY <1>3 DEF SkipTest, Pending
  <2> QED BY <1>3, <2>3, <2>4, <2>5 DEF SkipTest, ReportedOK, InPhase, TestPhase
<1>4. ASSUME SkipDone
      PROVE  ReportedOK'
  <2>1. \A x \in Tests : Reported(x)' <=> Reported(x)
    BY <1>4 DEF SkipDone, Reported
  <2> QED BY <1>4, <2>1 DEF SkipDone, ReportedOK, Pending, InPhase, TestPhase
<1>5. ASSUME NEW o \in {"ok", "error", "interrupted"}, NEW crash \in BOOLEAN,
             ModuleSetup(o, crash)
      PROVE  ReportedOK'
  <2>1. \A x \in Tests : Reported(x)' <=> Reported(x)
    BY <1>5 DEF ModuleSetup, Reported
  <2> QED BY <1>5, <2>1 DEF ModuleSetup, ReportedOK, Pending, InPhase, TestPhase
<1>6. ASSUME NEW t \in Tests, PickTest(t)
      PROVE  ReportedOK'
  <2>1. \A x \in Tests : Reported(x)' <=> Reported(x)
    BY <1>6 DEF PickTest, Reported
  <2> QED BY <1>6, <2>1 DEF PickTest, ReportedOK, Pending, InPhase, TestPhase
<1>7. ASSUME NEW o \in Outcome, BeforeTestMethod(o)
      PROVE  ReportedOK'
  <2>1. o = "ok"
    BY <1>7 DEF BeforeTestMethod
  <2>2. \A x \in Tests : Reported(x)' <=> Reported(x)
    BY <1>7 DEF BeforeTestMethod, Reported
  <2> QED BY <1>7, <2>1, <2>2 DEF BeforeTestMethod, ReportedOK, Pending, InPhase, TestPhase
<1>8. ASSUME StartTest
      PROVE  ReportedOK'
  <2>1. \A x \in Tests : Reported(x) => Reported(x)'
    BY <1>8, KeyFacts DEF StartTest, StartTestcase, Reported, ResultTypeOK, Concluded, Absent,
                            Status, Verdict, Skipped
  <2> QED BY <1>8, <2>1 DEF StartTest, ReportedOK, Pending, InPhase, TestPhase
<1>9. ASSUME NEW o \in Outcome, TestSetup(o)
      PROVE  ReportedOK'
  <2>1. \A x \in Tests : Reported(x)' <=> Reported(x)
    BY <1>9 DEF TestSetup, Reported
  <2> QED BY <1>9, <2>1 DEF TestSetup, ReportedOK, Pending, InPhase, TestPhase, Outcome
<1>10. ASSUME NEW o \in Outcome, Execute(o)
       PROVE  ReportedOK'
  <2>1. \A x \in Tests : Reported(x)' <=> Reported(x)
    BY <1>10 DEF Execute, Reported
  <2> QED BY <1>10, <2>1 DEF Execute, ReportedOK, Pending, InPhase, TestPhase, Outcome
<1>11. ASSUME StopTest
       PROVE  ReportedOK'
  <2>1. /\ test \in Tests /\ current = Plain(test) /\ current \in Key
        /\ tests[current].name = test
        /\ status \in Verdict /\ StopTestcase(status, marks[test].known)
    BY <1>11, KeyFacts DEF StopTest, ReportedOK, IterationOK, NamesOK, PhaseOK, TestPhase, RunnerTypeOK
  <2>2. /\ tests'[current].name = test /\ tests'[current].status \in Verdict
        /\ \A k \in Key : k # current => tests'[k] = tests[k]
    BY <2>1 DEF StopTestcase, RecordVerdict, ResultTypeOK, Entry, Verdict
  <2>3. Reported(test)' /\ \A x \in Tests : Reported(x) => Reported(x)'
    BY <1>11, <2>1, <2>2 DEF StopTest, Reported, Concluded, Status, Verdict
  <2> QED BY <1>11, <2>3 DEF StopTest, ReportedOK, Pending, InPhase, TestPhase
<1>12. ASSUME StopRaises
       PROVE  ReportedOK'
  <2>1. \A x \in Tests : Reported(x)' <=> Reported(x)
    BY <1>12 DEF StopRaises, Reported
  <2> QED BY <1>12, <2>1 DEF StopRaises, ReportedOK, Pending, InPhase, TestPhase
<1>13. ASSUME NEW crash \in BOOLEAN, TestTeardown(crash)
       PROVE  ReportedOK'
  <2>1. /\ Reported(test)' <=> Reported(test)
        /\ \A x \in Tests : Reported(x)' <=> Reported(x)
    BY <1>13 DEF TestTeardown, Reported
  <2> QED BY <1>13, <2>1 DEF TestTeardown, ReportedOK, Pending, InPhase, TestPhase
<1>14. ASSUME AfterTestMethod
       PROVE  ReportedOK'
  <2>1. /\ Reported(test)' <=> Reported(test)
        /\ \A x \in Tests : Reported(x)' <=> Reported(x)
    BY <1>14 DEF AfterTestMethod, Reported
  <2> QED BY <1>14, <2>1 DEF AfterTestMethod, ReportedOK, Pending, InPhase, TestPhase
<1>15. ASSUME KillStalledJava
       PROVE  ReportedOK'
  <2>1. /\ Reported(test)' <=> Reported(test)
        /\ \A x \in Tests : Reported(x)' <=> Reported(x)
    BY <1>15 DEF KillStalledJava, Reported
  <2> QED BY <1>15, <2>1 DEF KillStalledJava, ReportedOK, Pending, InPhase, TestPhase
<1>16. ASSUME BreakAndRename
       PROVE  ReportedOK'
  <2> DEFINE new == <<test, iter + 1>>
  <2>1. /\ test \in Tests /\ iter + 1 \in Iteration \ {0}
        /\ current \in Key /\ new \in Key
        /\ tests[new].status = Absent
    BY <1>16, MarkFacts, KeyFacts, MaxIterAssumption
       DEF BreakAndRename, PhaseOK, TestPhase, CurrentSet, ResultTypeOK, RunnerTypeOK, Iteration,
           FreeKeys, InPhase
  <2>2. /\ tests'[new] = tests[current]
        /\ \A k \in Key : k # new /\ k # current => tests'[k] = tests[k]
    BY <1>16, <2>1 DEF BreakAndRename, UpdateTestName
  <2> HIDE DEF new
  <2>3. \A x \in Tests : Reported(x) => Reported(x)'
    BY <2>1, <2>2 DEF Reported, Concluded, Absent, Status, Verdict, Skipped
  <2>4. Reported(test)
    BY <1>16 DEF BreakAndRename, ReportedOK
  <2> QED BY <1>16, <2>1, <2>3, <2>4 DEF BreakAndRename, ReportedOK, Pending, InPhase, TestPhase
<1>17. ASSUME NextIteration
       PROVE  ReportedOK'
  <2>1. \A x \in Tests : Reported(x)' <=> Reported(x)
    BY <1>17 DEF NextIteration, Reported
  <2> QED BY <1>17, <2>1 DEF NextIteration, ReportedOK, Pending, InPhase, TestPhase
<1>18. ASSUME IterationsDone
       PROVE  ReportedOK'
  <2>1. \A x \in Tests : Reported(x)' <=> Reported(x)
    BY <1>18 DEF IterationsDone, Reported
  <2> QED BY <1>18, <2>1 DEF IterationsDone, ReportedOK, Pending, InPhase, TestPhase
<1>19. ASSUME TestsDone
       PROVE  ReportedOK'
  <2>1. \A x \in Tests : Reported(x)' <=> Reported(x)
    BY <1>19 DEF TestsDone, Reported
  <2> QED BY <1>19, <2>1 DEF TestsDone, ReportedOK, Pending, InPhase, TestPhase
<1>20. ASSUME NEW crash \in BOOLEAN, ModuleTeardown(crash)
       PROVE  ReportedOK'
  <2>1. \A x \in Tests : Reported(x)' <=> Reported(x)
    BY <1>20 DEF ModuleTeardown, Reported
  <2> QED BY <1>20, <2>1 DEF ModuleTeardown, ReportedOK, Pending, InPhase, TestPhase
<1>21. ASSUME AllDone
       PROVE  ReportedOK'
  <2>1. \A x \in Tests : Reported(x)' <=> Reported(x)
    BY <1>21 DEF AllDone, Reported
  <2> QED BY <1>21, <2>1 DEF AllDone, ReportedOK, Pending, InPhase, TestPhase
<1>22. ASSUME Aborts
       PROVE  ReportedOK'
  <2>1. \A x \in Tests : Reported(x)' <=> Reported(x)
    BY <1>22 DEF Aborts, Abort, Reported
  <2> QED BY <1>22, <2>1 DEF Aborts, Abort, ReportedOK, Pending, InPhase, TestPhase
<1>23. ASSUME UNCHANGED vars
       PROVE  ReportedOK'
  <2>1. /\ Reported(test)' <=> Reported(test)
        /\ \A x \in Tests : Reported(x)' <=> Reported(x)
    BY <1>23 DEF vars, Reported
  <2> QED BY <1>23, <2>1 DEF vars, ReportedOK, Pending, InPhase, TestPhase
<1> QED
  BY <1>1, <1>2, <1>3, <1>4, <1>5, <1>6, <1>7, <1>8, <1>9, <1>10, <1>11, <1>12, <1>13, <1>14,
     <1>15, <1>16, <1>17, <1>18, <1>19, <1>20, <1>21, <1>22, <1>23 DEF Next, Terminated

\* When no hook raises, a run that goes through all its modules reports every test under one
\* entry, with a verdict or as skipped: _skip_tests and _run_tests leave no test of the plan out,
\* and neither a repeat that stops early nor a rename loses one.
THEOREM EveryTestIsReported ==
  ASSUME "hook" \notin Faults
  PROVE  Spec => []AllReported
<1>1. IInv /\ VInv /\ ReportedOK => AllReported
  <2> SUFFICES ASSUME IInv, VInv, ReportedOK, pc = "done", NEW t \in Tests
               PROVE  \E k \in Key : EntriesOf(t) = {k} /\ tests[k].status # "running"
    BY DEF AllReported
  <2>1. PICK k \in Key : tests[k].name = t /\ tests[k].status \in Concluded
    BY DEF ReportedOK, Pending, InPhase, TestPhase, Reported
  <2>2. EntriesOf(t) = {k}
    BY <2>1, EntryFacts DEF EntriesOf, WithStatus, Concluded, IInv, TypeOK, VInv, NamesOK
  <2> QED BY <2>1, <2>2 DEF Concluded
<1>2. Init => ReportedOK
  BY ModuleOfAssumption DEF Init, ReportedOK, Pending
<1>3. IInv /\ VInv /\ ReportedOK /\ [Next]_vars => (IInv /\ VInv /\ ReportedOK)'
  BY InvNext, VerdictNext, ReportedNext
<1> QED BY <1>1, <1>2, <1>3, InvInit, VerdictInit, PTL DEF Spec

-----------------------------------------------------------------------------
(***************************************************************************)
(* The runner implements Verdicts.                                         *)
(***************************************************************************)

NoEntryOf(t) == \A k \in Key : Present(k) => tests[k].name # t

\* The verdict the refinement mapping gives a test is the status of its one entry, and the
\* summary is the tally of these verdicts.
VerdictFacts ==
  /\ \A k \in Key : Present(k) => VerdictOf(tests[k].name) = tests[k].status
  /\ \A t \in Tests : NoEntryOf(t) => VerdictOf(t) = "absent"
  /\ num = Abstract!Tally([t \in Tests |-> VerdictOf(t)])

\* Counting the tests by verdict is counting the entries by status: an entry and the test
\* it is reported under correspond one to one.
LEMMA VerdictsAreEntries ==
  ASSUME IInv, VInv, \A k \in Key : Present(k) => VerdictOf(tests[k].name) = tests[k].status,
         \A t \in Tests : NoEntryOf(t) => VerdictOf(t) = "absent",
         NEW S \in SUBSET Status
  PROVE  Cardinality({t \in Tests : VerdictOf(t) \in S}) = Cardinality(Having(tests, S))
<1> DEFINE A == Having(tests, S)
           B == {t \in Tests : VerdictOf(t) \in S}
           f == [k \in A |-> tests[k].name]
<1>1. \A k \in A : k \in Key /\ Present(k) /\ f[k] \in B
  BY EntryFacts DEF Having, Present, IInv, TypeOK
<1>2. \A k, j \in A : f[k] = f[j] => k = j
  BY <1>1 DEF VInv, NamesOK
<1>3. \A t \in B : \E k \in A : f[k] = t
  <2> SUFFICES ASSUME NEW t \in Tests, VerdictOf(t) \in S
               PROVE  \E k \in A : tests[k].name = t
    OBVIOUS
  <2>1. VerdictOf(t) # "absent"
    BY DEF Status, Verdict, Skipped
  <2>2. PICK k \in Key : Present(k) /\ tests[k].name = t
    BY <2>1 DEF NoEntryOf
  <2> QED BY <2>2 DEF Having
<1>4. f \in Bijection(A, B)
  BY <1>1, <1>2, <1>3 DEF Bijection, Injection, Surjection, IsInjective
<1>5. IsFiniteSet(A)
  BY HavingFinite
<1> HIDE DEF A, B, f
<1>6. Cardinality(A) = Cardinality(B)
  BY <1>4, <1>5, FS_Bijection DEF ExistsBijection
<1> QED BY <1>6 DEF A, B

LEMMA VerdictsHold == IInv /\ VInv => VerdictFacts
<1> SUFFICES ASSUME IInv, VInv PROVE VerdictFacts
  OBVIOUS
<1> USE DEF IInv, TypeOK, VInv
<1>1. ASSUME NEW k \in Key, Present(k)
      PROVE  VerdictOf(tests[k].name) = tests[k].status
  <2>1. EntriesOf(tests[k].name) = {k}
    BY <1>1, EntryFacts DEF EntriesOf, WithStatus, NamesOK
  <2> QED BY <2>1 DEF VerdictOf
<1>2. ASSUME NEW t \in Tests, NoEntryOf(t)
      PROVE  VerdictOf(t) = "absent"
  BY <1>2, EntryFacts DEF EntriesOf, WithStatus, NoEntryOf, VerdictOf
<1>3. num = Abstract!Tally([t \in Tests |-> VerdictOf(t)])
  <2> DEFINE v == [t \in Tests |-> VerdictOf(t)]
             Count(S) == Cardinality({t \in Tests : v[t] \in S})
  <2>1. ASSUME NEW S \in SUBSET Status
        PROVE  Count(S) = Cardinality(WithStatus(S))
    <3>1. {t \in Tests : v[t] \in S} = {t \in Tests : VerdictOf(t) \in S}
      OBVIOUS
    <3>2. Having(tests, S) = WithStatus(S)
      BY DEF Having, WithStatus
    <3> QED BY <1>1, <1>2, <3>1, <3>2, VerdictsAreEntries
  <2>2. Abstract!Tally(v) = [total |-> Count(Status), pass |-> Count({"pass"}),
                             fail |-> Count({"fail"}), error |-> Count({"error"}),
                             skip |-> Count(Skipped)]
    <3>1. Abstract!Status \ {"absent"} = Status /\ Abstract!Skip = Skipped
      BY DEF Abstract!Status, Abstract!Outcome, Abstract!Skip, Status, Verdict, Skipped
    <3>2. \A T : Abstract!Cardinality(T) = Cardinality(T)
      BY DEF Abstract!Cardinality, Cardinality, Abstract!IsFiniteSet, IsFiniteSet
    <3> QED BY <3>1, <3>2 DEF Abstract!Tally
  <2> HIDE DEF v, Count
  <2>3. /\ Count(Status) = num["total"] /\ Count({"pass"}) = num["pass"]
        /\ Count({"fail"}) = num["fail"] /\ Count({"error"}) = num["error"]
        /\ Count(Skipped) = num["skip"]
    BY <2>1 DEF CountersMatch, Status, Verdict
  <2>4. num = [total |-> num["total"], pass |-> num["pass"], fail |-> num["fail"],
               error |-> num["error"], skip |-> num["skip"]]
    BY DEF ResultTypeOK, Counter, Verdict
  <2> QED BY <2>2, <2>3, <2>4 DEF v
<1> QED BY <1>1, <1>2, <1>3 DEF VerdictFacts

\* The entries and the counters unchanged: the abstract state does not change.
LEMMA SameEntries ==
  ASSUME UNCHANGED <<tests, num>>
  PROVE  [Abstract!Next]_(Abstract!vars)
BY DEF Abstract!vars, VerdictOf, EntriesOf, WithStatus

\* Where the entries reported under another name stay, the verdicts of the others do.
LEMMA OtherVerdicts ==
  ASSUME ResultTypeOK, VerdictFacts, VerdictFacts', NEW key \in Key, NEW t \in Tests,
         \A k \in Key : k # key => tests'[k] = tests[k],
         ~ Present(key) \/ tests[key].name = t,
         tests'[key].name = t
  PROVE  \A x \in Tests \ {t} : VerdictOf(x)' = VerdictOf(x)
<1> SUFFICES ASSUME NEW x \in Tests \ {t}
             PROVE  VerdictOf(x)' = VerdictOf(x)
  OBVIOUS
<1>1. CASE NoEntryOf(x)
  <2>1. NoEntryOf(x)'
    BY <1>1 DEF NoEntryOf, Present
  <2> QED BY <1>1, <2>1 DEF VerdictFacts
<1>2. CASE ~ NoEntryOf(x)
  <2>1. PICK k \in Key : Present(k) /\ tests[k].name = x
    BY <1>2 DEF NoEntryOf
  <2>2. Present(k)' /\ tests'[k] = tests[k]
    BY <2>1 DEF Present
  <2> QED BY <2>1, <2>2 DEF VerdictFacts
<1> QED BY <1>1, <1>2

\* One verdict that changes is the abstract Change.
LEMMA ChangeOf ==
  ASSUME VerdictFacts', NEW t \in Tests, NEW s, VerdictOf(t)' = s,
         \A x \in Tests \ {t} : VerdictOf(x)' = VerdictOf(x)
  PROVE  /\ Abstract!Change(t, s)
         /\ [x \in Tests |-> VerdictOf(x)][t] = VerdictOf(t)
<1>1. [x \in Tests |-> VerdictOf(x)]' = [[x \in Tests |-> VerdictOf(x)] EXCEPT ![t] = s]
  OBVIOUS
<1> QED BY <1>1 DEF Abstract!Change, VerdictFacts

\* Every step of the runner is a step of Verdicts, or does not change the verdicts.
LEMMA StepRefines ==
  ASSUME IInv, VInv, VerdictFacts, VerdictFacts', [Next]_vars
  PROVE  [Abstract!Next]_(Abstract!vars)
<1> USE DEF resultVars, inputVars, planVars, historyVars, Move, IInv, TypeOK, VInv
<1>1. ASSUME CheckRequirements
      PROVE  [Abstract!Next]_(Abstract!vars)
  BY <1>1, SameEntries DEF CheckRequirements
<1>2. ASSUME NEW m \in Modules, PrepareModule(m)
      PROVE  [Abstract!Next]_(Abstract!vars)
  BY <1>2, SameEntries DEF PrepareModule
<1>3. ASSUME NEW t \in Tests, SkipTest(t)
      PROVE  [Abstract!Next]_(Abstract!vars)
  <2> DEFINE s == SkipStatus(marks[t])
  <2>1. /\ Plain(t) \in Key /\ Pending(t) /\ s \in Skipped
        /\ tests'[Plain(t)] = [status |-> s, name |-> t]
        /\ \A k \in Key : k # Plain(t) => tests'[k] = tests[k]
    BY <1>3, KeyFacts DEF SkipTest, SkipTestcaseNoStart, Pending, ResultTypeOK, PlanOK,
                           SkipStatus, Skipped
  <2>2. NoEntryOf(t) /\ tests[Plain(t)].status = Absent
    BY <2>1, MaxIterAssumption DEF NamesOK, NoEntryOf, FreeKeys, Plain, Iteration
  <2> HIDE DEF s
  <2>3. VerdictOf(t) = "absent" /\ VerdictOf(t)' = s
    BY <2>1, <2>2 DEF VerdictFacts, Present, Absent, Skipped
  <2>4. \A x \in Tests \ {t} : VerdictOf(x)' = VerdictOf(x)
    BY <2>1, <2>2, OtherVerdicts DEF Present
  <2>5. Abstract!SkipTest(t, s)
    BY <2>3, <2>4, ChangeOf DEF Abstract!SkipTest
  <2> QED BY <2>1, <2>5 DEF Abstract!Next, Abstract!Skip, Skipped
<1>4. ASSUME SkipDone
      PROVE  [Abstract!Next]_(Abstract!vars)
  BY <1>4, SameEntries DEF SkipDone
<1>5. ASSUME NEW o \in {"ok", "error", "interrupted"}, NEW crash \in BOOLEAN,
             ModuleSetup(o, crash)
      PROVE  [Abstract!Next]_(Abstract!vars)
  BY <1>5, SameEntries DEF ModuleSetup
<1>6. ASSUME NEW t \in Tests, PickTest(t)
      PROVE  [Abstract!Next]_(Abstract!vars)
  BY <1>6, SameEntries DEF PickTest
<1>7. ASSUME NEW o \in Outcome, BeforeTestMethod(o)
      PROVE  [Abstract!Next]_(Abstract!vars)
  BY <1>7, SameEntries DEF BeforeTestMethod
<1>8. ASSUME StartTest
      PROVE  [Abstract!Next]_(Abstract!vars)
  <2>1. /\ test \in Tests /\ Plain(test) \in Key /\ InPhase(test)
        /\ StartTestcase(test)
    BY <1>8, KeyFacts DEF StartTest, PhaseOK, TestPhase, InPhase
  <2>2. CASE tests[Plain(test)].status # Absent
    <3>1. UNCHANGED <<tests, num>>
      BY <2>1, <2>2 DEF StartTestcase
    <3> QED BY <3>1, SameEntries
  <2>3. CASE tests[Plain(test)].status = Absent
    <3>1. PICK t \in Tests : t = test
      BY <2>1
    <3>2. /\ tests'[Plain(t)] = [status |-> "running", name |-> t]
          /\ \A k \in Key : k # Plain(t) => tests'[k] = tests[k]
          /\ Plain(t) \in Key /\ ~ Present(Plain(t))
      BY <2>1, <2>3, <3>1 DEF StartTestcase, ResultTypeOK, Present
    <3>3. NoEntryOf(t)
      BY <2>1, <2>3, <3>1 DEF NamesOK, NoEntryOf, Present
    <3>4. VerdictOf(t) = "absent" /\ VerdictOf(t)' = "running"
      BY <3>2, <3>3 DEF VerdictFacts, Present, Absent
    <3>5. \A x \in Tests \ {t} : VerdictOf(x)' = VerdictOf(x)
      BY <3>2, OtherVerdicts
    <3>6. Abstract!Begin(t)
      BY <3>4, <3>5, ChangeOf DEF Abstract!Begin
    <3> QED BY <3>6 DEF Abstract!Next
  <2> QED BY <2>2, <2>3
<1>9. ASSUME NEW o \in Outcome, TestSetup(o)
      PROVE  [Abstract!Next]_(Abstract!vars)
  BY <1>9, SameEntries DEF TestSetup
<1>10. ASSUME NEW o \in Outcome, Execute(o)
       PROVE  [Abstract!Next]_(Abstract!vars)
  BY <1>10, SameEntries DEF Execute
<1>11. ASSUME StopTest
       PROVE  [Abstract!Next]_(Abstract!vars)
  <2>1. /\ current \in Key /\ tests[current].status \in Verdict \cup {"running"}
        /\ status \in Verdict /\ StopTestcase(status, marks[test].known)
    BY <1>11 DEF StopTest, StopTestcase, CanStop, ResultTypeOK, RunnerTypeOK
  <2>2. CASE tests[current].status = "fail"
    <3>1. UNCHANGED <<tests, num>>
      BY <2>1, <2>2 DEF StopTestcase
    <3> QED BY <3>1, SameEntries
  <2>3. CASE tests[current].status # "fail"
    <3>1. PICK t \in Tests : t = tests[current].name
      BY <2>1, EntryFacts
    <3>2. /\ tests'[current].name = t /\ tests'[current].status = status
          /\ \A k \in Key : k # current => tests'[k] = tests[k]
      BY <2>1, <2>3, <3>1 DEF StopTestcase, RecordVerdict, ResultTypeOK, Entry
    <3>3. VerdictOf(t) \in {"running", "pass", "error"}
      BY <2>1, <2>3, <3>1 DEF VerdictFacts, Present, Absent, Verdict
    <3>4. VerdictOf(t)' = status
      BY <2>1, <3>2 DEF VerdictFacts, Present, Absent, Verdict
    <3>5. \A x \in Tests \ {t} : VerdictOf(x)' = VerdictOf(x)
      BY <2>1, <3>1, <3>2, OtherVerdicts DEF Present
    <3>6. Abstract!Conclude(t, status)
      BY <3>3, <3>4, <3>5, ChangeOf DEF Abstract!Conclude
    <3> QED BY <2>1, <3>6 DEF Abstract!Next, Abstract!Outcome, Verdict
  <2> QED BY <2>2, <2>3
<1>12. ASSUME StopRaises
       PROVE  [Abstract!Next]_(Abstract!vars)
  BY <1>12, SameEntries DEF StopRaises
<1>13. ASSUME NEW crash \in BOOLEAN, TestTeardown(crash)
       PROVE  [Abstract!Next]_(Abstract!vars)
  BY <1>13, SameEntries DEF TestTeardown
<1>14. ASSUME AfterTestMethod
       PROVE  [Abstract!Next]_(Abstract!vars)
  BY <1>14, SameEntries DEF AfterTestMethod
<1>15. ASSUME KillStalledJava
       PROVE  [Abstract!Next]_(Abstract!vars)
  BY <1>15, SameEntries DEF KillStalledJava
<1>16. ASSUME BreakAndRename
       PROVE  [Abstract!Next]_(Abstract!vars)
  <2> DEFINE new == <<test, iter + 1>>
  <2>1. /\ current \in Key /\ new \in Key /\ tests[new].status = Absent
        /\ num' = num
        /\ tests' = [k \in Key |-> CASE k = new -> tests[current]
                                   [] k # new /\ k = current -> NoEntry(k)
                                   [] OTHER -> tests[k]]
    BY <1>16, MarkFacts, KeyFacts, MaxIterAssumption
       DEF BreakAndRename, UpdateTestName, PhaseOK, TestPhase, CurrentSet, ResultTypeOK,
           RunnerTypeOK, Iteration, FreeKeys, InPhase
  <2> HIDE DEF new
  <2>2. /\ \A k \in Key : Present(k) => \E j \in Key : Present(j)' /\ tests'[j] = tests[k]
        /\ \A j \in Key : Present(j)' => \E k \in Key : Present(k) /\ tests'[j] = tests[k]
    BY <2>1 DEF Present, NoEntry
  <2>3. \A x \in Tests : VerdictOf(x)' = VerdictOf(x)
    BY <2>2 DEF VerdictFacts, NoEntryOf
  <2> QED BY <2>1, <2>3 DEF Abstract!vars
<1>17. ASSUME NextIteration
       PROVE  [Abstract!Next]_(Abstract!vars)
  BY <1>17, SameEntries DEF NextIteration
<1>18. ASSUME IterationsDone
       PROVE  [Abstract!Next]_(Abstract!vars)
  BY <1>18, SameEntries DEF IterationsDone
<1>19. ASSUME TestsDone
       PROVE  [Abstract!Next]_(Abstract!vars)
  BY <1>19, SameEntries DEF TestsDone
<1>20. ASSUME NEW crash \in BOOLEAN, ModuleTeardown(crash)
       PROVE  [Abstract!Next]_(Abstract!vars)
  BY <1>20, SameEntries DEF ModuleTeardown
<1>21. ASSUME AllDone
       PROVE  [Abstract!Next]_(Abstract!vars)
  BY <1>21, SameEntries DEF AllDone
<1>22. ASSUME Aborts
       PROVE  [Abstract!Next]_(Abstract!vars)
  BY <1>22, SameEntries DEF Aborts, Abort
<1>23. ASSUME UNCHANGED vars
       PROVE  [Abstract!Next]_(Abstract!vars)
  BY <1>23, SameEntries DEF vars
<1> QED
  BY <1>1, <1>2, <1>3, <1>4, <1>5, <1>6, <1>7, <1>8, <1>9, <1>10, <1>11, <1>12, <1>13, <1>14,
     <1>15, <1>16, <1>17, <1>18, <1>19, <1>20, <1>21, <1>22, <1>23 DEF Next, Terminated

\* The runner implements Verdicts: whatever tests, repeats, options and faults, each test has
\* one verdict, which goes from absent to running or skipped and on to a pass or an error that
\* a later iteration may revise, or to a failure that nothing revises; and the counters printed
\* are at every moment the tally of the verdicts.
THEOREM RunnerImplementsVerdicts == Spec => VerdictsSpec
<1>1. Init => Abstract!Init
  <2> SUFFICES ASSUME Init PROVE Abstract!Init
    OBVIOUS
  <2>1. \A k \in Key : ~ Present(k)
    BY KeyFacts DEF Init, ResultInit, Present, NoEntry
  <2>2. VerdictFacts
    BY InvInit, VerdictInit, VerdictsHold
  <2>3. [t \in Tests |-> VerdictOf(t)] = [t \in Tests |-> "absent"]
    BY <2>1, <2>2 DEF VerdictFacts, NoEntryOf
  <2> QED BY <2>2, <2>3 DEF VerdictFacts, Abstract!Init
<1>2. IInv /\ VInv /\ VerdictFacts /\ VerdictFacts' /\ [Next]_vars
        => [Abstract!Next]_(Abstract!vars)
  BY StepRefines
<1>3. IInv /\ VInv /\ [Next]_vars => (IInv /\ VInv)'
  BY InvNext, VerdictNext
<1> QED BY <1>1, <1>2, <1>3, InvInit, VerdictInit, VerdictsHold, PTL
        DEF Spec, VerdictsSpec, Abstract!Spec
=============================================================================
