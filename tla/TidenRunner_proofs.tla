------------------------ MODULE TidenRunner_proofs ------------------------
(***************************************************************************)
(* Proofs about the test runner, for any tests, modules, decorators,       *)
(* options and faults.                                                     *)
(*                                                                         *)
(* IInv is the inductive invariant.  Its parts say which keys of the       *)
(* ledger are still free when the runner is about to use them: the         *)
(* counters are right only because no test is started, skipped or renamed  *)
(* over an entry that is already there.                                    *)
(***************************************************************************)
EXTENDS TidenRunner, TLAPS, FiniteSetTheorems

\* Where _run_test, or the loop of its iterations, is at work on `test`.
TestPhase ==
  {"before", "start", "test_setup", "execute", "stop", "test_teardown", "after", "kill",
   "iterate"}

\* A test whose turn is still to come.
Pending(t) == ModuleOf[t] \in left \/ t \in toSkip \/ t \in toRun

InPhase(t) == pc \in TestPhase /\ t = test

\* The plan of the current module.
PlanOK ==
  /\ mod \notin left
  /\ pc \in TestPhase \cup {"skip", "setup", "tests", "teardown"} => mod \in Modules
  /\ \A t \in toSkip : ModuleOf[t] = mod /\ SkipStatus(marks[t]) # "run"
  /\ \A t \in toRun  : ModuleOf[t] = mod /\ SkipStatus(marks[t]) = "run"

\* A test being run is not planned any more, and has an iteration left to be named after.
PhaseOK ==
  pc \in TestPhase =>
    /\ test \in Tests
    /\ ModuleOf[test] = mod
    /\ test \notin toRun
    /\ test \notin toSkip
    /\ iter + 1 \in 1 .. marks[test].repeat

\* No entry of a pending test, and no renamed entry of the test being run.
FreeKeys ==
  \A t \in Tests : \A i \in Iteration :
    Pending(t) \/ (InPhase(t) /\ i # 0) => tests[<<t, i>>].status = Absent

\* After stop_testcase there is a current test.
CurrentSet ==
  pc \in {"test_teardown", "after", "kill", "iterate"} => current # NoKey

IInv ==
  /\ TypeOK
  /\ PlanOK
  /\ PhaseOK
  /\ FreeKeys
  /\ CurrentSet
  /\ CountersMatch

-----------------------------------------------------------------------------
\* The counters: how one change of the dictionary moves the tally.

\* The keys of f whose entry has one of the statuses S.
Having(f, S) == {k \in Key : f[k].status \in S}

\* What the entry e adds to the tally of the statuses S.
Adds(e, S) == IF e.status \in S THEN 1 ELSE 0

\* g is f with the entry e written under the key k.
Writes(f, g, k, e) == g = [f EXCEPT ![k] = e]

LEMMA KeyFinite == IsFiniteSet(Key)
<1>1. IsFiniteSet(Iteration)
  BY FS_Interval, MaxIterAssumption DEF Iteration
<1> QED BY <1>1, FS_Product, TestsAssumption DEF Key

\* The sets the tally counts are finite, for every dictionary.
LEMMA HavingFinite ==
  ASSUME NEW f, NEW S
  PROVE  IsFiniteSet(Having(f, S)) /\ Cardinality(Having(f, S)) \in Nat
<1>1. Having(f, S) \subseteq Key
  BY DEF Having
<1>2. IsFiniteSet(Having(f, S))
  BY <1>1, KeyFinite, FS_Subset
<1> QED BY <1>2, FS_CardinalityType

\* Writing one entry moves the tally by what the entry adds, less what the old one did.
LEMMA TallyUpdate ==
  ASSUME NEW f \in [Key -> Entry], NEW k \in Key, NEW e \in Entry, NEW S,
         NEW g, Writes(f, g, k, e)
  PROVE  Cardinality(Having(g, S)) = Cardinality(Having(f, S)) + Adds(e, S) - Adds(f[k], S)
<1> DEFINE old == Having(f, S)
           new == Having(g, S)
<1>1. IsFiniteSet(old) /\ IsFiniteSet(new) /\ Cardinality(old) \in Nat /\ Cardinality(new) \in Nat
  BY HavingFinite
<1>2. g[k] = e /\ \A j \in Key : j # k => g[j] = f[j]
  BY DEF Writes
<1>3. CASE e.status \in S /\ f[k].status \notin S
  <2>1. new = old \cup {k} /\ k \notin old
    BY <1>2, <1>3 DEF Having
  <2>2. Cardinality(new) = Cardinality(old) + 1
    <3> HIDE DEF old, new
    <3> QED BY <1>1, <2>1, FS_AddElement
  <2>3. Adds(e, S) = 1 /\ Adds(f[k], S) = 0
    BY <1>3 DEF Adds
  <2> QED BY <1>1, <2>2, <2>3
<1>4. CASE e.status \notin S /\ f[k].status \in S
  <2>1. new = old \ {k} /\ k \in old
    BY <1>2, <1>4 DEF Having
  <2>2. Cardinality(new) = Cardinality(old) - 1
    <3> HIDE DEF old, new
    <3> QED BY <1>1, <2>1, FS_RemoveElement
  <2>3. Adds(e, S) = 0 /\ Adds(f[k], S) = 1
    BY <1>4 DEF Adds
  <2> QED BY <1>1, <2>2, <2>3
<1>5. CASE e.status \in S <=> f[k].status \in S
  <2>1. new = old
    BY <1>2, <1>5 DEF Having
  <2>2. Adds(e, S) = Adds(f[k], S) /\ Adds(e, S) \in Nat
    BY <1>5 DEF Adds
  <2> QED BY <1>1, <2>1, <2>2
<1> QED BY <1>3, <1>4, <1>5

-----------------------------------------------------------------------------
\* The operations of the ledger keep its types.

LEMMA KeyFacts ==
  /\ \A t \in Tests, i \in Iteration : <<t, i>> \in Key
  /\ \A t \in Tests : Plain(t) \in Key
  /\ \A k \in Key : k[1] \in Tests /\ NoEntry(k) \in Entry
  /\ NoKey \notin Key
BY MaxIterAssumption DEF Key, Iteration, Plain, NoEntry, Entry, NoKey

LEMMA ResultUnchanged ==
  ASSUME ResultTypeOK, UNCHANGED resultVars
  PROVE  ResultTypeOK'
BY DEF ResultTypeOK, resultVars

LEMMA StartTestcaseType ==
  ASSUME ResultTypeOK, NEW t \in Tests, StartTestcase(t)
  PROVE  ResultTypeOK'
<1>1. Plain(t) \in Key /\ [status |-> "running", name |-> t] \in Entry
  BY KeyFacts DEF Entry, Status
<1>2. tests' \in [Key -> Entry]
  BY <1>1 DEF ResultTypeOK, StartTestcase
<1>3. num' \in [Counter -> Int]
  BY DEF ResultTypeOK, StartTestcase, CountIn
<1> QED BY <1>1, <1>2, <1>3 DEF ResultTypeOK, StartTestcase

LEMMA SkipTestcaseType ==
  ASSUME ResultTypeOK, NEW t \in Tests, NEW s \in Skipped, SkipTestcaseNoStart(t, s)
  PROVE  ResultTypeOK'
<1>1. Plain(t) \in Key /\ [status |-> s, name |-> t] \in Entry
  BY KeyFacts DEF Entry, Status
<1>2. [name |-> t, status |-> s] \in [name : Tests, status : Status]
  BY DEF Status
<1>3. num' \in [Counter -> Int]
  BY DEF ResultTypeOK, SkipTestcaseNoStart, CountIn
<1>4. suite' \in [tests : Int, failures : Int, errors : Int, skipped : Int]
  BY <1>3 DEF SkipTestcaseNoStart, UpdateXunit, SuiteOf, Counter, Verdict
<1>5. xunit' \in Seq([name : Tests, status : Status])
  BY <1>2 DEF ResultTypeOK, SkipTestcaseNoStart, UpdateXunit
<1> QED BY <1>1, <1>3, <1>4, <1>5 DEF ResultTypeOK, SkipTestcaseNoStart

LEMMA CounterFacts ==
  /\ Verdict \subseteq Counter /\ {"total", "skip"} \subseteq Counter
  /\ "running" \notin Counter
  /\ "total" \notin Verdict \cup {"running"} /\ "skip" \notin Verdict \cup {"running"}
BY DEF Counter, Verdict

\* Recount moves one unit from the counter of the old status to that of the new one.
LEMMA RecountFacts ==
  ASSUME ResultTypeOK, NEW v \in Verdict, NEW old \in Verdict \cup {"running"}
  PROVE  /\ Recount(old, v) \in [Counter -> Int]
         /\ Recount(old, v)["total"] = num["total"]
         /\ Recount(old, v)["skip"] = num["skip"]
         /\ \A c \in Verdict :
              Recount(old, v)[c] = num[c] + (IF c = v THEN 1 ELSE 0)
                                          - (IF c = old THEN 1 ELSE 0)
<1>0. num \in [Counter -> Int]
  BY DEF ResultTypeOK
<1>1. Recount(old, v) \in [Counter -> Int]
  BY DEF ResultTypeOK, Recount
<1>2. \A c \in Counter :
         Recount(old, v)[c] = num[c] + (IF c = v THEN 1 ELSE 0) - (IF c = old THEN 1 ELSE 0)
  BY DEF Recount
<1>3. Recount(old, v)["total"] = num["total"]
  BY <1>0, <1>2, CounterFacts
<1>4. Recount(old, v)["skip"] = num["skip"]
  BY <1>0, <1>2, CounterFacts
<1> QED BY <1>1, <1>2, <1>3, <1>4 DEF Counter

LEMMA StopTestcaseType ==
  ASSUME ResultTypeOK, NEW v \in Verdict, NEW knownIssue \in BOOLEAN,
         StopTestcase(v, knownIssue)
  PROVE  ResultTypeOK'
<1>1. CASE tests[current].status = "fail"
  BY <1>1 DEF StopTestcase, ResultTypeOK
<1>2. CASE tests[current].status # "fail"
  <2>1. current \in Key /\ tests[current].status \in Verdict \cup {"running"}
    BY DEF StopTestcase, CanStop, ResultTypeOK
  <2>2. RecordVerdict(v, knownIssue) /\ current' = current
    BY <1>2 DEF StopTestcase
  <2>3. tests[current] \in Entry /\ [tests[current] EXCEPT !.status = v] \in Entry
    BY <2>1 DEF ResultTypeOK, Entry, Status
  <2>4. tests' \in [Key -> Entry]
    BY <2>2, <2>3 DEF RecordVerdict, ResultTypeOK
  <2>5. num' \in [Counter -> Int]
    BY <2>1, <2>2, RecountFacts DEF RecordVerdict
  <2>6. suite' \in [tests : Int, failures : Int, errors : Int, skipped : Int]
    BY <2>2, <2>5 DEF RecordVerdict, UpdateXunit, SuiteOf, Counter, Verdict
  <2>7. xunit' \in Seq([name : Tests, status : Status])
    BY <2>2, <2>3 DEF RecordVerdict, UpdateXunit, ResultTypeOK, Entry, Status
  <2>8. issues' \subseteq Key
    BY <2>1, <2>2 DEF RecordVerdict, ResultTypeOK
  <2> QED BY <2>1, <2>2, <2>4, <2>5, <2>6, <2>7, <2>8 DEF ResultTypeOK
<1> QED BY <1>1, <1>2

LEMMA UpdateTestNameType ==
  ASSUME ResultTypeOK, NEW t \in Tests, NEW i \in Iteration, current \in Key,
         UpdateTestName(t, i)
  PROVE  ResultTypeOK'
<1>1. <<t, i>> \in Key /\ NoEntry(current) \in Entry /\ tests[current] \in Entry
  BY KeyFacts DEF ResultTypeOK
<1> QED BY <1>1 DEF ResultTypeOK, UpdateTestName

-----------------------------------------------------------------------------
\* The operations of the ledger keep the counters equal to the tally.

\* The statuses a counter counts.
CountedBy(c) ==
  CASE c = "total" -> Status
    [] c = "skip"  -> Skipped
    [] c \in Verdict -> {c}

Tallied(n, f) == \A c \in Counter : n[c] = Cardinality(Having(f, CountedBy(c)))

LEMMA CountedFacts ==
  /\ CountedBy("total") = Status
  /\ CountedBy("skip") = Skipped
  /\ \A c \in Verdict : CountedBy(c) = {c}
  /\ \A c \in Counter : Absent \notin CountedBy(c)
BY DEF CountedBy, Verdict, Status, Skipped, Absent, Counter

LEMMA CountersMatchTallied ==
  /\ CountersMatch <=> Tallied(num, tests)
  /\ CountersMatch' <=> Tallied(num', tests')
<1>1. Counter = {"total", "pass", "fail", "error", "skip"} /\ Verdict = {"pass", "fail", "error"}
  BY DEF Counter, Verdict
<1>2. /\ CountedBy("pass") = {"pass"}
      /\ CountedBy("fail") = {"fail"}
      /\ CountedBy("error") = {"error"}
  BY <1>1, CountedFacts
<1>3. CountersMatch <=> Tallied(num, tests)
  BY <1>1, <1>2, CountedFacts DEF CountersMatch, Tallied, WithStatus, Having
<1>4. CountersMatch' <=> Tallied(num', tests')
  BY <1>1, <1>2, CountedFacts DEF CountersMatch, Tallied, WithStatus, Having
<1> QED BY <1>3, <1>4

\* start_testcase counts a test when, and only when, it makes the entry.
LEMMA StartTestcaseCounts ==
  ASSUME ResultTypeOK, CountersMatch, NEW t \in Tests, StartTestcase(t)
  PROVE  CountersMatch'
<1>1. CASE tests[Plain(t)].status # Absent
  BY <1>1 DEF StartTestcase, CountersMatch, WithStatus
<1>2. CASE tests[Plain(t)].status = Absent
  <2> DEFINE e == [status |-> "running", name |-> t]
  <2>1. Plain(t) \in Key /\ e \in Entry /\ tests \in [Key -> Entry]
    BY KeyFacts DEF Entry, Status, ResultTypeOK
  <2>2. Writes(tests, tests', Plain(t), e) /\ num' = CountIn({"total"})
    BY <1>2 DEF StartTestcase, Writes
  <2>3. SUFFICES ASSUME NEW c \in Counter
                 PROVE  num'[c] = Cardinality(Having(tests', CountedBy(c)))
    BY CountersMatchTallied DEF Tallied
  <2>4. num[c] = Cardinality(Having(tests, CountedBy(c))) /\ num[c] \in Int
    BY CountersMatchTallied DEF Tallied, ResultTypeOK
  <2>5. Cardinality(Having(tests', CountedBy(c)))
          = num[c] + Adds(e, CountedBy(c)) - Adds(tests[Plain(t)], CountedBy(c))
    <3> HIDE DEF e
    <3> QED BY <2>1, <2>2, <2>4, TallyUpdate
  <2>6. Adds(tests[Plain(t)], CountedBy(c)) = 0
    BY <1>2, CountedFacts DEF Adds
  <2>7. Adds(e, CountedBy(c)) = IF c = "total" THEN 1 ELSE 0
    BY CountedFacts DEF Adds, Status, Skipped, Counter, Verdict
  <2>8. num'[c] = num[c] + (IF c = "total" THEN 1 ELSE 0)
    BY <2>2 DEF CountIn
  <2> QED BY <2>4, <2>5, <2>6, <2>7, <2>8
<1> QED BY <1>1, <1>2

\* A test is counted as skipped once, if it had no entry.
LEMMA SkipTestcaseCounts ==
  ASSUME ResultTypeOK, CountersMatch, NEW t \in Tests, NEW s \in Skipped,
         tests[Plain(t)].status = Absent, SkipTestcaseNoStart(t, s)
  PROVE  CountersMatch'
<1> DEFINE e == [status |-> s, name |-> t]
<1>1. Plain(t) \in Key /\ e \in Entry /\ tests \in [Key -> Entry]
  BY KeyFacts DEF Entry, Status, ResultTypeOK
<1>2. Writes(tests, tests', Plain(t), e) /\ num' = CountIn({"total", "skip"})
  BY DEF SkipTestcaseNoStart, Writes
<1>3. SUFFICES ASSUME NEW c \in Counter
               PROVE  num'[c] = Cardinality(Having(tests', CountedBy(c)))
  BY CountersMatchTallied DEF Tallied
<1>4. num[c] = Cardinality(Having(tests, CountedBy(c))) /\ num[c] \in Int
  BY CountersMatchTallied DEF Tallied, ResultTypeOK
<1>5. Cardinality(Having(tests', CountedBy(c)))
        = num[c] + Adds(e, CountedBy(c)) - Adds(tests[Plain(t)], CountedBy(c))
  <2> HIDE DEF e
  <2> QED BY <1>1, <1>2, <1>4, TallyUpdate
<1>6. Adds(tests[Plain(t)], CountedBy(c)) = 0
  BY CountedFacts DEF Adds
<1>7. Adds(e, CountedBy(c)) = IF c \in {"total", "skip"} THEN 1 ELSE 0
  BY CountedFacts DEF Adds, Status, Skipped, Counter, Verdict
<1>8. num'[c] = num[c] + (IF c \in {"total", "skip"} THEN 1 ELSE 0)
  BY <1>2 DEF CountIn
<1> QED BY <1>4, <1>5, <1>6, <1>7, <1>8

\* stop_testcase moves the entry from one counter to the other.
LEMMA StopTestcaseCounts ==
  ASSUME ResultTypeOK, CountersMatch, NEW v \in Verdict, NEW knownIssue \in BOOLEAN,
         StopTestcase(v, knownIssue)
  PROVE  CountersMatch'
<1>1. CASE tests[current].status = "fail"
  BY <1>1 DEF StopTestcase, CountersMatch, WithStatus
<1>2. CASE tests[current].status # "fail"
  <2> DEFINE old == tests[current].status
             e   == [tests[current] EXCEPT !.status = v]
  <2>1. current \in Key /\ old \in Verdict \cup {"running"}
    BY DEF StopTestcase, CanStop, ResultTypeOK
  <2>2. tests \in [Key -> Entry] /\ tests[current] \in Entry /\ e \in Entry /\ e.status = v
    BY <2>1 DEF ResultTypeOK, Entry, Status
  <2>3. Writes(tests, tests', current, e) /\ num' = Recount(old, v)
    BY <1>2 DEF StopTestcase, RecordVerdict, Writes
  <2>4. SUFFICES ASSUME NEW c \in Counter
                 PROVE  num'[c] = Cardinality(Having(tests', CountedBy(c)))
    BY CountersMatchTallied DEF Tallied
  <2>5. num[c] = Cardinality(Having(tests, CountedBy(c))) /\ num[c] \in Int
    BY CountersMatchTallied DEF Tallied, ResultTypeOK
  <2>6. Cardinality(Having(tests', CountedBy(c)))
          = num[c] + Adds(e, CountedBy(c)) - Adds(tests[current], CountedBy(c))
    <3> HIDE DEF e
    <3> QED BY <2>1, <2>2, <2>3, <2>5, TallyUpdate
  <2>7. num'[c] = num[c] + (IF c = v THEN 1 ELSE 0) - (IF c = old THEN 1 ELSE 0)
    BY <2>3 DEF Recount
  <2>8. CASE c \in Verdict
    <3>1. Adds(e, CountedBy(c)) = (IF c = v THEN 1 ELSE 0)
      BY <2>2, <2>8, CountedFacts DEF Adds
    <3>2. Adds(tests[current], CountedBy(c)) = (IF c = old THEN 1 ELSE 0)
      BY <2>8, CountedFacts DEF Adds
    <3> QED BY <2>5, <2>6, <2>7, <3>1, <3>2
  <2>9. CASE c \in {"total", "skip"}
    <3>1. c # v /\ c # old
      BY <2>1, <2>9, CounterFacts
    <3>2. Adds(e, CountedBy(c)) = Adds(tests[current], CountedBy(c))
      BY <2>1, <2>2, <2>9, CountedFacts DEF Adds, Status, Skipped, Verdict
    <3>3. Adds(e, CountedBy(c)) \in Int
      BY DEF Adds
    <3> QED BY <2>5, <2>6, <2>7, <3>1, <3>2, <3>3
  <2> QED BY <2>8, <2>9 DEF Counter
<1> QED BY <1>1, <1>2

\* A rename to a free key moves an entry and changes no counter.
LEMMA UpdateTestNameCounts ==
  ASSUME ResultTypeOK, CountersMatch, NEW t \in Tests, NEW i \in Iteration,
         current \in Key, tests[<<t, i>>].status = Absent, UpdateTestName(t, i)
  PROVE  CountersMatch'
<1> DEFINE k == <<t, i>>
           g == [tests EXCEPT ![current] = NoEntry(current)]
           h == [g EXCEPT ![k] = tests[current]]
<1>1. /\ k \in Key
      /\ NoEntry(current) \in Entry
      /\ NoEntry(current).status = Absent
      /\ tests \in [Key -> Entry]
      /\ tests[current] \in Entry
  BY KeyFacts DEF ResultTypeOK, NoEntry
<1>2. g \in [Key -> Entry] /\ g[k].status = Absent
  BY <1>1
<1>3. tests' = h /\ num' = num
  BY <1>1 DEF UpdateTestName
<1>4. SUFFICES ASSUME NEW c \in Counter
               PROVE  num'[c] = Cardinality(Having(h, CountedBy(c)))
  BY <1>3, CountersMatchTallied DEF Tallied
<1> DEFINE S == CountedBy(c)
<1>5. num[c] = Cardinality(Having(tests, S)) /\ num[c] \in Int
  BY CountersMatchTallied DEF Tallied, ResultTypeOK
<1>6. Cardinality(Having(g, S)) = num[c] + Adds(NoEntry(current), S) - Adds(tests[current], S)
  <2> DEFINE e == NoEntry(current)
  <2>1. e \in Entry /\ Writes(tests, g, current, e)
    BY <1>1 DEF Writes
  <2> HIDE DEF S, g, e
  <2>2. Cardinality(Having(g, S)) = Cardinality(Having(tests, S)) + Adds(e, S) - Adds(tests[current], S)
    BY <1>1, <2>1, TallyUpdate
  <2> QED BY <1>5, <2>2 DEF e
<1>7. Cardinality(Having(h, S)) = Cardinality(Having(g, S)) + Adds(tests[current], S) - Adds(g[k], S)
  <2>1. Writes(g, h, k, tests[current])
    BY DEF Writes
  <2> HIDE DEF S, g, k, h
  <2> QED BY <1>1, <1>2, <2>1, TallyUpdate
<1>8. Adds(NoEntry(current), S) = 0 /\ Adds(g[k], S) = 0
  BY <1>1, <1>2, CountedFacts DEF Adds
<1>9. Adds(tests[current], S) \in Int
  BY DEF Adds
<1>10. Cardinality(Having(h, S)) = num'[c]
  <2> HIDE DEF S, h, g
  <2> QED BY <1>3, <1>5, <1>6, <1>7, <1>8, <1>9
<1> QED BY <1>10

-----------------------------------------------------------------------------
\* A step that does not touch the ledger keeps what is said of it.
LEMMA LedgerUnchanged ==
  ASSUME IInv, UNCHANGED resultVars
  PROVE  ResultTypeOK' /\ CountersMatch' /\ tests' = tests /\ current' = current
BY ResultUnchanged DEF IInv, TypeOK, resultVars, CountersMatch, WithStatus

\* The invariant holds initially.
LEMMA InvInit == Init => IInv
<1> SUFFICES ASSUME Init PROVE IInv
  OBVIOUS
<1>1. /\ tests = [k \in Key |-> NoEntry(k)]
      /\ num = [c \in Counter |-> 0]
      /\ current = NoKey /\ issues = {} /\ xunit = << >> /\ suite = SuiteOf(num)
  BY DEF Init, ResultInit
<1>2. ResultTypeOK
  BY <1>1, KeyFacts DEF ResultTypeOK, SuiteOf, Counter, Verdict
<1>3. RunnerTypeOK
  BY MaxIterAssumption DEF Init, RunnerTypeOK, Location, Final, Verdict, Iteration
<1>4. \A k \in Key : tests[k].status = Absent
  BY <1>1, KeyFacts DEF NoEntry
<1>5. CountersMatch
  <2>1. \A c \in Counter : Having(tests, CountedBy(c)) = {} /\ num[c] = 0
    BY <1>1, <1>4, CountedFacts DEF Having
  <2> QED BY <2>1, FS_EmptySet, CountersMatchTallied DEF Tallied
<1>6. PlanOK /\ PhaseOK /\ CurrentSet
  BY NoneAssumption DEF Init, PlanOK, PhaseOK, CurrentSet, TestPhase
<1>7. FreeKeys
  BY <1>4, KeyFacts DEF FreeKeys
<1> QED BY <1>2, <1>3, <1>5, <1>6, <1>7 DEF IInv, TypeOK

\* What the decorators of a test may say.
LEMMA MarkFacts ==
  ASSUME RunnerTypeOK, NEW t \in Tests
  PROVE  /\ marks[t] \in Mark
         /\ marks[t].repeat \in 0 .. MaxIter
         /\ marks[t].known \in BOOLEAN
BY MarksAssumption DEF RunnerTypeOK, Mark, Iteration

\* The invariant is inductive: one step per action.
LEMMA InvNext ==
  ASSUME IInv, [Next]_vars
  PROVE  IInv'
<1> USE DEF resultVars, inputVars, planVars, historyVars, Move
<1> USE DEF IInv, TypeOK
<1>1. ASSUME CheckRequirements
      PROVE  IInv'
  <2>1. RunnerTypeOK' /\ PlanOK' /\ PhaseOK'
    BY <1>1 DEF CheckRequirements, RunnerTypeOK, PlanOK, PhaseOK, TestPhase, Location, Final, Verdict
  <2>2. FreeKeys' /\ CurrentSet'
    BY <1>1 DEF CheckRequirements, FreeKeys, CurrentSet, Pending, InPhase, TestPhase, RunnerTypeOK
  <2> QED BY <1>1, <2>1, <2>2, LedgerUnchanged DEF CheckRequirements
<1>2. ASSUME NEW m \in Modules, PrepareModule(m)
      PROVE  IInv'
  <2>1. RunnerTypeOK' /\ PlanOK' /\ PhaseOK'
    BY <1>2 DEF PrepareModule, RunnerTypeOK, PlanOK, PhaseOK, TestPhase, Location, Final, Verdict
  <2>2. FreeKeys' /\ CurrentSet'
    BY <1>2 DEF PrepareModule, FreeKeys, CurrentSet, Pending, InPhase, TestPhase, RunnerTypeOK
  <2> QED BY <1>2, <2>1, <2>2, LedgerUnchanged DEF PrepareModule
<1>3. ASSUME SkipDone
      PROVE  IInv'
  <2>1. RunnerTypeOK' /\ PlanOK' /\ PhaseOK'
    BY <1>3 DEF SkipDone, RunnerTypeOK, PlanOK, PhaseOK, TestPhase, Location, Final, Verdict
  <2>2. FreeKeys' /\ CurrentSet'
    BY <1>3 DEF SkipDone, FreeKeys, CurrentSet, Pending, InPhase, TestPhase, RunnerTypeOK
  <2> QED BY <1>3, <2>1, <2>2, LedgerUnchanged DEF SkipDone
<1>4. ASSUME NEW o \in {"ok", "error", "interrupted"}, NEW crash \in BOOLEAN, ModuleSetup(o, crash)
      PROVE  IInv'
  <2>1. fixtures' \in [setup : SUBSET Modules, teardown : SUBSET Modules]
    BY <1>4 DEF ModuleSetup, RunnerTypeOK, PlanOK
  <2>2. pc' \in Location /\ setupOk' \in BOOLEAN /\ java' \subseteq {"module", "test"}
    BY <1>4 DEF ModuleSetup, RunnerTypeOK, Location, Final
  <2>3. RunnerTypeOK'
    BY <1>4, <2>1, <2>2 DEF ModuleSetup, RunnerTypeOK
  <2>4. PlanOK' /\ PhaseOK'
    BY <1>4 DEF ModuleSetup, RunnerTypeOK, PlanOK, PhaseOK, TestPhase
  <2>5. FreeKeys' /\ CurrentSet'
    BY <1>4 DEF ModuleSetup, FreeKeys, CurrentSet, Pending, InPhase, TestPhase
  <2> QED BY <1>4, <2>3, <2>4, <2>5, LedgerUnchanged DEF ModuleSetup
<1>5. ASSUME NEW t \in Tests, PickTest(t)
      PROVE  IInv'
  <2>1. RunnerTypeOK'
    BY <1>5, MarkFacts, MaxIterAssumption DEF PickTest, SkipStatus, RunnerTypeOK, PhaseOK, TestPhase, Location, Final,
         Verdict, Iteration
  <2>2. PlanOK' /\ PhaseOK'
    BY <1>5, MarkFacts DEF PickTest, SkipStatus, RunnerTypeOK, PlanOK, PhaseOK, TestPhase, Final, Iteration
  <2>3. FreeKeys' /\ CurrentSet'
    BY <1>5 DEF PickTest, FreeKeys, CurrentSet, Pending, InPhase, TestPhase, RunnerTypeOK
  <2> QED BY <1>5, <2>1, <2>2, <2>3, LedgerUnchanged DEF PickTest
<1>6. ASSUME NEW o \in Outcome, BeforeTestMethod(o)
      PROVE  IInv'
  <2>1. RunnerTypeOK' /\ PlanOK' /\ PhaseOK'
    BY <1>6 DEF BeforeTestMethod, StatusFor, RunnerTypeOK, PlanOK, PhaseOK, TestPhase, Location, Final, Verdict
  <2>2. FreeKeys' /\ CurrentSet'
    BY <1>6 DEF BeforeTestMethod, FreeKeys, CurrentSet, Pending, InPhase, TestPhase, RunnerTypeOK
  <2> QED BY <1>6, <2>1, <2>2, LedgerUnchanged DEF BeforeTestMethod
<1>7. ASSUME NEW o \in Outcome, TestSetup(o)
      PROVE  IInv'
  <2>1. RunnerTypeOK'
    BY <1>7, MaxIterAssumption DEF TestSetup, StatusFor, Outcome, RunnerTypeOK, PhaseOK, TestPhase, Location, Final,
         Verdict, Iteration
  <2>2. PlanOK' /\ PhaseOK'
    BY <1>7 DEF TestSetup, StatusFor, Outcome, RunnerTypeOK, PlanOK, PhaseOK, TestPhase, Final, Iteration
  <2>3. FreeKeys' /\ CurrentSet'
    BY <1>7 DEF TestSetup, FreeKeys, CurrentSet, Pending, InPhase, TestPhase, RunnerTypeOK
  <2> QED BY <1>7, <2>1, <2>2, <2>3, LedgerUnchanged DEF TestSetup
<1>8. ASSUME NEW o \in Outcome, Execute(o)
      PROVE  IInv'
  <2>1. RunnerTypeOK'
    BY <1>8, MaxIterAssumption DEF Execute, StatusFor, Outcome, RunnerTypeOK, PhaseOK, TestPhase, Location, Final,
         Verdict, Iteration
  <2>2. PlanOK' /\ PhaseOK'
    BY <1>8 DEF Execute, StatusFor, Outcome, RunnerTypeOK, PlanOK, PhaseOK, TestPhase, Final, Iteration
  <2>3. FreeKeys' /\ CurrentSet'
    BY <1>8 DEF Execute, FreeKeys, CurrentSet, Pending, InPhase, TestPhase, RunnerTypeOK
  <2> QED BY <1>8, <2>1, <2>2, <2>3, LedgerUnchanged DEF Execute
<1>9. ASSUME StopRaises
      PROVE  IInv'
  <2>1. RunnerTypeOK' /\ PlanOK' /\ PhaseOK'
    BY <1>9 DEF StopRaises, RunnerTypeOK, PlanOK, PhaseOK, TestPhase, Location, Final, Verdict
  <2>2. FreeKeys' /\ CurrentSet'
    BY <1>9 DEF StopRaises, FreeKeys, CurrentSet, Pending, InPhase, TestPhase, RunnerTypeOK
  <2> QED BY <1>9, <2>1, <2>2, LedgerUnchanged DEF StopRaises
<1>10. ASSUME NEW crash \in BOOLEAN, TestTeardown(crash)
      PROVE  IInv'
  <2>1. RunnerTypeOK' /\ PlanOK' /\ PhaseOK'
    BY <1>10 DEF TestTeardown, RunnerTypeOK, PlanOK, PhaseOK, TestPhase, Location, Final, Verdict
  <2>2. FreeKeys' /\ CurrentSet'
    BY <1>10 DEF TestTeardown, FreeKeys, CurrentSet, Pending, InPhase, TestPhase, RunnerTypeOK
  <2> QED BY <1>10, <2>1, <2>2, LedgerUnchanged DEF TestTeardown
<1>11. ASSUME AfterTestMethod
      PROVE  IInv'
  <2>1. RunnerTypeOK' /\ PlanOK' /\ PhaseOK'
    BY <1>11 DEF AfterTestMethod, RunnerTypeOK, PlanOK, PhaseOK, TestPhase, Location, Final, Verdict
  <2>2. FreeKeys' /\ CurrentSet'
    BY <1>11 DEF AfterTestMethod, FreeKeys, CurrentSet, Pending, InPhase, TestPhase, RunnerTypeOK
  <2> QED BY <1>11, <2>1, <2>2, LedgerUnchanged DEF AfterTestMethod
<1>12. ASSUME KillStalledJava
      PROVE  IInv'
  <2>1. RunnerTypeOK' /\ PlanOK' /\ PhaseOK'
    BY <1>12 DEF KillStalledJava, RunnerTypeOK, PlanOK, PhaseOK, TestPhase, Location, Final, Verdict
  <2>2. FreeKeys' /\ CurrentSet'
    BY <1>12 DEF KillStalledJava, FreeKeys, CurrentSet, Pending, InPhase, TestPhase, RunnerTypeOK
  <2> QED BY <1>12, <2>1, <2>2, LedgerUnchanged DEF KillStalledJava
<1>13. ASSUME NextIteration
      PROVE  IInv'
  <2>1. RunnerTypeOK'
    BY <1>13, MarkFacts, MaxIterAssumption DEF NextIteration, RunnerTypeOK, PhaseOK, TestPhase, Location, Final,
         Verdict, Iteration
  <2>2. PlanOK' /\ PhaseOK'
    BY <1>13, MarkFacts DEF NextIteration, RunnerTypeOK, PlanOK, PhaseOK, TestPhase, Final, Iteration
  <2>3. FreeKeys' /\ CurrentSet'
    BY <1>13 DEF NextIteration, FreeKeys, CurrentSet, Pending, InPhase, TestPhase, RunnerTypeOK
  <2> QED BY <1>13, <2>1, <2>2, <2>3, LedgerUnchanged DEF NextIteration
<1>14. ASSUME IterationsDone
      PROVE  IInv'
  <2>1. RunnerTypeOK' /\ PlanOK' /\ PhaseOK'
    BY <1>14 DEF IterationsDone, RunnerTypeOK, PlanOK, PhaseOK, TestPhase, Location, Final, Verdict
  <2>2. FreeKeys' /\ CurrentSet'
    BY <1>14 DEF IterationsDone, FreeKeys, CurrentSet, Pending, InPhase, TestPhase, RunnerTypeOK
  <2> QED BY <1>14, <2>1, <2>2, LedgerUnchanged DEF IterationsDone
<1>15. ASSUME TestsDone
      PROVE  IInv'
  <2>1. RunnerTypeOK' /\ PlanOK' /\ PhaseOK'
    BY <1>15 DEF TestsDone, RunnerTypeOK, PlanOK, PhaseOK, TestPhase, Location, Final, Verdict
  <2>2. FreeKeys' /\ CurrentSet'
    BY <1>15 DEF TestsDone, FreeKeys, CurrentSet, Pending, InPhase, TestPhase, RunnerTypeOK
  <2> QED BY <1>15, <2>1, <2>2, LedgerUnchanged DEF TestsDone
<1>16. ASSUME NEW crash \in BOOLEAN, ModuleTeardown(crash)
      PROVE  IInv'
  <2>1. fixtures' \in [setup : SUBSET Modules, teardown : SUBSET Modules]
    BY <1>16 DEF ModuleTeardown, RunnerTypeOK, PlanOK
  <2>2. pc' \in Location /\ setupOk' \in BOOLEAN /\ java' \subseteq {"module", "test"}
    BY <1>16 DEF ModuleTeardown, RunnerTypeOK, Location, Final
  <2>3. RunnerTypeOK'
    BY <1>16, <2>1, <2>2 DEF ModuleTeardown, RunnerTypeOK
  <2>4. PlanOK' /\ PhaseOK'
    BY <1>16 DEF ModuleTeardown, RunnerTypeOK, PlanOK, PhaseOK, TestPhase
  <2>5. FreeKeys' /\ CurrentSet'
    BY <1>16 DEF ModuleTeardown, FreeKeys, CurrentSet, Pending, InPhase, TestPhase
  <2> QED BY <1>16, <2>3, <2>4, <2>5, LedgerUnchanged DEF ModuleTeardown
<1>17. ASSUME AllDone
      PROVE  IInv'
  <2>1. RunnerTypeOK' /\ PlanOK' /\ PhaseOK'
    BY <1>17 DEF AllDone, RunnerTypeOK, PlanOK, PhaseOK, TestPhase, Location, Final, Verdict
  <2>2. FreeKeys' /\ CurrentSet'
    BY <1>17 DEF AllDone, FreeKeys, CurrentSet, Pending, InPhase, TestPhase, RunnerTypeOK
  <2> QED BY <1>17, <2>1, <2>2, LedgerUnchanged DEF AllDone
<1>18. ASSUME Aborts
      PROVE  IInv'
  <2>1. RunnerTypeOK'
    BY <1>18, MaxIterAssumption DEF Aborts, Abort, RunnerTypeOK, PhaseOK, TestPhase, Location, Final,
         Verdict, Iteration
  <2>2. PlanOK' /\ PhaseOK'
    BY <1>18 DEF Aborts, Abort, RunnerTypeOK, PlanOK, PhaseOK, TestPhase, Final, Iteration
  <2>3. FreeKeys' /\ CurrentSet'
    BY <1>18 DEF Aborts, Abort, FreeKeys, CurrentSet, Pending, InPhase, TestPhase, RunnerTypeOK
  <2> QED BY <1>18, <2>1, <2>2, <2>3, LedgerUnchanged DEF Aborts, Abort
<1>19. ASSUME NEW t \in Tests, SkipTest(t)
       PROVE  IInv'
  <2>1. RunnerTypeOK' /\ PlanOK' /\ PhaseOK'
    BY <1>19 DEF SkipTest, RunnerTypeOK, PlanOK, PhaseOK, TestPhase, Location
  <2>2. SkipStatus(marks[t]) \in Skipped /\ tests[Plain(t)].status = Absent
    BY <1>19, MaxIterAssumption
       DEF SkipTest, PlanOK, SkipStatus, Skipped, FreeKeys, Pending, Plain, Iteration
  <2>3. SkipTestcaseNoStart(t, SkipStatus(marks[t]))
    BY <1>19 DEF SkipTest
  <2>4. ResultTypeOK' /\ CountersMatch'
    BY <2>2, <2>3, SkipTestcaseType, SkipTestcaseCounts
  <2>5. FreeKeys' /\ CurrentSet'
    <3>1. \A k \in Key : k # Plain(t) => tests'[k] = tests[k]
      BY <2>3 DEF SkipTestcaseNoStart, ResultTypeOK
    <3>2. \A x \in Tests : x # t => \A i \in Iteration : <<x, i>> \in Key /\ <<x, i>> # Plain(t)
      BY KeyFacts DEF Plain
    <3>3. ~ Pending(t)'
      BY <1>19 DEF SkipTest, Pending, PlanOK
    <3>4. \A x \in Tests : Pending(x)' => Pending(x)
      BY <1>19 DEF SkipTest, Pending
    <3> QED BY <1>19, <3>1, <3>2, <3>3, <3>4
            DEF SkipTest, FreeKeys, CurrentSet, InPhase, TestPhase
  <2> QED BY <2>1, <2>4, <2>5
<1>20. ASSUME StartTest
       PROVE  IInv'
  <2>1. RunnerTypeOK' /\ PlanOK' /\ PhaseOK'
    BY <1>20 DEF StartTest, RunnerTypeOK, PlanOK, PhaseOK, TestPhase, Location
  <2>2. test \in Tests /\ StartTestcase(test)
    BY <1>20 DEF StartTest, PhaseOK, TestPhase
  <2>3. ResultTypeOK' /\ CountersMatch'
    BY <2>2, StartTestcaseType, StartTestcaseCounts
  <2>4. FreeKeys' /\ CurrentSet'
    <3>1. \A k \in Key : k # Plain(test) => tests'[k] = tests[k]
      BY <2>2 DEF StartTestcase, ResultTypeOK
    <3>2. \A x \in Tests, i \in Iteration :
             <<x, i>> \in Key /\ (x # test \/ i # 0 => <<x, i>> # Plain(test))
      BY KeyFacts DEF Plain
    <3>3. ~ Pending(test)
      BY <1>20 DEF StartTest, Pending, PlanOK, PhaseOK, TestPhase
    <3> QED BY <1>20, <3>1, <3>2, <3>3
            DEF StartTest, FreeKeys, CurrentSet, Pending, InPhase, TestPhase
  <2> QED BY <2>1, <2>3, <2>4
<1>21. ASSUME StopTest
       PROVE  IInv'
  <2>1. RunnerTypeOK'
    BY <1>21 DEF StopTest, RunnerTypeOK, Location, PhaseOK, TestPhase, Outcome
  <2>2. PlanOK' /\ PhaseOK'
    BY <1>21 DEF StopTest, PlanOK, PhaseOK, TestPhase
  <2>3. StopTestcase(status, marks[test].known) /\ status \in Verdict /\ marks[test].known \in BOOLEAN
    BY <1>21, MarkFacts DEF StopTest, PhaseOK, TestPhase, RunnerTypeOK
  <2>4. ResultTypeOK' /\ CountersMatch'
    BY <2>3, StopTestcaseType, StopTestcaseCounts
  <2>5. FreeKeys' /\ CurrentSet'
    <3>1. \A k \in Key : tests[k].status = Absent => tests'[k] = tests[k]
      BY <2>3 DEF StopTestcase, RecordVerdict, CanStop, ResultTypeOK, Absent, Verdict
    <3>2. current' # NoKey
      BY <2>3 DEF StopTestcase, CanStop
    <3> QED BY <1>21, <3>1, <3>2, KeyFacts
            DEF StopTest, FreeKeys, CurrentSet, Pending, InPhase, TestPhase
  <2> QED BY <2>1, <2>2, <2>4, <2>5
<1>22. ASSUME BreakAndRename
       PROVE  IInv'
  <2>1. RunnerTypeOK' /\ PlanOK' /\ PhaseOK'
    BY <1>22 DEF BreakAndRename, RunnerTypeOK, PlanOK, PhaseOK, TestPhase, Location
  <2>2. /\ UpdateTestName(test, iter + 1)
        /\ current \in Key
        /\ test \in Tests
        /\ iter + 1 \in Iteration \ {0}
    BY <1>22, MarkFacts, MaxIterAssumption
       DEF BreakAndRename, PhaseOK, TestPhase, CurrentSet, ResultTypeOK, RunnerTypeOK, Iteration
  <2>3. tests[<<test, iter + 1>>].status = Absent
    BY <1>22, <2>2 DEF BreakAndRename, FreeKeys, InPhase, TestPhase
  <2>4. ResultTypeOK' /\ CountersMatch'
    BY <2>2, <2>3, UpdateTestNameType, UpdateTestNameCounts
  <2>5. FreeKeys' /\ CurrentSet'
    <3>1. \A k \in Key : k # <<test, iter + 1>> /\ tests[k].status = Absent
                           => tests'[k].status = Absent
      BY <2>2 DEF UpdateTestName, NoEntry
    <3>2. ~ Pending(test)'
      BY <1>22 DEF BreakAndRename, Pending, PlanOK, PhaseOK, TestPhase
    <3>3. \A x \in Tests, i \in Iteration :
             <<x, i>> \in Key /\ (x # test => <<x, i>> # <<test, iter + 1>>)
      BY KeyFacts
    <3> QED BY <1>22, <3>1, <3>2, <3>3
            DEF BreakAndRename, FreeKeys, CurrentSet, Pending, InPhase, TestPhase
  <2> QED BY <2>1, <2>4, <2>5
<1>23. ASSUME UNCHANGED vars
       PROVE  IInv'
  BY <1>23, LedgerUnchanged
     DEF vars, RunnerTypeOK, PlanOK, PhaseOK, FreeKeys, CurrentSet, Pending, InPhase
<1> QED
  BY <1>1, <1>2, <1>3, <1>4, <1>5, <1>6, <1>7, <1>8, <1>9, <1>10, <1>11, <1>12, <1>13, <1>14,
     <1>15, <1>16, <1>17, <1>18, <1>19, <1>20, <1>21, <1>22, <1>23 DEF Next, Terminated

-----------------------------------------------------------------------------
\* The entries, the counters and the report stay well formed: every status is one the
\* summary counts and every reported name is the name of a test (class Result).
THEOREM TypeCorrect == Spec => []TypeOK
<1>1. IInv => TypeOK
  BY DEF IInv
<1> QED BY <1>1, InvInit, InvNext, PTL DEF Spec

\* The counters of the summary (tests_num) are the tally of the entries, whatever tests,
\* iterations, options and faults: start_testcase, skip_testcase_no_start, stop_testcase
\* and update_test_name never lose or double a test.
THEOREM CountersAreTheTally == Spec => []CountersMatch
<1>1. IInv => CountersMatch
  BY DEF IInv
<1> QED BY <1>1, InvInit, InvNext, PTL DEF Spec

-----------------------------------------------------------------------------
(***************************************************************************)
(* The fixtures of the modules and the Java processes of the tests.        *)
(***************************************************************************)

\* Between modules everything set up was torn down; inside a module all but this one was.
FixturesOK ==
  /\ pc \in {"requirements", "modules", "skip", "setup", "done", "exited"} =>
       fixtures.setup = fixtures.teardown
  /\ pc \in TestPhase \cup {"tests", "teardown"} =>
       fixtures.setup = fixtures.teardown \cup {mod}

LEMMA FixturesNext ==
  ASSUME IInv, FixturesOK, [Next]_vars
  PROVE  FixturesOK'
<1> USE DEF resultVars, inputVars, planVars, historyVars, Move
<1>1. ASSUME CheckRequirements
      PROVE  FixturesOK'
  BY <1>1 DEF CheckRequirements, FixturesOK, TestPhase
<1>2. ASSUME NEW m \in Modules, PrepareModule(m)
      PROVE  FixturesOK'
  BY <1>2 DEF PrepareModule, FixturesOK, TestPhase
<1>3. ASSUME NEW t \in Tests, SkipTest(t)
      PROVE  FixturesOK'
  BY <1>3 DEF SkipTest, FixturesOK, TestPhase
<1>4. ASSUME SkipDone
      PROVE  FixturesOK'
  BY <1>4 DEF SkipDone, FixturesOK, TestPhase
<1>5. ASSUME NEW o \in {"ok", "error", "interrupted"}, NEW crash \in BOOLEAN,
             ModuleSetup(o, crash)
      PROVE  FixturesOK'
  BY <1>5 DEF ModuleSetup, FixturesOK, TestPhase, IInv, TypeOK, RunnerTypeOK
<1>6. ASSUME NEW t \in Tests, PickTest(t)
      PROVE  FixturesOK'
  BY <1>6 DEF PickTest, FixturesOK, TestPhase
<1>7. ASSUME NEW o \in Outcome, BeforeTestMethod(o)
      PROVE  FixturesOK'
  BY <1>7 DEF BeforeTestMethod, FixturesOK, TestPhase
<1>8. ASSUME StartTest
      PROVE  FixturesOK'
  BY <1>8 DEF StartTest, FixturesOK, TestPhase
<1>9. ASSUME NEW o \in Outcome, TestSetup(o)
      PROVE  FixturesOK'
  BY <1>9 DEF TestSetup, FixturesOK, TestPhase
<1>10. ASSUME NEW o \in Outcome, Execute(o)
       PROVE  FixturesOK'
  BY <1>10 DEF Execute, FixturesOK, TestPhase
<1>11. ASSUME StopTest
       PROVE  FixturesOK'
  BY <1>11 DEF StopTest, FixturesOK, TestPhase
<1>12. ASSUME StopRaises
       PROVE  FixturesOK'
  BY <1>12 DEF StopRaises, FixturesOK, TestPhase
<1>13. ASSUME NEW crash \in BOOLEAN, TestTeardown(crash)
       PROVE  FixturesOK'
  BY <1>13 DEF TestTeardown, FixturesOK, TestPhase
<1>14. ASSUME AfterTestMethod
       PROVE  FixturesOK'
  BY <1>14 DEF AfterTestMethod, FixturesOK, TestPhase
<1>15. ASSUME KillStalledJava
       PROVE  FixturesOK'
  BY <1>15 DEF KillStalledJava, FixturesOK, TestPhase
<1>16. ASSUME BreakAndRename
       PROVE  FixturesOK'
  BY <1>16 DEF BreakAndRename, FixturesOK, TestPhase
<1>17. ASSUME NextIteration
       PROVE  FixturesOK'
  BY <1>17 DEF NextIteration, FixturesOK, TestPhase
<1>18. ASSUME IterationsDone
       PROVE  FixturesOK'
  BY <1>18 DEF IterationsDone, FixturesOK, TestPhase
<1>19. ASSUME TestsDone
       PROVE  FixturesOK'
  BY <1>19 DEF TestsDone, FixturesOK, TestPhase
<1>20. ASSUME NEW crash \in BOOLEAN, ModuleTeardown(crash)
       PROVE  FixturesOK'
  BY <1>20 DEF ModuleTeardown, FixturesOK, TestPhase, IInv, TypeOK, RunnerTypeOK
<1>21. ASSUME AllDone
       PROVE  FixturesOK'
  BY <1>21 DEF AllDone, FixturesOK, TestPhase
<1>22. ASSUME Aborts
       PROVE  FixturesOK'
  BY <1>22 DEF Aborts, Abort, FixturesOK, TestPhase
<1>23. ASSUME UNCHANGED vars
       PROVE  FixturesOK'
  BY <1>23 DEF vars, FixturesOK, TestPhase
<1> QED
  BY <1>1, <1>2, <1>3, <1>4, <1>5, <1>6, <1>7, <1>8, <1>9, <1>10, <1>11, <1>12, <1>13, <1>14,
     <1>15, <1>16, <1>17, <1>18, <1>19, <1>20, <1>21, <1>22, <1>23 DEF Next, Terminated

\* Where no test has started a process that is still to be killed.
QuietLocation ==
  {"requirements", "modules", "skip", "setup", "teardown", "tests", "before", "start", "iterate"}

JavaOK == ~ opts.keepJava /\ pc \in QuietLocation => "test" \notin java

LEMMA JavaNext ==
  ASSUME IInv, JavaOK, "unkillable" \notin Faults, [Next]_vars
  PROVE  JavaOK'
<1> USE DEF resultVars, inputVars, planVars, historyVars, Move
<1>1. ASSUME CheckRequirements
      PROVE  JavaOK'
  BY <1>1 DEF CheckRequirements, JavaOK, QuietLocation
<1>2. ASSUME NEW m \in Modules, PrepareModule(m)
      PROVE  JavaOK'
  BY <1>2 DEF PrepareModule, JavaOK, QuietLocation
<1>3. ASSUME NEW t \in Tests, SkipTest(t)
      PROVE  JavaOK'
  BY <1>3 DEF SkipTest, JavaOK, QuietLocation
<1>4. ASSUME SkipDone
      PROVE  JavaOK'
  BY <1>4 DEF SkipDone, JavaOK, QuietLocation
<1>5. ASSUME NEW o \in {"ok", "error", "interrupted"}, NEW crash \in BOOLEAN,
             ModuleSetup(o, crash)
      PROVE  JavaOK'
  BY <1>5 DEF ModuleSetup, JavaOK, QuietLocation
<1>6. ASSUME NEW t \in Tests, PickTest(t)
      PROVE  JavaOK'
  BY <1>6 DEF PickTest, JavaOK, QuietLocation
<1>7. ASSUME NEW o \in Outcome, BeforeTestMethod(o)
      PROVE  JavaOK'
  BY <1>7 DEF BeforeTestMethod, JavaOK, QuietLocation
<1>8. ASSUME StartTest
      PROVE  JavaOK'
  BY <1>8 DEF StartTest, JavaOK, QuietLocation
<1>9. ASSUME NEW o \in Outcome, TestSetup(o)
      PROVE  JavaOK'
  BY <1>9 DEF TestSetup, JavaOK, QuietLocation
<1>10. ASSUME NEW o \in Outcome, Execute(o)
       PROVE  JavaOK'
  BY <1>10 DEF Execute, JavaOK, QuietLocation
<1>11. ASSUME StopTest
       PROVE  JavaOK'
  BY <1>11 DEF StopTest, JavaOK, QuietLocation
<1>12. ASSUME StopRaises
       PROVE  JavaOK'
  BY <1>12 DEF StopRaises, JavaOK, QuietLocation
<1>13. ASSUME NEW crash \in BOOLEAN, TestTeardown(crash)
       PROVE  JavaOK'
  BY <1>13 DEF TestTeardown, JavaOK, QuietLocation
<1>14. ASSUME AfterTestMethod
       PROVE  JavaOK'
  BY <1>14 DEF AfterTestMethod, JavaOK, QuietLocation
<1>15. ASSUME KillStalledJava
       PROVE  JavaOK'
  BY <1>15 DEF KillStalledJava, JavaOK, QuietLocation
<1>16. ASSUME BreakAndRename
       PROVE  JavaOK'
  BY <1>16 DEF BreakAndRename, JavaOK, QuietLocation
<1>17. ASSUME NextIteration
       PROVE  JavaOK'
  BY <1>17 DEF NextIteration, JavaOK, QuietLocation
<1>18. ASSUME IterationsDone
       PROVE  JavaOK'
  BY <1>18 DEF IterationsDone, JavaOK, QuietLocation
<1>19. ASSUME TestsDone
       PROVE  JavaOK'
  BY <1>19 DEF TestsDone, JavaOK, QuietLocation
<1>20. ASSUME NEW crash \in BOOLEAN, ModuleTeardown(crash)
       PROVE  JavaOK'
  BY <1>20 DEF ModuleTeardown, JavaOK, QuietLocation
<1>21. ASSUME AllDone
       PROVE  JavaOK'
  BY <1>21 DEF AllDone, JavaOK, QuietLocation
<1>22. ASSUME Aborts
       PROVE  JavaOK'
  BY <1>22 DEF Aborts, Abort, JavaOK, QuietLocation
<1>23. ASSUME UNCHANGED vars
       PROVE  JavaOK'
  BY <1>23 DEF vars, JavaOK, QuietLocation
<1> QED
  BY <1>1, <1>2, <1>3, <1>4, <1>5, <1>6, <1>7, <1>8, <1>9, <1>10, <1>11, <1>12, <1>13, <1>14,
     <1>15, <1>16, <1>17, <1>18, <1>19, <1>20, <1>21, <1>22, <1>23 DEF Next, Terminated

\* When a module ends, and when the run ends by itself, every module whose setup was called
\* was torn down, also after a setup that failed (__call_module_setup_teardown): a skipped
\* module has neither, and no module is set up while another one still is.
THEOREM FixturesAreBalanced == Spec => []FixturesBalanced
<1>1. Init => FixturesOK
  BY DEF Init, FixturesOK, TestPhase
<1>2. FixturesOK => FixturesBalanced
  BY DEF FixturesOK, FixturesBalanced
<1> QED BY <1>1, <1>2, InvInit, InvNext, FixturesNext, PTL DEF Spec

\* When killall works, no Java process of a test is alive when the next iteration or the
\* next test begins, unless the class keeps its nodes (kill_stalled_java).
THEOREM NoJavaIsLeft ==
  ASSUME "unkillable" \notin Faults
  PROVE  Spec => []NoStrayJava
<1>1. Init => JavaOK
  BY DEF Init, JavaOK
<1>2. JavaOK => NoStrayJava
  BY DEF JavaOK, NoStrayJava, QuietLocation
<1>3. IInv /\ JavaOK /\ [Next]_vars => JavaOK'
  BY JavaNext
<1> QED BY <1>1, <1>2, <1>3, InvInit, InvNext, PTL DEF Spec
=============================================================================
