---------------------------- MODULE ReportSteps ----------------------------
(***************************************************************************)
(* The steps of a report: InnerReportConfig, Step and the step decorator   *)
(* of src/tiden/report/steps.py, and how TidenRunner._run_test uses them.  *)
(*                                                                         *)
(* There are two storages: the runner's has the phases of a test, the test *)
(* class's has the calls that the test makes in a phase, and at the end of *)
(* the phase the runner moves them under its own open step.  Nothing in a  *)
(* storage says which call goes on: a new step is put under those that     *)
(* have no status yet.                                                     *)
(***************************************************************************)
EXTENDS Integers, Sequences, FiniteSets, FiniteSetsExt, SequencesExt

CONSTANTS
  MaxCalls,    \* bound: the calls of methods with a step in a test, and the attachments
  MaxDepth,    \* bound: how deep they nest
  MaxLogHosts  \* the hosts whose logs are reported

ASSUME StepsAssumption == MaxCalls \in Nat /\ MaxDepth \in Nat /\ MaxLogHosts \in Nat

Ended    == {"passed", "failed"}
Outcomes == {"returns", "raises", "raises expected", "interrupted"}
Phases   == {"setup", "Execution", "teardown"}
BeforePhase == [setup |-> "before setup", Execution |-> "before Execution", teardown |-> "before teardown"]

VARIABLES
  phase,    \* the phase of the test
  runner,   \* TidenRunner._secret_report_storage: its steps
  storage,  \* the same of the test class
  id,       \* the last step_id; a new test forgets those of the former one
  phaseId,  \* the step of the phase
  stack,    \* the calls that go on: the step_id each one holds, 0 for None
  calls,    \* how many calls were made
  want      \* the steps that were made, as they should be reported

reportVars == <<phase, runner, storage, id, phaseId, stack, calls, want>>

-----------------------------------------------------------------------------
\* A storage is a set of steps: `up` is the step whose children it is among, 0 at the top.
Step(i, up, status, notes) == [id |-> i, up |-> up, status |-> status, notes |-> notes]

Open(steps) ==
  LET byId(i) == CHOOSE s \in steps : s.id = i
      reached[i \in {s.id : s \in steps}] ==
        byId(i).status = "none" /\ (byId(i).up = 0 \/ reached[byId(i).up])
  IN {i \in {s.id : s \in steps} : reached[i]}

\* The steps under which a new one is put: those reached through open steps that have no
\* open child.
Deepest(steps) == {p \in {0} \cup Open(steps) : \A s \in steps : s.up = p => s.id \notin Open(steps)}

\* _start_step.
Start(steps, i) == steps \cup {Step(i, p, "none", 0) : p \in Deepest(steps)}

\* __add_attachment: with no open step the attachment is lost.
Attach(steps) == {[s EXCEPT !.notes = IF s.id \in Deepest(steps) THEN @ + 1 ELSE @] : s \in steps}

\* _end_step.
End(steps, i, status) == {[s EXCEPT !.status = IF s.id = i THEN status ELSE @] : s \in steps}

\* __set_child_steps_to_parent: under the first open step at the top of the runner's storage.
Under(p, steps) == {[s EXCEPT !.up = IF @ = 0 THEN p ELSE @] : s \in steps}
FirstOpen(steps) == Min({s.id : s \in {t \in steps : t.up = 0 /\ t.status = "none"}})
Moved(steps) == steps \cup Under(FirstOpen(steps), storage)

\* The steps of a test class are moved but not taken away.
Kept == storage

\* What is left in the test class's storage.
Left == {}

\* __save_logs: a step for each host, with its files; a host that fails ends the loop, and an
\* exception does not leave the method.
Logs(steps, i, hosts, fails) ==
  LET upTo[h \in 0 .. hosts] ==
        IF h = 0 THEN Start(steps, i)
        ELSE End(Attach(Start(upTo[h - 1], i + h)), i + h,
                 IF fails /\ h = hosts THEN "failed" ELSE "passed")
      done == upTo[hosts]
  IN End(IF fails THEN done ELSE Attach(done), i, "passed")
LogsWanted(p, i, hosts, fails) ==
  {Step(i, p, "passed", IF fails THEN 0 ELSE 1)}
  \cup {Step(i + h, i, IF fails /\ h = hosts THEN "failed" ELSE "passed", 1) : h \in 1 .. hosts}

-----------------------------------------------------------------------------
ReportTypeOK ==
  LET stepsOf(i) == [id : 1 .. i, up : 0 .. i, status : Ended \cup {"none"}, notes : 0 .. MaxCalls + 1] IN
  /\ phase \in Phases \cup Range(BeforePhase) \cup {"begin", "reported"}
  /\ runner \subseteq stepsOf(id) /\ storage \subseteq stepsOf(id)
  /\ id \in Nat /\ phaseId \in 0 .. id
  /\ stack \in Seq(0 .. id) /\ Len(stack) <= MaxDepth
  /\ calls \in 0 .. MaxCalls
  /\ \A s \in want : s.id \in 1 .. id

ReportInit ==
  /\ phase = "begin"
  /\ runner = {} /\ storage = {} /\ id = 0 /\ phaseId = 0
  /\ stack = << >> /\ calls = 0 /\ want = {}

-----------------------------------------------------------------------------
\* The step decorator, or Step, entered on the runner.
Enter(name) ==
  /\ phase' = name
  /\ runner' = Start(runner, id + 1)
  /\ id' = id + 1 /\ phaseId' = id + 1
  /\ want' = want \cup {Step(id + 1, 0, "none", 0)}

\* _run_test: two new storages; a hook that fails before the setup is followed by the teardown.
StartTest ==
  /\ phase = "begin"
  /\ runner' = {} /\ storage' = {} /\ want' = {}
  /\ id' = 0 /\ phaseId' = 0 /\ calls' = 0
  /\ phase' \in {"before setup", "before teardown"}
  /\ UNCHANGED stack

EnterPhase(name) ==
  /\ phase = BeforePhase[name]
  /\ Enter(name)
  /\ UNCHANGED <<storage, stack, calls>>

InBody == phase \in Phases

\* The caller of a call: the innermost one that has a step.
Caller == LET held == {k \in DOMAIN stack : stack[k] # 0} IN IF held = {} THEN phaseId ELSE stack[Max(held)]

\* A method with a step is called, on an object that is linked to the test class by
\* _parent_cls or on one that is not.
Call(linked) ==
  /\ InBody /\ calls < MaxCalls /\ Len(stack) < MaxDepth
  /\ calls' = calls + 1
  /\ IF linked
     THEN /\ storage' = Start(storage, id + 1)
          /\ id' = id + 1 /\ stack' = Append(stack, id + 1)
          /\ want' = want \cup {Step(id + 1, Caller, "none", 0)}
     ELSE /\ stack' = Append(stack, 0)
          /\ UNCHANGED <<storage, id, want>>
  /\ UNCHANGED <<phase, runner, phaseId>>

\* add_attachment in a call; its caller gets it.
AddAttachment ==
  /\ InBody /\ calls < MaxCalls
  /\ calls' = calls + 1
  /\ storage' = Attach(storage)
  /\ want' = {[s EXCEPT !.notes = IF s.id = Caller /\ Caller # phaseId THEN @ + 1 ELSE @] : s \in want}
  /\ UNCHANGED <<phase, runner, id, phaseId, stack>>

\* An interrupt is no Exception: the decorator takes the call for passed.
StatusOf(outcome) == IF outcome = "raises" THEN "failed" ELSE "passed"

\* The innermost call ends; its caller handles an exception or ends with it later.
Return(outcome) ==
  /\ InBody /\ stack # << >>
  /\ stack' = Front(stack)
  /\ storage' = IF Last(stack) # 0 THEN End(storage, Last(stack), StatusOf(outcome)) ELSE storage
  /\ want' = End(want, Last(stack), IF outcome = "interrupted" THEN outcome ELSE StatusOf(outcome))
  /\ UNCHANGED <<phase, runner, id, phaseId, calls>>

\* The body of a phase ends: `how` is what the method of the test does, or the hook before it.
\* The logs are saved after Execution, and when a fixture raises before its steps are moved.
EndBody(how, hosts, fails) ==
  LET saves  == phase = "Execution" \/ how = "raises"
      logs(steps) == IF saves THEN Logs(steps, id + 1, hosts, fails) ELSE steps
      \* what the teardown method raises is only printed
      status == IF how = "returns" \/ (how = "raises" /\ phase = "teardown") THEN "passed" ELSE "failed"
  IN
  /\ InBody /\ stack = << >> /\ (how = "hook raises" => phase # "Execution")
  /\ runner' = End(IF phase = "Execution" THEN logs(Moved(runner)) ELSE Moved(logs(runner)), phaseId, status)
  /\ storage' = Left
  /\ id' = id + IF saves THEN 1 + hosts ELSE 0
  /\ want' = End(want \cup (IF saves THEN LogsWanted(phaseId, id + 1, hosts, fails) ELSE {}), phaseId, status)
  /\ phase' = CASE phase = "teardown" /\ status = "failed" -> "begin"
                [] phase = "teardown"                     -> "reported"
                [] phase = "setup" /\ status = "passed"   -> "before Execution"
                [] OTHER                                  -> "before teardown"
  /\ UNCHANGED <<phaseId, stack, calls>>

\* after_test_method has been given the report; other steps go to the test class's storage
\* before the next test starts.
StepBetween ==
  /\ phase = "reported" /\ calls < MaxCalls
  /\ calls' = calls + 1
  /\ id' = id + 1
  /\ storage' = End(Start(storage, id + 1), id + 1, "passed")
  /\ UNCHANGED <<phase, runner, phaseId, stack, want>>

NextTest ==
  /\ phase = "reported"
  /\ phase' = "begin"
  /\ UNCHANGED <<runner, storage, id, phaseId, stack, calls, want>>

-----------------------------------------------------------------------------
\* The report that after_test_method gets has every call of a method with a step once, under
\* the step of its caller or of the phase it was made in, with its own status and its
\* attachments, and the logs under the phase they were saved in: however deep the calls nest,
\* whichever raises and is handled, whichever objects are linked to the test, and whatever
\* was called between the tests.  (The status of an interrupted call is not considered.)
ReportedAsCalled ==
  phase = "reported" =>
    /\ Cardinality(runner) = Cardinality(want)
    /\ \A w \in want : \E s \in runner :
         /\ s.id = w.id /\ s.up = w.up /\ s.notes = w.notes
         /\ s.status = w.status \/ w.status = "interrupted"
=============================================================================
