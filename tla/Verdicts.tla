------------------------------ MODULE Verdicts ------------------------------
(***************************************************************************)
(* What a run promises about its tests, without the dictionary, the keys,  *)
(* the renames and the iterations: every test has one verdict, a failure   *)
(* and a skip are final, and the summary is at every moment the tally of   *)
(* the verdicts.  TidenRunner implements this specification.               *)
(***************************************************************************)
EXTENDS Integers, FiniteSets

CONSTANT Tests

VARIABLES
  verdict,   \* what the run says of each test
  summary    \* the counters it prints

vars == <<verdict, summary>>

Outcome == {"pass", "fail", "error"}
Skip    == {"skipped", "skipped_no_start"}
Status  == Outcome \cup Skip \cup {"running", "absent"}

Tally(v) ==
  LET Count(S) == Cardinality({t \in Tests : v[t] \in S})
  IN  [total |-> Count(Status \ {"absent"}), pass |-> Count({"pass"}),
       fail  |-> Count({"fail"}), error |-> Count({"error"}), skip |-> Count(Skip)]

Init ==
  /\ verdict = [t \in Tests |-> "absent"]
  /\ summary = Tally(verdict)

Change(t, s) ==
  /\ verdict' = [verdict EXCEPT ![t] = s]
  /\ summary' = Tally(verdict')

Begin(t)       == verdict[t] = "absent" /\ Change(t, "running")
SkipTest(t, s) == verdict[t] = "absent" /\ Change(t, s)

\* A later iteration may revise a pass or an error, never a failure or a skip.
Conclude(t, s) == verdict[t] \in {"running", "pass", "error"} /\ Change(t, s)

Next ==
  \E t \in Tests :
    \/ Begin(t)
    \/ \E s \in Skip : SkipTest(t, s)
    \/ \E s \in Outcome : Conclude(t, s)

Spec == Init /\ [][Next]_vars
=============================================================================
