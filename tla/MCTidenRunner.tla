--------------------------- MODULE MCTidenRunner ---------------------------
(***************************************************************************)
(* Small instances of the test runner for TLC.                             *)
(***************************************************************************)
EXTENDS TidenRunner

CONSTANTS t1, t2, m1, m2

TwoTests   == {t1, t2}
TwoModules == {m1, m2}
OneModule  == {m1}

InTwoModules == [t \in TwoTests |-> IF t = t1 THEN m1 ELSE m2]
InOneModule  == [t \in TwoTests |-> m1]

Runs(n, knownIssue) ==
  [filtered |-> FALSE, blocked |-> FALSE, repeat |-> n, known |-> knownIssue]

Once     == Runs(1, FALSE)
Twice    == Runs(2, TRUE)
Thrice   == Runs(3, FALSE)
Never    == Runs(0, FALSE)
Muted    == [Once EXCEPT !.filtered = TRUE]
Blocked  == [Once EXCEPT !.blocked = TRUE]

CoreMarks   == {Once, Thrice, Muted}
AllMarks    == {Once, Twice, Never, Muted, Blocked}
RepeatMarks == {Twice, Once}

AllOptions == Option
Defaults   == {[contFail |-> FALSE, contPass |-> TRUE, keepJava |-> FALSE]}
GoOnFail   == {[contFail |-> TRUE, contPass |-> TRUE, keepJava |-> FALSE]}
NoFaults   == {}
=============================================================================
