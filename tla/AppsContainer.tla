--------------------------- MODULE AppsContainer ---------------------------
(***************************************************************************)
(* AppsContainer of src/tiden/apps/appscontainer.py, as the AppTestCase of *)
(* src/tiden/case/apptestcase.py drives it: the runner calls               *)
(* check_requirements, setup and teardown of a test class, once for every  *)
(* module, and keeps the instance of the class for the next ones.          *)
(*                                                                         *)
(* The applications are created at the first of these calls, all of them   *)
(* or, when a constructor raises, those before it.  Each instance has a    *)
(* number; the table of its nodes goes with it.                            *)
(***************************************************************************)
EXTENDS Integers, Sequences, SequencesExt, Events

CONSTANTS
  Configured,   \* the names of the applications, sorted
  MaxPhases     \* bound: the calls of the runner

ASSUME ContainerAssumption == /\ Configured \in Seq(Range(Configured)) \ {<< >>}
                              /\ IsInjective(Configured) /\ MaxPhases \in Nat

Names == Range(Configured)

VARIABLES
  instance,     \* self.apps: the number of the instance of each application, 0 if none
  created,      \* the instances created so far
  appsCreated,  \* self.apps_created
  phase,        \* what the test class has been through
  phases        \* the calls so far

containerVars == <<instance, created, appsCreated, phase, phases>>

-----------------------------------------------------------------------------
ContainerTypeOK ==
  /\ instance \in [Names -> 0 .. created]
  /\ created  \in 0 .. MaxPhases * Len(Configured)
  /\ appsCreated \in BOOLEAN
  /\ phase    \in {"new", "checked", "ready", "failed", "down"}
  /\ phases   \in 0 .. MaxPhases

ContainerInit ==
  /\ instance = [a \in Names |-> 0]
  /\ created  = 0
  /\ appsCreated = FALSE
  /\ phase    = "new"
  /\ phases   = 0

-----------------------------------------------------------------------------
Upto(k) == {Configured[i] : i \in 1 .. k}

\* The applications get new instances in the order of their names up to the k-th.
NewInstances(k) ==
  /\ instance' = [a \in Names |-> IF a \in Upto(k)
                                  THEN created + (CHOOSE i \in 1 .. k : Configured[i] = a)
                                  ELSE instance[a]]
  /\ created' = created + k

\* create_configured_apps: nothing when all have been created; a constructor that raises
\* leaves the ones before it, and the flag unset.
Create(k) ==
  IF appsCreated
  THEN k = Len(Configured) /\ UNCHANGED <<instance, created, appsCreated>>
  ELSE /\ NewInstances(k)
       /\ appsCreated' = (k = Len(Configured))

Phase(before) == /\ phase \in before
                 /\ phases < MaxPhases
                 /\ phases' = phases + 1

Replaced == {a \in Names : instance'[a] # instance[a]}

\* check_requirements: creates, and asks each application.
CheckRequirements ==
  /\ Phase({"new", "down"})
  /\ \E k \in 0 .. Len(Configured), missed \in BOOLEAN :
       /\ Create(k)
       /\ k < Len(Configured) => ~missed
       /\ Happen(AsNumber(k < Len(Configured) \/ missed))
       /\ phase' = IF k < Len(Configured) \/ missed THEN "down" ELSE "checked"

\* setup: creates, if check_requirements was not called, and sets up the applications in
\* order, up to the k-th if one raises.
SetUp(k) ==
  /\ Phase({"checked"})
  /\ Create(Len(Configured))
  /\ Happen(AsNumber(k < Len(Configured)))
  /\ phase' = IF k < Len(Configured) THEN "failed" ELSE "ready"

\* teardown: of every application in order; the runner calls it after a failed setup as well.
TearDown ==
  /\ Phase({"ready", "failed"})
  /\ phase' = "down"
  /\ UNCHANGED <<instance, created, appsCreated, events>>

=============================================================================
