----------------------------- MODULE Collection -----------------------------
(***************************************************************************)
(* Which tests there are: TidenRunner.collect_tests (--collect-only) and   *)
(* the selection in process_tests of src/tiden/tidenrunner.py, with        *)
(* @test_configuration, @require and --attr.                               *)
(*                                                                         *)
(* A collection walks through every configuration of every module and      *)
(* writes it into the configuration of Tiden, where the requirements of    *)
(* the tests are looked up; a run takes the one configuration it is given. *)
(* Both leave what they have written to the modules that follow.           *)
(***************************************************************************)
EXTENDS Integers, Sequences, FiniteSets, FiniteSetsExt, SequencesExt

CONSTANTS
  CModules,    \* the test modules in the order of their names
  CTests,      \* the test methods
  InModule,    \* the module of each
  Switches,    \* the options whose name ends with _enabled
  Numbers,     \* the others
  Nested,      \* the options whose name has a dot: in a section, as ignite.pitr_enabled
  Declares,    \* @test_configuration of each module: options, {} without it
  Possible,    \* possible_values, << >> if it has none
  Defaulted,   \* the modules whose default_values are all "on"
  MarksOf,     \* what the decorators may say of a test
  Attrs,       \* the attributes of tests
  Givens,      \* what --to may set: the value of each option, or "unset"
  Passed       \* what --attr may name: attributes, and tests

Opts   == Switches \cup Numbers
Values == {"on", "off"}

\* What decorators say of a test: needs, the options it requires to be on or, with ~, off;
\* tagged, its attributes; blocked: @skip, another requirement is unmet, or it is repeated 0
\* times.
CMark == [on : SUBSET Switches, off : SUBSET Switches, tagged : SUBSET Attrs, blocked : BOOLEAN]

ASSUME CollectionAssumption ==
  /\ CModules \in Seq(Range(CModules)) /\ IsInjective(CModules)
  /\ InModule \in [CTests -> Range(CModules)]
  /\ IsFiniteSet(Opts) /\ Nested \subseteq Opts /\ Switches \cap Numbers = {}
  /\ DOMAIN Declares = Range(CModules) /\ DOMAIN Possible = Range(CModules)
  /\ \A m \in Range(CModules) :
       /\ Declares[m] \subseteq Opts
       /\ Possible[m] \in Seq([Declares[m] -> Values])
       /\ Possible[m] = << >> => Declares[m] \subseteq Switches
  /\ MarksOf \subseteq CMark /\ Givens \subseteq [Opts -> Values \cup {"unset"}]
  /\ Defaulted \subseteq Range(CModules) /\ Passed \subseteq SUBSET (Attrs \cup CTests)

VARIABLES
  says,     \* the decorators of each test
  given,    \* --to: the options given to the session
  filter,   \* --attr and --attr_match
  session,  \* "collect", then another session, "run"
  atModule, \* the module it is at
  round,    \* the configuration of that module it is at
  config,   \* the value of each option in the configuration of Tiden
  reported, \* the collection: <<test, configuration>> of its report
  planned,  \* the run: the tests to execute
  actual    \* the run: the configuration each module was planned with
collectionVars == <<says, given, filter, session, atModule, round, config, reported, planned, actual>>

-----------------------------------------------------------------------------
CollectionTypeOK ==
  /\ says \in [CTests -> MarksOf]
  /\ given \in Givens /\ config \in [Opts -> Values \cup {"unset"}]
  /\ filter \in [passed : Passed, match : {"any", "all", "not"}]
  /\ session \in {"collect", "run", "raised"}
  /\ atModule \in 1 .. Len(CModules) + 1 /\ round \in Nat
  /\ \A l \in reported : l[1] \in CTests /\ l[2] \in [Declares[InModule[l[1]]] -> Values]
  /\ planned \subseteq CTests

CollectionInit ==
  /\ says \in [CTests -> MarksOf]
  /\ given \in Givens
  /\ filter \in [passed : Passed, match : {"any", "all", "not"}]
  /\ session = "collect" /\ atModule = 1 /\ round = 1
  /\ config = given
  /\ reported = {} /\ planned = {} /\ actual = << >>

-----------------------------------------------------------------------------
\* The configurations of a module: those it names or, for switches, all there are.
Configurations(m) ==
  IF Possible[m] # << >> THEN Possible[m] ELSE SetToSeq([Declares[m] -> Values])

\* should_be_skipped, of the attributes of the test and its name.
FilteredOut(t) ==
  LET attribs == says[t].tagged \cup {t} IN
  /\ filter.passed # {}
  /\ CASE filter.match = "any" -> filter.passed \cap attribs = {}
       [] filter.match = "all" -> ~(filter.passed \subseteq attribs)
       [] filter.match = "not" -> filter.passed \cap attribs # {}

\* check_attr_obj: an option that is not set is neither on nor a reason against ~.
Met(t, options) ==
  /\ \A o \in says[t].on : options[o] = "on"
  /\ \A o \in says[t].off : options[o] # "on"

\* _check_test_for_skip.
Selected(t, options) == ~FilteredOut(t) /\ ~says[t].blocked /\ Met(t, options)

TestsOf(m) == {t \in CTests : InModule[t] = m}

\* set_configuration_options: a name with a dot becomes a key of its own, which nobody reads.
SetOptions(c) == [o \in Opts |-> IF o \in DOMAIN c \ Nested THEN c[o] ELSE config[o]]

\* The tests are looked at before the options are set.
LooksFirst(m, c) == {t \in TestsOf(m) : Selected(t, config)}

\* collect_tests1 in a configuration: the tests that are not skipped.
Taken(m, c) == {t \in TestsOf(m) : Selected(t, SetOptions(c))}

\* collect_tests0: one configuration of the module.
CollectConfiguration ==
  /\ session = "collect" /\ atModule <= Len(CModules)
  /\ LET m == CModules[atModule] IN
       /\ round <= Len(Configurations(m))
       /\ LET c == Configurations(m)[round] IN
            /\ config' = SetOptions(c)
            /\ reported' = reported \cup {<<t, c>> : t \in Taken(m, c)}
  /\ round' = round + 1
  /\ UNCHANGED <<says, given, filter, session, atModule, planned, actual>>

CollectNext ==
  /\ session = "collect" /\ atModule <= Len(CModules)
  /\ round > Len(Configurations(CModules[atModule]))
  /\ atModule' = atModule + 1 /\ round' = 1
  /\ UNCHANGED <<says, given, filter, session, config, reported, planned, actual>>

\* The collection is over; a session that runs the tests starts, with options of its own.
RunSession ==
  /\ session = "collect" /\ atModule > Len(CModules)
  /\ session' = "run" /\ atModule' = 1
  /\ given' \in Givens /\ config' = given'
  /\ UNCHANGED <<says, filter, round, reported, planned, actual>>

\* set_default_configuration: what is not set.
WithDefaults(m) ==
  [o \in Opts |-> IF m \in Defaulted /\ o \in Declares[m] /\ config[o] = "unset" THEN "on" ELSE config[o]]

\* get_actual_configuration: a switch that is not set is off; for another option it raises.
ActualOf(m, options) == [o \in Declares[m] |-> IF options[o] = "unset" THEN "off" ELSE options[o]]
Lacks(m, options) == \E o \in Declares[m] \cap Numbers : options[o] = "unset"

\* process_tests: the plan of the next module.
PlanModule ==
  /\ session = "run" /\ atModule <= Len(CModules)
  /\ LET m == CModules[atModule]
         options == WithDefaults(m)
     IN /\ config' = options
        /\ IF Lacks(m, options)
           THEN session' = "raised" /\ UNCHANGED <<atModule, planned, actual>>
           ELSE /\ planned' = planned \cup {t \in TestsOf(m) : Selected(t, options)}
                /\ actual' = Append(actual, ActualOf(m, options))
                /\ atModule' = atModule + 1 /\ UNCHANGED session
  /\ UNCHANGED <<says, given, filter, round, reported>>

CollectionNext == CollectConfiguration \/ CollectNext \/ RunSession \/ PlanModule

\* The collection and the run alone.
CollectionSpec == CollectionInit /\ [][CollectionNext]_collectionVars

-----------------------------------------------------------------------------
\* Is what a test requires decided by the configuration of its own module?
OwnMatter(t, options) == says[t].on \cup says[t].off \subseteq options

ReportedAndRun(decides) ==
  session = "run" => \A i \in 1 .. atModule - 1 :
    LET m == CModules[i] IN
    actual[i] \in Range(Configurations(m)) =>
      \A t \in TestsOf(m) : OwnMatter(t, decides[m]) => (t \in planned <=> <<t, actual[i]>> \in reported)

\* A run executes a test in the configuration it is given exactly if --collect-only lists the
\* test for that configuration, whatever other modules have left in the configuration of
\* Tiden in either session, and whatever options either is given: for the tests that
\* require only options their own module declares, under names without a dot.
CollectedIsRun == ReportedAndRun([m \in Range(CModules) |-> Declares[m] \ Nested])

\* The same for all names: "set configuration options from given configuration to Tiden
\* config, so that test can check options and skip itself".
OptionsCanBeChecked == ReportedAndRun(Declares)
=============================================================================
