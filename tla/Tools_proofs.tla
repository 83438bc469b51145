---------------------------- MODULE Tools_proofs ----------------------------
(***************************************************************************)
(* Proofs about the parts of Tools, for any constants: the plugin          *)
(* JavaKiller and the collection of the tests, each alone, that the        *)
(* behaviours of Tools are behaviours of each or leave it where it began,  *)
(* the search for failures in a log, the steps of a report, and what is    *)
(* said of the exchanges.                                                  *)
(*                                                                         *)
(* The plugin hears from the hosts one after the other while processes     *)
(* start and end.  What it may conclude is about the processes that ran    *)
(* when it was called, since these can only end: one that still runs was   *)
(* in the answer of its host (Heard), and if nobody else's was in any      *)
(* answer then none of somebody else's runs any more (NoAliensLeft), so    *)
(* the signals reach none and jps leaves none out.                         *)
(*                                                                         *)
(* A test that requires only options of its own module is selected by the  *)
(* configuration alone (Selected(t, c)), whatever the other modules have   *)
(* left in the configuration of Tiden: in a collection because all of the  *)
(* options are set before the tests are looked at, in a run because the    *)
(* configuration of the module is read from there.  CInv says that the     *)
(* report and the plan hold exactly the tests that are.                    *)
(*                                                                         *)
(* Of a log, as long as it is read, Scan says that the sections found so   *)
(* far lie apart and hold, with the one that is read, all the lines that   *)
(* tell of a failure.                                                      *)
(*                                                                         *)
(* Nothing in a storage of steps says which call goes on.  Chain says that *)
(* the steps without a status are each under the one before it, so that a  *)
(* new one is put under the last of them and nowhere else; RInv, that in   *)
(* the body of a phase these are the runner's step of the phase and, in    *)
(* the test class's storage, those that the calls on the stack hold, and   *)
(* that both storages together have what was made.                         *)
(*                                                                         *)
(* The lines that a node has written of the exchanges follow from its      *)
(* state (InGroup, Written): it starts and finishes one exchange of each   *)
(* group since it joined and merges the others between, and what a grep    *)
(* has missed was written after the first of the greps (Read).  The oldest *)
(* node enters every group with its first version, so of a group that is   *)
(* over it has merged all others into that one, the walk over the merged   *)
(* exchanges goes as far as the group (WalkArrives), and what the answers  *)
(* are counted and computed from is what was written (OverIs).             *)
(***************************************************************************)
EXTENDS Tools, TLAPS, FiniteSetTheorems, SequenceTheorems, WellFoundedInduction

-----------------------------------------------------------------------------
\* The plugin JavaKiller.
Old     == before \ Reserved
Aliens  == Old \cap Others
Runs(p) == procs[p] = "runs"

OldStarted == \A p \in before : procs[p] # "new"

\* What the plugin is after in the listing that goes on.
Sought == IF step = "owners" THEN Aliens ELSE Old

Heard ==
  step \in Listings => \A p \in Sought : Runs(p) /\ HostOf[p] \notin asked => p \in listed

Ongoing == step \in {"first", "kill", "wait"}

NoAliensLeft == Ongoing /\ ~another => \A p \in Aliens : ~Runs(p)

OnlyForced == Ongoing /\ another => force

NoneKilled == /\ killed \cap Reserved = {}
              /\ step = "owners" => killed = {}
              /\ ~force => killed \cap Aliens = {}

LooksLeft == step \in Listings \cup {"kill"} => looks < MaxLooks

KInv ==
  /\ KillerTypeOK
  /\ OldStarted
  /\ Heard
  /\ NoAliensLeft
  /\ OnlyForced
  /\ NoneKilled
  /\ LooksLeft
  /\ OldJavaIsGone

-----------------------------------------------------------------------------
\* What a host answers has every process of it that ran at the beginning and still runs, but
\* for a reserved one and, when only `jps` is asked, for those of others.
LEMMA Answers ==
  ASSUME NEW h \in KHosts, NEW p \in Procs, HostOf[p] = h, Runs(p), p \notin Reserved
  PROVE  p \in Ps(h) /\ (another \/ p \notin Others => p \in JpsFunc(h))
  BY DEF Runs, Ps, Jps, JpsFunc

LEMMA AnswersAreProcs ==
  ASSUME NEW h \in KHosts
  PROVE  Ps(h) \subseteq Procs /\ JpsFunc(h) \subseteq Procs /\ Ps(h) \cap Reserved = {}
  BY DEF Ps, Jps, JpsFunc

\* A part of a small set is small.
LEMMA FewLeft ==
  ASSUME NEW S \in SUBSET Procs, NEW T \in SUBSET S, S = {} \/ ~(Cardinality(S) > 1)
  PROVE  Cardinality(T) <= 1
  <1>1. IsFiniteSet(Procs)
    BY KillerAssumption DEF KillerAssumption
  <1>2. IsFiniteSet(S)
    BY <1>1, FS_Subset
  <1>3. Cardinality(S) \in Nat /\ Cardinality(T) <= Cardinality(S)
    BY <1>2, FS_Subset, FS_CardinalityType
  <1>4. IsFiniteSet(T)
    BY <1>2, FS_Subset
  <1>5. Cardinality(T) \in Nat
    BY <1>4, FS_CardinalityType
  <1>6. S = {} => Cardinality(S) = 0
    BY FS_EmptySet
  <1> QED
    BY <1>3, <1>5, <1>6

LEMMA KillerInitInv == KillerInit => KInv
  <1> SUFFICES ASSUME KillerInit PROVE KInv
    OBVIOUS
  <1>1. KillerTypeOK
    <2>1. procs \in [Procs -> {"new", "runs", "ended"}]
      BY DEF KillerInit
    <2>2. 0 \in 0 .. MaxLooks
      BY KillerAssumption DEF KillerAssumption
    <2>3. before \subseteq Procs
      BY DEF KillerInit
    <2>4. killed = {} /\ listed = {} /\ step = "owners" /\ asked = KHosts /\ looks = 0
          /\ force \in BOOLEAN /\ another \in BOOLEAN
      BY DEF KillerInit
    <2> QED
      BY <2>1, <2>2, <2>3, <2>4 DEF KillerTypeOK, Listings
  <1>2. OldStarted
    BY DEF KillerInit, OldStarted
  <1>3. Heard
    BY KillerAssumption DEF KillerInit, Heard, Sought, Aliens, Old, KillerAssumption
  <1>4. NoAliensLeft /\ OnlyForced /\ NoneKilled /\ OldJavaIsGone
    BY DEF KillerInit, NoAliensLeft, OnlyForced, Ongoing, NoneKilled, OldJavaIsGone
  <1>5. LooksLeft
    BY KillerAssumption DEF KillerInit, LooksLeft, KillerAssumption
  <1> QED
    BY <1>1, <1>2, <1>3, <1>4, <1>5 DEF KInv

-----------------------------------------------------------------------------
LEMMA KillerNextInv == KInv /\ [KillerNext]_killerVars => KInv'
  <1> SUFFICES ASSUME KInv, [KillerNext]_killerVars PROVE KInv'
    OBVIOUS
  <1> USE KillerAssumption DEF KillerAssumption
  <1>0. /\ KillerTypeOK /\ OldStarted /\ Heard /\ NoAliensLeft /\ OnlyForced
        /\ NoneKilled /\ LooksLeft /\ OldJavaIsGone
    BY DEF KInv
  <1>1. ASSUME NEW h \in KHosts, Answer(h) PROVE KInv'
    <2>1. KillerTypeOK'
      BY <1>0, <1>1, AnswersAreProcs DEF Answer, KillerTypeOK
    <2>2. Heard'
      <3> SUFFICES ASSUME NEW p \in Sought, Runs(p), HostOf[p] \notin asked', step \in Listings
                   PROVE  p \in listed'
        BY <1>1 DEF Heard, Answer, Sought, Aliens, Old, Runs
      <3>1. CASE HostOf[p] \notin asked
        BY <1>0, <1>1, <3>1 DEF Heard, Answer
      <3>2. CASE HostOf[p] \in asked
        <4>1. HostOf[p] = h
          BY <1>1, <3>2 DEF Answer
        <4>2. p \in Procs /\ p \notin Reserved
          BY <1>0 DEF Sought, Aliens, Old, KillerTypeOK
        <4>3. p \in Ps(h) /\ (another \/ p \notin Others => p \in JpsFunc(h))
          BY <4>1, <4>2, Answers
        <4>4. step # "owners" => another \/ p \notin Others
          BY <1>0 DEF NoAliensLeft, Ongoing, Listings, Sought, Aliens
        <4> QED
          BY <1>1, <4>3, <4>4 DEF Answer
      <3> QED
        BY <3>1, <3>2
    <2> QED
      BY <1>0, <1>1, <2>1, <2>2
      DEF KInv, Answer, OldStarted, NoAliensLeft, OnlyForced, Ongoing, NoneKilled, LooksLeft,
          OldJavaIsGone, Aliens, Old, Runs
  <1>2. ASSUME NEW h \in KHosts, KillAll(h) PROVE KInv'
    <2>1. KillerTypeOK'
      BY <1>0, <1>2, AnswersAreProcs DEF KillAll, KillerTypeOK
    <2>2. NoneKilled'
      <3>1. ~force => \A p \in Aliens : p \notin Ps(h)
        BY <1>0, <1>2 DEF NoAliensLeft, OnlyForced, Ongoing, KillAll, Runs, Ps
      <3>2. killed' \cap Reserved = {}
        BY <1>0, <1>2, AnswersAreProcs DEF KillAll, NoneKilled
      <3>3. ~force => killed' \cap Aliens = {}
        BY <1>0, <1>2, <3>1 DEF KillAll, NoneKilled
      <3> QED
        BY <1>2, <3>2, <3>3 DEF KillAll, NoneKilled, Aliens, Old
    <2> QED
      BY <1>0, <1>2, <2>1, <2>2
      DEF KInv, KillAll, OldStarted, Heard, Listings, NoAliensLeft, OnlyForced, Ongoing, LooksLeft,
          OldJavaIsGone, Aliens, Old, Runs
  <1>3. CASE NoAnswer
    BY <1>0, <1>3
    DEF KInv, NoAnswer, KillerTypeOK, OldStarted, Heard, Listings, Over, NoAliensLeft, OnlyForced,
        Ongoing, NoneKilled, LooksLeft, OldJavaIsGone, Aliens, Old, Runs
  <1>4. CASE OwnersKnown
    <2>1. KillerTypeOK'
      BY <1>0, <1>4 DEF OwnersKnown, Goes, KillerTypeOK, Listings, Over
    <2>2. step' \in {"exit", "first"} /\ (step' = "first" /\ another' => force)
      BY <1>4 DEF OwnersKnown, Goes, Skip
    <2>3. ~another' => \A p \in Aliens : ~Runs(p)
      BY <1>0, <1>4 DEF OwnersKnown, Heard, Sought, Listings, Aliens, Old, KillerTypeOK
    <2>4. NoAliensLeft' /\ OnlyForced'
      BY <1>4, <2>2, <2>3 DEF NoAliensLeft, OnlyForced, Ongoing, OwnersKnown, Aliens, Old, Runs
    <2>5. Heard'
      BY <1>0, <1>4, <2>2 DEF Heard, Sought, Aliens, Old, OwnersKnown, Goes, KillerTypeOK
    <2> QED
      BY <1>0, <1>4, <2>1, <2>2, <2>4, <2>5
      DEF KInv, OwnersKnown, OldStarted, NoneKilled, LooksLeft, Listings, OldJavaIsGone, Aliens, Old
  <1>5. CASE FirstKnown
    <2>1. KillerTypeOK'
      BY <1>0, <1>5 DEF FirstKnown, Goes, KillerTypeOK, Listings, Over
    <2>2. OldJavaIsGone'
      <3>1. listed = {} => {p \in before \ Reserved : procs[p] = "runs"} = {}
        BY <1>0, <1>5 DEF FirstKnown, Heard, Sought, Listings, Old, Runs
      <3> QED
        BY <1>5, <3>1, FS_EmptySet DEF FirstKnown, Goes, OldJavaIsGone
    <2> QED
      BY <1>0, <1>5, <2>1, <2>2
      DEF KInv, FirstKnown, Goes, OldStarted, Heard, NoAliensLeft, OnlyForced, Ongoing, NoneKilled,
          LooksLeft, Listings, Aliens, Old, Runs
  <1>6. CASE AllSignalled
    <2>1. KillerTypeOK'
      BY <1>0, <1>6 DEF AllSignalled, Goes, KillerTypeOK, Listings, Over
    <2>2. Heard'
      BY <1>0, <1>6 DEF Heard, Sought, Aliens, Old, AllSignalled, Goes, KillerTypeOK
    <2> QED
      BY <1>0, <1>6, <2>1, <2>2
      DEF KInv, AllSignalled, Goes, OldStarted, NoAliensLeft, OnlyForced, Ongoing, NoneKilled,
          LooksLeft, Listings, OldJavaIsGone, Aliens, Old, Runs
  <1>7. CASE Looked
    <2>1. /\ looks' = looks + 1 /\ looks' \in 0 .. MaxLooks /\ looks' \in Nat
          /\ step' \in {"wait", "exit", "done"}
          /\ step' = "wait" => looks' < MaxLooks
          /\ step' = "done" => listed = {} \/ ~(Cardinality(listed) > 1)
      BY <1>0, <1>7 DEF Looked, Goes, KillerTypeOK, LooksLeft, Listings
    <2>2. KillerTypeOK'
      BY <1>0, <1>7, <2>1 DEF Looked, Goes, KillerTypeOK, Listings, Over
    <2>3. Heard'
      BY <1>0, <1>7, <2>1 DEF Heard, Sought, Aliens, Old, Looked, Goes, KillerTypeOK
    <2>4. OldJavaIsGone'
      <3>1. {p \in before \ Reserved : procs[p] = "runs"} \subseteq listed
        BY <1>0, <1>7 DEF Looked, Heard, Sought, Listings, Old, Runs
      <3>2. listed \subseteq Procs
        BY <1>0 DEF KillerTypeOK
      <3>3. step' = "done" => Cardinality({p \in before \ Reserved : procs[p] = "runs"}) <= 1
        BY <2>1, <3>1, <3>2, FewLeft
      <3> QED
        BY <1>7, <3>3 DEF Looked, OldJavaIsGone
    <2> QED
      BY <1>0, <1>7, <2>1, <2>2, <2>3, <2>4
      DEF KInv, Looked, OldStarted, NoAliensLeft, OnlyForced, Ongoing, NoneKilled,
          LooksLeft, Listings, Aliens, Old, Runs
  <1>8. ASSUME NEW p \in Procs, ProcStarts(p) \/ ProcEnds(p) PROVE KInv'
    <2>1. KillerTypeOK'
      BY <1>0, <1>8 DEF ProcStarts, ProcEnds, KillerTypeOK
    <2>2. \A q \in before : procs'[q] # "new" /\ (procs'[q] = "runs" => Runs(q))
      BY <1>0, <1>8 DEF ProcStarts, ProcEnds, KillerTypeOK, OldStarted, Runs
    <2>3. UNCHANGED <<force, before, killed, step, asked, listed, another, looks>> /\ step # "done"
      BY <1>8 DEF ProcStarts, ProcEnds, Over
    <2> QED
      BY <1>0, <2>1, <2>2, <2>3
      DEF KInv, OldStarted, Heard, Sought, NoAliensLeft, OnlyForced, Ongoing, NoneKilled,
          LooksLeft, OldJavaIsGone, Aliens, Old, Runs
  <1>9. CASE UNCHANGED killerVars
    BY <1>0, <1>9
    DEF KInv, killerVars, KillerTypeOK, OldStarted, Heard, Sought, NoAliensLeft, OnlyForced,
        Ongoing, NoneKilled, LooksLeft, OldJavaIsGone, Aliens, Old, Runs
  <1> QED
    BY <1>1, <1>2, <1>3, <1>4, <1>5, <1>6, <1>7, <1>8, <1>9 DEF KillerNext

\* The inductive invariant holds in every behaviour of the plugin.
LEMMA KillerInvariant == KillerSpec => []KInv
  BY KillerInitInv, KillerNextInv, PTL DEF KillerSpec

LEMMA KInvFacts == KInv => AliensSpared /\ OldJavaIsGone /\ KillerTypeOK
  BY DEF KInv, NoneKilled, AliensSpared, Aliens, Old

\* On any hosts and whoever's processes start and end meanwhile: without force_setup, no
\* process of another user that ran at the call of the plugin gets a signal.
THEOREM KillerSparesAliens == KillerSpec => []AliensSpared
  BY KillerInvariant, KInvFacts, PTL

\* On any hosts, when the plugin lets the session go on at most one of the processes it was
\* called to end is left, whatever `sudo` refused.
THEOREM KillerEndsOldJava == KillerSpec => []OldJavaIsGone
  BY KillerInvariant, KInvFacts, PTL

-----------------------------------------------------------------------------
\* The collection and the selection of the tests.
Own(t) == OwnMatter(t, Declares[InModule[t]] \ Nested)

Conf(i, j) == Configurations(CModules[i])[j]

\* Has the collection been at the j-th configuration of the i-th module?
Visited(i, j) ==
  \/ session # "collect"
  \/ i < atModule
  \/ i = atModule /\ j < round

\* What a run may have planned a module with.
Actuals == UNION {[Declares[m] -> Values \cup {"unset"}] : m \in Range(CModules)}

CTyped ==
  /\ says \in [CTests -> MarksOf]
  /\ given \in Givens /\ config \in [Opts -> Values \cup {"unset"}]
  /\ session \in {"collect", "run", "raised"}
  /\ atModule \in 1 .. Len(CModules) + 1 /\ round \in Nat \ {0}
  /\ actual \in Seq(Actuals)

\* What is reported is selected by its configuration.
Sound ==
  \A t \in CTests : Own(t) =>
    \A c \in [Declares[InModule[t]] -> Values] : <<t, c>> \in reported => Selected(t, c)

\* What is selected is reported.
Complete ==
  \A t \in CTests, i \in DOMAIN CModules : InModule[t] = CModules[i] /\ Own(t) =>
    \A j \in DOMAIN Configurations(CModules[i]) :
      Visited(i, j) /\ Selected(t, Conf(i, j)) => <<t, Conf(i, j)>> \in reported

NothingPlanned == session = "collect" => planned = {} /\ actual = << >>

\* The plan of each module is what its configuration selects.
PlannedRight ==
  session # "collect" =>
    /\ Len(actual) = atModule - 1
    /\ \A t \in CTests, i \in DOMAIN CModules : InModule[t] = CModules[i] /\ Own(t) =>
         /\ i < atModule => (t \in planned <=> Selected(t, actual[i]))
         /\ i >= atModule => t \notin planned

CInv == CTyped /\ Sound /\ Complete /\ NothingPlanned /\ PlannedRight

-----------------------------------------------------------------------------
\* There are finitely many configurations, so that SetToSeq enumerates them.
LEMMA FinitelyMany ==
  ASSUME NEW D, IsFiniteSet(D)
  PROVE  IsFiniteSet([D -> Values])
  <1> DEFINE on(X) == [o \in D |-> IF o \in X THEN "on" ELSE "off"]
             f == [X \in SUBSET D |-> on(X)]
  <1>1. \A X \in SUBSET D : on(X) \in [D -> Values]
    BY DEF Values
  <1>2. ASSUME NEW c \in [D -> Values] PROVE \E X \in SUBSET D : f[X] = c
    <2> DEFINE X == {o \in D : c[o] = "on"}
    <2>1. X \in SUBSET D
      OBVIOUS
    <2>2. \A o \in D : on(X)[o] = c[o]
      BY <1>2 DEF Values
    <2>3. on(X) = c
      BY <1>2, <2>2
    <2> QED
      BY <2>1, <2>3
  <1>3. f \in [SUBSET D -> [D -> Values]]
    BY <1>1
  <1> HIDE DEF f
  <1>4. f \in Surjection(SUBSET D, [D -> Values])
    BY <1>2, <1>3 DEF Surjection
  <1> QED
    BY <1>4, FS_SUBSET, FS_Surjection

LEMMA ConfigurationsAreSeq ==
  ASSUME NEW m \in Range(CModules)
  PROVE  Configurations(m) \in Seq([Declares[m] -> Values])
  <1>1. CASE Possible[m] # << >>
    BY <1>1, CollectionAssumption DEF CollectionAssumption, Configurations
  <1>2. CASE Possible[m] = << >>
    <2> DEFINE S == [Declares[m] -> Values]
    <2>1. IsFiniteSet(Declares[m])
      BY CollectionAssumption, FS_Subset DEF CollectionAssumption
    <2>2. IsFiniteSet(S)
      BY <2>1, FinitelyMany
    <2> HIDE DEF S
    <2>3. Cardinality(S) \in Nat /\ ExistsBijection(1 .. Cardinality(S), S)
      BY <2>2, FS_CardinalityType
    <2>4. \E f \in [1 .. Cardinality(S) -> S] : IsInjective(f)
      BY <2>3 DEF ExistsBijection, Bijection, Injection
    <2>5. SetToSeq(S) \in [1 .. Cardinality(S) -> S]
      BY <2>4 DEF SetToSeq
    <2>6. SetToSeq(S) \in Seq(S)
      BY <2>3, <2>5
    <2> QED
      BY <1>2, <2>6 DEF Configurations, S
  <1> QED
    BY <1>1, <1>2

LEMMA ConfTyped ==
  ASSUME NEW i \in DOMAIN CModules, NEW j \in DOMAIN Configurations(CModules[i])
  PROVE  Conf(i, j) \in [Declares[CModules[i]] -> Values]
  <1>1. CModules[i] \in Range(CModules)
    BY DEF Range
  <1> DEFINE s == Configurations(CModules[i])
             C == [Declares[CModules[i]] -> Values]
  <1>2. s \in Seq(C) /\ j \in DOMAIN s
    BY <1>1, ConfigurationsAreSeq
  <1> HIDE DEF s, C
  <1>3. s[j] \in C
    BY <1>2
  <1> QED
    BY <1>3 DEF Conf, s, C

-----------------------------------------------------------------------------
\* The selection depends on the decorators, the filter and the options it is given.
LEMMA SelectionStays ==
  ASSUME UNCHANGED <<says, filter>>, NEW t, NEW c
  PROVE  Selected(t, c)' <=> Selected(t, c)
  BY DEF Selected, FilteredOut, Met

LEMMA SelectedByEqual ==
  ASSUME NEW t \in CTests, CTyped, Own(t), NEW c, NEW d,
         \A o \in Declares[InModule[t]] \ Nested : c[o] = "on" <=> d[o] = "on"
  PROVE  Selected(t, c) <=> Selected(t, d)
  BY DEF Own, OwnMatter, Selected, Met

\* In a collection.
LEMMA TakenIsSelected ==
  ASSUME NEW t \in CTests, CTyped, Own(t), NEW c \in [Declares[InModule[t]] -> Values]
  PROVE  Selected(t, SetOptions(c)) <=> Selected(t, c)
  <1>1. Declares[InModule[t]] \subseteq Opts
    BY CollectionAssumption DEF CollectionAssumption
  <1>2. \A o \in Declares[InModule[t]] \ Nested : SetOptions(c)[o] = c[o]
    BY <1>1 DEF SetOptions
  <1> QED
    BY <1>2, SelectedByEqual

\* In a run.
LEMMA PlanIsSelected ==
  ASSUME NEW t \in CTests, CTyped, Own(t)
  PROVE  Selected(t, WithDefaults(InModule[t]))
           <=> Selected(t, ActualOf(InModule[t], WithDefaults(InModule[t])))
  BY SelectedByEqual DEF ActualOf

-----------------------------------------------------------------------------
LEMMA CInvInit == CollectionInit => CInv
  <1> SUFFICES ASSUME CollectionInit PROVE CInv
    OBVIOUS
  <1>1. Len(CModules) \in Nat
    BY CollectionAssumption DEF CollectionAssumption
  <1>2. CTyped
    BY <1>1, CollectionAssumption DEF CollectionAssumption, CollectionInit, CTyped
  <1>3. Sound /\ NothingPlanned /\ PlannedRight
    BY DEF CollectionInit, Sound, NothingPlanned, PlannedRight
  <1>4. Complete
    <2> SUFFICES ASSUME NEW i \in DOMAIN CModules, NEW j \in DOMAIN Configurations(CModules[i])
                 PROVE  ~Visited(i, j)
      BY DEF Complete
    <2>1. i \in 1 .. Len(CModules) /\ CModules[i] \in Range(CModules)
      BY CollectionAssumption DEF CollectionAssumption, Range
    <2>2. j \in 1 .. Len(Configurations(CModules[i]))
      BY <2>1, ConfigurationsAreSeq
    <2> QED
      BY <1>1, <2>1, <2>2 DEF CollectionInit, Visited
  <1> QED
    BY <1>2, <1>3, <1>4 DEF CInv

-----------------------------------------------------------------------------
LEMMA ModulesTyped ==
  /\ Len(CModules) \in Nat /\ DOMAIN CModules = 1 .. Len(CModules)
  /\ \A i \in DOMAIN CModules : CModules[i] \in Range(CModules)
  /\ \A i, j \in DOMAIN CModules : CModules[i] = CModules[j] => i = j
  BY CollectionAssumption DEF CollectionAssumption, Range, IsInjective

LEMMA RoundsTyped ==
  ASSUME NEW i \in DOMAIN CModules
  PROVE  /\ Len(Configurations(CModules[i])) \in Nat
         /\ DOMAIN Configurations(CModules[i]) = 1 .. Len(Configurations(CModules[i]))
  BY ModulesTyped, ConfigurationsAreSeq

LEMMA OptionsTyped ==
  ASSUME NEW i \in DOMAIN CModules, CTyped
  PROVE  /\ \A c \in [Declares[CModules[i]] -> Values] :
              SetOptions(c) \in [Opts -> Values \cup {"unset"}]
         /\ WithDefaults(CModules[i]) \in [Opts -> Values \cup {"unset"}]
         /\ ActualOf(CModules[i], WithDefaults(CModules[i])) \in Actuals
  <1>1. CModules[i] \in Range(CModules) /\ Declares[CModules[i]] \subseteq Opts
    BY ModulesTyped, CollectionAssumption DEF CollectionAssumption
  <1>2. \A c \in [Declares[CModules[i]] -> Values] :
          SetOptions(c) \in [Opts -> Values \cup {"unset"}]
    BY <1>1 DEF CTyped, SetOptions
  <1>3. WithDefaults(CModules[i]) \in [Opts -> Values \cup {"unset"}]
    BY <1>1 DEF CTyped, WithDefaults, Values
  <1>4. ActualOf(CModules[i], WithDefaults(CModules[i]))
          \in [Declares[CModules[i]] -> Values \cup {"unset"}]
    BY <1>1, <1>3 DEF ActualOf, Values
  <1> QED
    BY <1>1, <1>2, <1>3, <1>4 DEF Actuals

LEMMA CollectConfigurationKeeps == CInv /\ CollectConfiguration => CInv'
  <1> SUFFICES ASSUME CInv, CollectConfiguration PROVE CInv'
    OBVIOUS
  <1> DEFINE m == CModules[atModule]
             c == Conf(atModule, round)
  <1>1. /\ session = "collect" /\ atModule \in DOMAIN CModules /\ CTyped
        /\ round \in DOMAIN Configurations(m)
    BY ModulesTyped, RoundsTyped DEF CInv, CTyped, CollectConfiguration
  <1>2. c \in [Declares[m] -> Values]
    BY <1>1, ConfTyped
  <1>3. /\ config' = SetOptions(c) /\ reported' = reported \cup {<<t, c>> : t \in Taken(m, c)}
        /\ round' = round + 1 /\ UNCHANGED <<says, filter, session, atModule, planned, actual>>
        /\ given' = given
    BY DEF CollectConfiguration, Conf
  <1> HIDE DEF m, c
  <1>4. ASSUME NEW t \in CTests, Own(t), InModule[t] = m
        PROVE  t \in Taken(m, c) <=> Selected(t, c)
    BY <1>1, <1>2, <1>4, TakenIsSelected DEF Taken, TestsOf
  <1>5. CTyped'
    BY <1>1, <1>2, <1>3, OptionsTyped DEF CTyped, m
  <1>6. Sound'
    <2> SUFFICES ASSUME NEW t \in CTests, Own(t)',
                        NEW d \in [Declares[InModule[t]] -> Values], <<t, d>> \in reported'
                 PROVE  Selected(t, d)'
      BY DEF Sound
    <2>1. Own(t)
      BY <1>3 DEF Own, OwnMatter
    <2>2. CASE <<t, d>> \in reported
      BY <1>3, <2>1, <2>2, SelectionStays DEF CInv, Sound
    <2>3. CASE t \in Taken(m, c) /\ d = c
      <3>1. InModule[t] = m
        BY <2>3 DEF Taken, TestsOf
      <3> QED
        BY <1>3, <1>4, <2>1, <2>3, <3>1, SelectionStays
    <2> QED
      BY <1>3, <2>2, <2>3
  <1>7. Complete'
    <2> SUFFICES ASSUME NEW t \in CTests, NEW i \in DOMAIN CModules, InModule[t] = CModules[i], Own(t)',
                        NEW j \in DOMAIN Configurations(CModules[i]),
                        Visited(i, j)', Selected(t, Conf(i, j))'
                 PROVE  <<t, Conf(i, j)>> \in reported'
      BY DEF Complete, Conf, Configurations
    <2>1. Own(t) /\ Selected(t, Conf(i, j))
      BY <1>3, SelectionStays DEF Own, OwnMatter
    <2>2. CASE Visited(i, j)
      BY <1>3, <2>1, <2>2 DEF CInv, Complete
    <2>3. CASE i = atModule /\ j = round
      BY <1>3, <1>4, <2>1, <2>3 DEF m, c
    <2>4. j \in Nat /\ i \in Nat
      BY ModulesTyped, RoundsTyped
    <2>5. Visited(i, j) \/ (i = atModule /\ j = round)
      BY <1>1, <1>3, <2>4 DEF Visited, CTyped
    <2> QED
      BY <2>2, <2>3, <2>5
  <1>8. NothingPlanned' /\ PlannedRight'
    BY <1>1, <1>3 DEF CInv, NothingPlanned, PlannedRight
  <1> QED
    BY <1>5, <1>6, <1>7, <1>8 DEF CInv

LEMMA CollectNextKeeps == CInv /\ CollectNext => CInv'
  <1> SUFFICES ASSUME CInv, CollectNext PROVE CInv'
    OBVIOUS
  <1>1. /\ session = "collect" /\ atModule \in DOMAIN CModules /\ CTyped
        /\ round > Len(Configurations(CModules[atModule]))
        /\ atModule' = atModule + 1 /\ round' = 1
        /\ UNCHANGED <<says, given, filter, session, config, reported, planned, actual>>
    BY ModulesTyped DEF CInv, CTyped, CollectNext
  <1>2. CTyped'
    BY <1>1, ModulesTyped DEF CTyped
  <1>3. Sound'
    BY <1>1, SelectionStays DEF CInv, Sound, Own, OwnMatter
  <1>4. Complete'
    <2> SUFFICES ASSUME NEW t \in CTests, NEW i \in DOMAIN CModules, InModule[t] = CModules[i], Own(t)',
                        NEW j \in DOMAIN Configurations(CModules[i]),
                        Visited(i, j)', Selected(t, Conf(i, j))'
                 PROVE  <<t, Conf(i, j)>> \in reported'
      BY DEF Complete, Conf, Configurations
    <2>1. Own(t) /\ Selected(t, Conf(i, j))
      BY <1>1, SelectionStays DEF Own, OwnMatter
    <2>2. j \in 1 .. Len(Configurations(CModules[i])) /\ i \in Nat
      BY ModulesTyped, RoundsTyped
    <2>3. Len(Configurations(CModules[i])) \in Nat
      BY RoundsTyped
    <2>4. Visited(i, j)
      BY <1>1, <2>2, <2>3 DEF Visited, CTyped
    <2> QED
      BY <1>1, <2>1, <2>4 DEF CInv, Complete
  <1>5. NothingPlanned' /\ PlannedRight'
    BY <1>1 DEF CInv, NothingPlanned, PlannedRight
  <1> QED
    BY <1>2, <1>3, <1>4, <1>5 DEF CInv

LEMMA RunSessionKeeps == CInv /\ RunSession => CInv'
  <1> SUFFICES ASSUME CInv, RunSession PROVE CInv'
    OBVIOUS
  <1>1. /\ session = "collect" /\ atModule > Len(CModules) /\ CTyped
        /\ planned = {} /\ actual = << >>
        /\ session' = "run" /\ atModule' = 1 /\ given' \in Givens /\ config' = given'
        /\ UNCHANGED <<says, filter, round, reported, planned, actual>>
    BY DEF CInv, NothingPlanned, RunSession
  <1>2. CTyped'
    BY <1>1, ModulesTyped, CollectionAssumption DEF CTyped, CollectionAssumption
  <1>3. Sound'
    BY <1>1, SelectionStays DEF CInv, Sound, Own, OwnMatter
  <1>4. Complete'
    <2> SUFFICES ASSUME NEW t \in CTests, NEW i \in DOMAIN CModules, InModule[t] = CModules[i], Own(t)',
                        NEW j \in DOMAIN Configurations(CModules[i]), Selected(t, Conf(i, j))'
                 PROVE  <<t, Conf(i, j)>> \in reported'
      BY DEF Complete, Conf, Configurations
    <2>1. Own(t) /\ Selected(t, Conf(i, j))
      BY <1>1, SelectionStays DEF Own, OwnMatter
    <2>2. Visited(i, j)
      BY <1>1, ModulesTyped DEF Visited, CTyped
    <2> QED
      BY <1>1, <2>1, <2>2 DEF CInv, Complete
  <1>5. NothingPlanned' /\ PlannedRight'
    BY <1>1, ModulesTyped DEF NothingPlanned, PlannedRight
  <1> QED
    BY <1>2, <1>3, <1>4, <1>5 DEF CInv

LEMMA PlanModuleKeeps == CInv /\ PlanModule => CInv'
  <1> SUFFICES ASSUME CInv, PlanModule PROVE CInv'
    OBVIOUS
  <1> DEFINE m == CModules[atModule]
             options == WithDefaults(m)
             a == ActualOf(m, options)
  <1>1. /\ session = "run" /\ atModule \in DOMAIN CModules /\ CTyped
        /\ UNCHANGED <<says, given, filter, round, reported>>
        /\ config' = options
        /\ \/ session' = "raised" /\ UNCHANGED <<atModule, planned, actual>>
           \/ /\ planned' = planned \cup {t \in TestsOf(m) : Selected(t, options)}
              /\ actual' = Append(actual, a)
              /\ atModule' = atModule + 1 /\ session' = session
    BY ModulesTyped DEF CInv, CTyped, PlanModule
  <1>2. options \in [Opts -> Values \cup {"unset"}] /\ a \in Actuals
    BY <1>1, OptionsTyped
  <1>3. ASSUME NEW t \in CTests, Own(t), InModule[t] = m
        PROVE  Selected(t, options) <=> Selected(t, a)
    BY <1>1, <1>3, PlanIsSelected
  <1> HIDE DEF m, options, a
  <1>4. CTyped'
    <2>1. atModule \in 1 .. Len(CModules) /\ actual \in Seq(Actuals)
      BY <1>1, ModulesTyped DEF CTyped
    <2>2. Append(actual, a) \in Seq(Actuals)
      BY <1>2, <2>1
    <2>3. atModule' \in 1 .. Len(CModules) + 1
      BY <1>1, <2>1, ModulesTyped
    <2>4. actual' \in Seq(Actuals)
      BY <1>1, <2>1, <2>2
    <2>5. session' \in {"collect", "run", "raised"}
      BY <1>1
    <2> QED
      BY <1>1, <1>2, <2>3, <2>4, <2>5 DEF CTyped
  <1>5. Sound'
    BY <1>1, SelectionStays DEF CInv, Sound, Own, OwnMatter
  <1>6. Complete'
    <2> SUFFICES ASSUME NEW t \in CTests, NEW i \in DOMAIN CModules, InModule[t] = CModules[i], Own(t)',
                        NEW j \in DOMAIN Configurations(CModules[i]), Selected(t, Conf(i, j))'
                 PROVE  <<t, Conf(i, j)>> \in reported'
      BY DEF Complete, Conf, Configurations
    <2>1. Own(t) /\ Selected(t, Conf(i, j)) /\ Visited(i, j)
      BY <1>1, SelectionStays DEF Own, OwnMatter, Visited
    <2> QED
      BY <1>1, <2>1 DEF CInv, Complete
  <1>7. NothingPlanned'
    BY <1>1 DEF NothingPlanned
  <1>8. PlannedRight'
    <2>1. CASE session' = "raised" /\ UNCHANGED <<atModule, planned, actual>>
      BY <1>1, <2>1, SelectionStays DEF CInv, PlannedRight, Own, OwnMatter
    <2>2. CASE /\ planned' = planned \cup {t \in TestsOf(m) : Selected(t, options)}
               /\ actual' = Append(actual, a)
               /\ atModule' = atModule + 1 /\ session' = session
      <3>1. /\ Len(actual) = atModule - 1 /\ actual \in Seq(Actuals) /\ atModule \in Nat \ {0}
            /\ Len(actual') = atModule' - 1 /\ actual'[atModule] = a
            /\ \A i \in 1 .. atModule - 1 : actual'[i] = actual[i]
        BY <1>1, <1>2, <2>2 DEF CInv, PlannedRight, CTyped
      <3>2. ASSUME NEW t \in CTests, NEW i \in DOMAIN CModules, InModule[t] = CModules[i], Own(t)'
            PROVE  /\ i < atModule' => (t \in planned' <=> Selected(t, actual'[i]))
                   /\ i >= atModule' => t \notin planned'
        <4>1. Own(t) /\ i \in Nat \ {0}
          BY <1>1, <3>2, ModulesTyped DEF Own, OwnMatter
        <4>2. t \in TestsOf(m) <=> i = atModule
          BY <1>1, <3>2, ModulesTyped DEF TestsOf, m
        <4>3. /\ i < atModule => (t \in planned <=> Selected(t, actual[i]))
              /\ i >= atModule => t \notin planned
          BY <1>1, <3>2, <4>1 DEF CInv, PlannedRight
        <4>4. CASE i = atModule
          BY <1>3, <2>2, <3>1, <3>2, <4>1, <4>2, <4>3, <4>4 DEF m
        <4>5. CASE i # atModule
          BY <2>2, <3>1, <4>1, <4>2, <4>3, <4>5
        <4> QED
          BY <4>4, <4>5
      <3>3. ASSUME NEW t, NEW d PROVE Selected(t, d)' <=> Selected(t, d)
        BY <1>1, SelectionStays
      <3> QED
        BY <3>1, <3>2, <3>3 DEF PlannedRight
    <2> QED
      BY <1>1, <2>1, <2>2
  <1> QED
    BY <1>4, <1>5, <1>6, <1>7, <1>8 DEF CInv

LEMMA CInvNext == CInv /\ [CollectionNext]_collectionVars => CInv'
  <1> SUFFICES ASSUME CInv, UNCHANGED collectionVars PROVE CInv'
    BY CollectConfigurationKeeps, CollectNextKeeps, RunSessionKeeps, PlanModuleKeeps
       DEF CollectionNext
  <1>1. UNCHANGED <<says, given, filter, session, atModule, round, config, reported, planned, actual>>
    BY DEF collectionVars
  <1>2. \A t \in CTests : Own(t)' <=> Own(t)
    BY <1>1 DEF Own, OwnMatter
  <1>3. ASSUME NEW t, NEW c PROVE Selected(t, c)' <=> Selected(t, c)
    BY <1>1, SelectionStays
  <1>4. CTyped' /\ NothingPlanned'
    BY <1>1 DEF CInv, CTyped, NothingPlanned
  <1>5. Sound'
    BY <1>1, <1>2, <1>3 DEF CInv, Sound
  <1>6. Complete'
    BY <1>1, <1>2, <1>3 DEF CInv, Complete, Visited, Conf, Configurations
  <1>7. PlannedRight'
    BY <1>1, <1>2, <1>3 DEF CInv, PlannedRight
  <1> QED
    BY <1>4, <1>5, <1>6, <1>7 DEF CInv

LEMMA ModulesPassed ==
  ASSUME CTyped, NEW i \in 1 .. atModule - 1
  PROVE  i \in DOMAIN CModules /\ i < atModule /\ CModules[i] \in Range(CModules)
  <1>1. atModule \in 1 .. Len(CModules) + 1
    BY DEF CTyped
  <1>2. i \in 1 .. Len(CModules) /\ i < atModule
    BY <1>1, ModulesTyped
  <1> QED
    BY <1>2, ModulesTyped

LEMMA CInvFact == CInv => CollectedIsRun
  <1> SUFFICES ASSUME CInv PROVE CollectedIsRun
    OBVIOUS
  <1> SUFFICES ASSUME session = "run", NEW i \in 1 .. atModule - 1, NEW t \in TestsOf(CModules[i]),
                      actual[i] \in Range(Configurations(CModules[i])),
                      OwnMatter(t, Declares[CModules[i]] \ Nested)
               PROVE  t \in planned <=> <<t, actual[i]>> \in reported
    <2>1. \A k \in 1 .. atModule - 1 : CModules[k] \in Range(CModules)
      BY ModulesPassed DEF CInv
    <2> QED
      BY <2>1 DEF CollectedIsRun, ReportedAndRun
  <1>1. /\ i \in DOMAIN CModules /\ i < atModule
        /\ t \in CTests /\ InModule[t] = CModules[i] /\ Own(t)
    BY ModulesPassed DEF CInv, TestsOf, Own
  <1>2. PICK j \in DOMAIN Configurations(CModules[i]) : actual[i] = Conf(i, j)
    BY DEF Range, Conf
  <1>3. actual[i] \in [Declares[InModule[t]] -> Values]
    BY <1>1, <1>2, ConfTyped
  <1>4. t \in planned <=> Selected(t, actual[i])
    BY <1>1 DEF CInv, PlannedRight
  <1>5. Selected(t, actual[i]) => <<t, actual[i]>> \in reported
    BY <1>1, <1>2 DEF CInv, Complete, Visited
  <1>6. <<t, actual[i]>> \in reported => Selected(t, actual[i])
    BY <1>1, <1>3 DEF CInv, Sound
  <1> QED
    BY <1>4, <1>5, <1>6

\* A run executes a test in a configuration exactly if --collect-only has listed it there, if
\* the test requires only options of its own module, whatever else the sessions have set.
THEOREM CollectionListsTheRun == CollectionSpec => []CollectedIsRun
  BY CInvInit, CInvNext, CInvFact, PTL DEF CollectionSpec

-----------------------------------------------------------------------------
\* Tools.
LEMMA ToolsInit == Init => KillerInit
  BY DEF Init

LEMMA ToolsStep == [Next]_vars => [KillerNext]_killerVars
  <1> SUFFICES ASSUME [Next]_vars PROVE [KillerNext]_killerVars
    OBVIOUS
  <1>1. CASE Collecting \/ Analysis \/ Scanning \/ Reporting
    BY <1>1 DEF Collecting, Analysis, Scanning, Reporting, OfCollection, OfExchanges, OfFailures, OfReport
  <1>2. CASE Killing
    BY <1>2 DEF Killing, OfKiller, KillerNext
  <1>3. CASE UNCHANGED vars
    BY <1>3 DEF vars
  <1> QED
    BY <1>1, <1>2, <1>3 DEF Next

\* Every step of Tools is one of the plugin, as it is alone, or does not concern it.
THEOREM ToolsImplementKiller == Spec => KillerSpec
  BY ToolsInit, ToolsStep, PTL DEF Spec, KillerSpec

\* Without force_setup no process of another user that ran when the plugin was called gets a
\* signal.
THEOREM AliensAreSpared == Spec => []AliensSpared
  BY ToolsImplementKiller, KillerSparesAliens, PTL

\* When the plugin lets the session go on at most one of the processes it was called to end
\* is left.
THEOREM OldJavaIsEnded == Spec => []OldJavaIsGone
  BY ToolsImplementKiller, KillerEndsOldJava, PTL

-----------------------------------------------------------------------------
LEMMA ToolsInitCollection == Init => CollectionInit
  BY DEF Init

LEMMA ToolsStepCollection == [Next]_vars => [CollectionNext]_collectionVars
  <1> SUFFICES ASSUME [Next]_vars PROVE [CollectionNext]_collectionVars
    OBVIOUS
  <1>1. CASE Analysis \/ Scanning \/ Reporting \/ Killing
    BY <1>1 DEF Analysis, Scanning, Reporting, Killing, OfExchanges, OfFailures, OfReport, OfKiller
  <1>2. CASE Collecting
    BY <1>2 DEF Collecting, OfCollection, CollectionNext
  <1>3. CASE UNCHANGED vars
    BY <1>3 DEF vars
  <1> QED
    BY <1>1, <1>2, <1>3 DEF Next

\* Every step of Tools is one of the collection or the run, or does not concern them.
THEOREM ToolsImplementCollection == Spec => CollectionSpec
  BY ToolsInitCollection, ToolsStepCollection, PTL DEF Spec, CollectionSpec

\* A run executes a test in a configuration exactly if --collect-only has listed it there, if
\* the test requires only options of its own module.
THEOREM CollectedAreRun == Spec => []CollectedIsRun
  BY ToolsImplementCollection, CollectionListsTheRun, PTL

-----------------------------------------------------------------------------
\* The search for failures.  In the end there will be one for each section that was closed and
\* for the one that was read last (Flushed).  Their lines lie apart from each other (Apart), and
\* every line that tells of a failure is in one of them or cut off behind it (Covered).
Found == [line : Nat, lines : Seq(Nat), time : Nat]

ScanTyped ==
  /\ text \in Seq(LineKinds) /\ trace \in Seq(Nat) /\ startLine \in Nat
  /\ inside \in BOOLEAN /\ afterEnd \in BOOLEAN
  /\ failures \in Seq(Found)

Section(f) ==
  /\ f.lines # << >> /\ f.lines[1] = f.line
  /\ f.line \in 1 .. Len(text) /\ text[f.line] \in Starting
  /\ \A j \in 1 .. Len(f.lines) : f.lines[j] \in f.line .. Len(text)
  /\ \A j \in 1 .. Len(f.lines) - 1 : Follows(f.lines, j)

Sections == \A k \in 1 .. Len(Flushed) : Section(Flushed[k])

Before(f, g) == \A j \in 1 .. Len(f.lines) : f.lines[j] < g.line

Apart == \A k, l \in 1 .. Len(Flushed) : k < l => Before(Flushed[k], Flushed[l])

Has(f, i) == \E j \in 1 .. Len(f.lines) : f.lines[j] = i

\* The lines of which none may be lost.
Telling == Starting \ {"info failed"}

Covered ==
  \A i \in 1 .. Len(text) : text[i] \in Telling =>
    \E k \in 1 .. Len(Flushed) : Has(Flushed[k], i) \/ i - Flushed[k].line > MaxTrace

\* The section that is read, and one that has just ended, reach to the last line.
Reading ==
  /\ inside => /\ trace # << >> /\ trace[Len(trace)] = Len(text)
               /\ Len(trace) = 1 \/ text[Len(text)] \notin Ending
               /\ ~afterEnd
  /\ afterEnd => /\ Len(trace) > 1 /\ trace[Len(trace)] = Len(text)
                 /\ trace[Len(trace) - 1] = Len(text) - 1
                 /\ text[Len(text)] \in Ending \/ Len(text) - startLine > MaxTrace

Scan == ScanTyped /\ Sections /\ Apart /\ Covered /\ Reading

FInv == IF scanned THEN FailuresAreFound ELSE Scan

-----------------------------------------------------------------------------
LEMMA KindsDiffer ==
  /\ \A kind \in Starting \ {"info failed"} : kind \notin Ending
  /\ "caused by" \in Starting /\ "caused by" \notin Ending
  BY DEF Starting, Ending

\* The text after one more line.
Grows(kind) ==
  /\ text' \in Seq(LineKinds) /\ Len(text') = Len(text) + 1 /\ Len(text) \in Nat
  /\ \A i \in 1 .. Len(text) : text'[i] = text[i]
  /\ text'[Len(text) + 1] = kind

LEMMA ReadGrows ==
  ASSUME ScanTyped, NEW kind \in LineKinds, ReadsLine(kind)
  PROVE  Grows(kind)
  BY DEF ScanTyped, ReadsLine, Grows

LEMMA FrontOf ==
  ASSUME NEW s \in Seq(Nat), s # << >>
  PROVE  /\ Front(s) \in Seq(Nat) /\ Len(Front(s)) = Len(s) - 1
         /\ \A j \in 1 .. Len(s) - 1 : Front(s)[j] = s[j]
  <1> DEFINE n == Len(s) - 1
  <1>1. n \in Nat /\ \A j \in 1 .. n : s[j] \in Nat
    OBVIOUS
  <1>5. Front(s) = SubSeq(s, 1, n)
    BY DEF Front
  <1> HIDE DEF n
  <1>2. /\ SubSeq(s, 1, n) \in Seq(Nat)
        /\ Len(SubSeq(s, 1, n)) = IF 1 <= n THEN n - 1 + 1 ELSE 0
        /\ \A i \in 1 .. n - 1 + 1 : SubSeq(s, 1, n)[i] = s[1 + i - 1]
    <2>1. 1 \in Int /\ n \in Int
      BY <1>1
    <2> QED
      BY <1>1, <2>1, SubSeqProperties
  <1>3. n - 1 + 1 = n /\ \A i \in 1 .. n : 1 + i - 1 = i
    BY <1>1
  <1>4. (IF 1 <= n THEN n - 1 + 1 ELSE 0) = n
    BY <1>1
  <1>6. Len(Front(s)) = n /\ \A i \in 1 .. n : Front(s)[i] = s[i]
    BY <1>2, <1>3, <1>4, <1>5
  <1> QED
    BY <1>2, <1>5, <1>6 DEF n

LEMMA Rejoined ==
  ASSUME NEW t \in Seq(Nat), Len(t) > 1, NEW i \in Nat
  PROVE  /\ Append(Front(t), i) \in Seq(Nat)
         /\ Len(Append(Front(t), i)) = Len(t) /\ Append(Front(t), i)[Len(t)] = i
         /\ \A j \in 1 .. Len(t) - 1 : Append(Front(t), i)[j] = t[j]
  <1>1. t # << >> /\ Len(t) \in Nat
    OBVIOUS
  <1>2. PICK u : u = Front(t)
    OBVIOUS
  <1>3. /\ u \in Seq(Nat) /\ Len(u) = Len(t) - 1
        /\ \A j \in 1 .. Len(t) - 1 : u[j] = t[j]
    BY <1>1, <1>2, FrontOf
  <1>4. /\ Append(u, i) \in Seq(Nat) /\ Len(Append(u, i)) = Len(u) + 1
        /\ Append(u, i)[Len(u) + 1] = i
        /\ \A j \in 1 .. Len(u) : Append(u, i)[j] = u[j]
    BY <1>3
  <1>5. Len(u) + 1 = Len(t)
    BY <1>1, <1>3
  <1> QED
    BY <1>2, <1>3, <1>4, <1>5

\* What is found: the sections that are closed and the one in `trace`.
LastFound == [line |-> startLine, lines |-> trace, time |-> 0]

LEMMA FlushedIs ==
  ASSUME ScanTyped
  PROVE  /\ Flushed \in Seq(Found)
         /\ trace = << >> => Flushed = failures
         /\ trace # << >> => /\ Len(Flushed) = Len(failures) + 1
                             /\ \A k \in 1 .. Len(failures) : Flushed[k] = failures[k]
                             /\ Flushed[Len(failures) + 1] = LastFound
  <1>1. LastFound \in Found
    BY DEF LastFound, Found, ScanTyped
  <1>2. CASE trace = << >>
    BY <1>2 DEF Flushed, ScanTyped
  <1>3. CASE trace # << >>
    <2>1. Flushed = Append(failures, LastFound)
      BY <1>3 DEF Flushed, LastFound
    <2> QED
      BY <2>1, <1>1, <1>3 DEF ScanTyped
  <1> QED
    BY <1>2, <1>3

-----------------------------------------------------------------------------
LEMMA Bounds ==
  ASSUME NEW f \in Found, Section(f), Len(text) \in Nat
  PROVE  /\ f.lines \in Seq(Nat) /\ f.line \in Nat /\ Len(f.lines) \in Nat /\ Len(f.lines) > 0
         /\ f.line \in 1 .. Len(text)
         /\ \A j \in 1 .. Len(f.lines) :
              f.lines[j] \in Nat /\ f.line <= f.lines[j] /\ f.lines[j] <= Len(text)
  <1>1. f.lines \in Seq(Nat) /\ f.line \in Nat /\ f.lines # << >>
    BY DEF Found, Section
  <1>2. f.line \in 1 .. Len(text) /\ \A j \in 1 .. Len(f.lines) : f.lines[j] \in f.line .. Len(text)
    BY DEF Section
  <1> QED
    BY <1>1, <1>2

\* The sections stay what they are when a line is read.
LEMMA SectionStays ==
  ASSUME NEW kind, Grows(kind), NEW f \in Found, Section(f)
  PROVE  Section(f)'
  <1>1. /\ Len(f.lines) \in Nat
        /\ \A j \in 1 .. Len(f.lines) : f.lines[j] \in 1 .. Len(text)
    BY Bounds DEF Grows
  <1>2. /\ f.lines # << >> /\ f.lines[1] = f.line
        /\ f.line \in 1 .. Len(text') /\ text'[f.line] \in Starting
        /\ \A j \in 1 .. Len(f.lines) : f.lines[j] \in f.line .. Len(text')
    BY <1>1 DEF Section, Grows
  <1>3. \A j \in 1 .. Len(f.lines) - 1 : Follows(f.lines, j)'
    <2> SUFFICES ASSUME NEW j \in 1 .. Len(f.lines) - 1
                 PROVE  Follows(f.lines, j)'
      OBVIOUS
    <2>1. j \in 1 .. Len(f.lines) /\ j + 1 \in 1 .. Len(f.lines)
      BY <1>1
    <2>2. f.lines[j] \in 1 .. Len(text) /\ f.lines[j + 1] \in 1 .. Len(text)
      BY <2>1, <1>1
    <2>3. text'[f.lines[j]] = text[f.lines[j]] /\ text'[f.lines[j + 1]] = text[f.lines[j + 1]]
      BY <2>2 DEF Grows
    <2> QED
      BY <2>3 DEF Section, Follows
  <1> QED
    BY <1>2, <1>3 DEF Section

\* A section gets one more line.
LEMMA SectionGrows ==
  ASSUME NEW kind, Grows(kind),
         NEW f \in Found, Section(f), NEW t, t = f.lines, f.lines[Len(t)] = Len(text),
         Len(t) = 1 \/ text[Len(text)] \notin Ending,
         NEW g \in Found, g.line = f.line, g.lines = Append(t, Len(text) + 1)
  PROVE  Section(g)'
  <1>1. t \in Seq(Nat) /\ f.line \in Nat /\ Len(t) \in Nat /\ Len(t) > 0
    BY DEF Found, Section
  <1>2. /\ Len(g.lines) = Len(t) + 1 /\ g.lines[Len(t) + 1] = Len(text) + 1
        /\ \A j \in 1 .. Len(t) : g.lines[j] = t[j]
    BY <1>1 DEF Grows
  <1>3. Section(f)'
    BY SectionStays
  <1>4. \A j \in 1 .. Len(t) - 1 : Follows(g.lines, j)'
    <2> SUFFICES ASSUME NEW j \in 1 .. Len(t) - 1
                 PROVE  Follows(g.lines, j)'
      OBVIOUS
    <2>1. g.lines[j] = t[j] /\ g.lines[j + 1] = t[j + 1]
      BY <1>1, <1>2
    <2> QED
      BY <2>1, <1>3 DEF Section, Follows
  <1>5. Follows(g.lines, Len(t))'
    <2>1. g.lines[Len(t)] = Len(text) /\ g.lines[Len(t) + 1] = Len(text) + 1
      BY <1>1, <1>2
    <2>2. Len(text) \in 1 .. Len(text)
      BY <1>1 DEF Section, Grows
    <2>3. text'[Len(text)] = text[Len(text)]
      BY <2>2 DEF Grows
    <2> QED
      BY <2>1, <2>3 DEF Follows
  <1>6. \A j \in 1 .. Len(g.lines) : g.lines[j] \in g.line .. Len(text')
    <2> SUFFICES ASSUME NEW j \in 1 .. Len(g.lines)
                 PROVE  g.lines[j] \in g.line .. Len(text')
      OBVIOUS
    <2>1. CASE j = Len(t) + 1
      BY <2>1, <1>1, <1>2 DEF Section, Grows
    <2>2. CASE j \in 1 .. Len(t)
      BY <2>2, <1>1, <1>2 DEF Section, Grows
    <2> QED
      BY <2>1, <2>2, <1>1, <1>2
  <1>7. /\ g.lines # << >> /\ g.lines[1] = g.line
        /\ g.line \in 1 .. Len(text') /\ text'[g.line] \in Starting
    <2>1. 1 \in 1 .. Len(t) /\ Len(g.lines) # 0
      BY <1>1, <1>2
    <2>2. g.lines # << >> /\ g.lines[1] = t[1]
      BY <2>1, <1>2
    <2> QED
      BY <2>2, <1>3 DEF Section
  <1>8. \A j \in 1 .. Len(g.lines) - 1 : Follows(g.lines, j)'
    BY <1>1, <1>2, <1>4, <1>5
  <1> QED
    BY <1>6, <1>7, <1>8 DEF Section

\* A cause replaces the last line of a section.
IsCause(kind) == kind = "caused by"

LEMMA SectionJoins ==
  ASSUME NEW kind, Grows(kind), IsCause(kind),
         NEW f \in Found, Section(f), NEW t, t = f.lines, Len(t) > 1,
         t[Len(t) - 1] = Len(text) - 1,
         NEW g \in Found, g.line = f.line, Len(g.lines) = Len(t),
         g.lines[Len(t)] = Len(text) + 1, \A j \in 1 .. Len(t) - 1 : g.lines[j] = t[j]
  PROVE  Section(g)'
  <1> DEFINE n == Len(text)
  <1>1. n \in Nat /\ Len(text') = n + 1
    BY DEF Grows
  <1>2. /\ t \in Seq(Nat) /\ f.line \in 1 .. n /\ Len(t) \in Nat
        /\ \A j \in 1 .. Len(t) : t[j] \in Nat /\ f.line <= t[j] /\ t[j] <= n
    BY <1>1, Bounds
  <1>4. t[Len(t) - 1] = n - 1 /\ t[1] = g.line /\ g.line = f.line /\ Len(t) > 1
    BY DEF Section
  <1> HIDE DEF n
  <1>5. /\ g.lines \in Seq(Nat) /\ Len(g.lines) = Len(t) /\ g.lines[Len(t)] = n + 1
        /\ \A j \in 1 .. Len(t) - 1 : g.lines[j] = t[j]
    BY DEF n, Found
  <1>6. Section(f)'
    BY SectionStays
  <1>7. \A j \in 1 .. Len(t) - 2 : Follows(g.lines, j)'
    <2> SUFFICES ASSUME NEW j \in 1 .. Len(t) - 2
                 PROVE  Follows(g.lines, j)'
      OBVIOUS
    <2>1. j \in 1 .. Len(t) - 1 /\ j + 1 \in 1 .. Len(t) - 1
      BY <1>2
    <2>2. g.lines[j] = t[j] /\ g.lines[j + 1] = t[j + 1]
      BY <2>1, <1>5
    <2> QED
      BY <2>1, <2>2, <1>6 DEF Section, Follows
  <1>8. Follows(g.lines, Len(t) - 1)'
    <2>1. (Len(t) - 1) + 1 = Len(t) /\ (n - 1) + 2 = n + 1 /\ Len(t) - 1 \in 1 .. Len(t) - 1
      BY <1>1, <1>2, <1>4
    <2>2. g.lines[Len(t) - 1] = n - 1 /\ g.lines[(Len(t) - 1) + 1] = (n - 1) + 2
      BY <2>1, <1>4, <1>5
    <2>3. text'[g.lines[(Len(t) - 1) + 1]] = "caused by"
      BY <2>1, <1>5 DEF Grows, IsCause, n
    <2> QED
      BY <2>2, <2>3 DEF Follows
  <1>9. \A j \in 1 .. Len(g.lines) : g.lines[j] \in g.line .. Len(text')
    <2> SUFFICES ASSUME NEW j \in 1 .. Len(g.lines)
                 PROVE  g.lines[j] \in g.line .. n + 1
      BY <1>1
    <2>1. CASE j = Len(t)
      <3>1. g.lines[j] = n + 1
        BY <2>1, <1>5
      <3>2. g.line \in 1 .. n
        BY <1>2, <1>4
      <3> QED
        BY <3>1, <3>2, <1>1
    <2>2. CASE j # Len(t)
      <3>1. j \in 1 .. Len(t) - 1 /\ j \in 1 .. Len(t)
        BY <2>2, <1>2, <1>5
      <3>2. g.lines[j] = t[j] /\ t[j] \in Nat /\ g.line <= t[j] /\ t[j] <= n
        BY <3>1, <1>2, <1>4, <1>5
      <3> QED
        BY <3>2, <1>1, <1>2, <1>4
    <2> QED
      BY <2>1, <2>2
  <1>10. g.lines # << >> /\ g.lines[1] = g.line
    <2>1. 1 \in 1 .. Len(t) - 1 /\ Len(g.lines) # 0
      BY <1>2, <1>4, <1>5
    <2> QED
      BY <2>1, <1>4, <1>5
  <1>11. g.line \in 1 .. Len(text') /\ text'[g.line] \in Starting
    BY <1>6, <1>4 DEF Section
  <1>12. \A j \in 1 .. Len(g.lines) - 1 : Follows(g.lines, j)'
    <2>1. \A j \in 1 .. Len(g.lines) - 1 : j \in 1 .. Len(t) - 2 \/ j = Len(t) - 1
      <3>1. Len(g.lines) = Len(t) /\ Len(t) \in Nat
        BY <1>2, <1>5
      <3>2. \A j \in 1 .. Len(t) - 1 : j \in 1 .. Len(t) - 2 \/ j = Len(t) - 1
        BY <3>1
      <3> QED
        BY <3>1, <3>2
    <2> QED
      BY <2>1, <1>7, <1>8
  <1> QED
    BY <1>9, <1>10, <1>11, <1>12 DEF Section

-----------------------------------------------------------------------------
LEMMA FlushedThen ==
  ASSUME ScanTyped'
  PROVE  trace' # << >> => /\ Len(Flushed') = Len(failures') + 1
                           /\ \A k \in 1 .. Len(failures') : Flushed'[k] = failures'[k]
                           /\ Flushed'[Len(failures') + 1] = LastFound'
  <1> SUFFICES ASSUME trace' # << >>
               PROVE  /\ Len(Flushed') = Len(failures') + 1
                      /\ \A k \in 1 .. Len(failures') : Flushed'[k] = failures'[k]
                      /\ Flushed'[Len(failures') + 1] = LastFound'
    OBVIOUS
  <1>1. LastFound' \in Found /\ failures' \in Seq(Found)
    BY DEF LastFound, Found, ScanTyped
  <1>2. Flushed' = Append(failures', LastFound')
    BY DEF Flushed, LastFound
  <1> QED
    BY <1>1, <1>2

LEMMA FlushedTyped ==
  ASSUME ScanTyped
  PROVE  Len(Flushed) \in Nat /\ \A k \in 1 .. Len(Flushed) : Flushed[k] \in Found
  BY FlushedIs

\* The last section changes and the others do not.
LEMMA LastChanges ==
  ASSUME ScanTyped, ScanTyped', trace # << >>, trace' # << >>, UNCHANGED <<startLine, failures>>
  PROVE  /\ Len(Flushed') = Len(Flushed) /\ Len(Flushed) \in Nat \ {0}
         /\ \A k \in 1 .. Len(Flushed) : k # Len(Flushed) => Flushed'[k] = Flushed[k]
         /\ Flushed[Len(Flushed)] = LastFound /\ Flushed'[Len(Flushed)] = LastFound'
  <1>1. /\ Len(Flushed) = Len(failures) + 1
        /\ \A k \in 1 .. Len(failures) : Flushed[k] = failures[k]
        /\ Flushed[Len(failures) + 1] = LastFound
    BY FlushedIs
  <1>2. /\ Len(Flushed') = Len(failures) + 1
        /\ \A k \in 1 .. Len(failures) : Flushed'[k] = failures[k]
        /\ Flushed'[Len(failures) + 1] = LastFound'
    BY FlushedThen
  <1>3. Len(failures) \in Nat
    BY DEF ScanTyped
  <1> QED
    BY <1>1, <1>2, <1>3

LEMMA LastGrows ==
  ASSUME Scan, NEW kind, Grows(kind), ScanTyped', trace # << >>, trace' # << >>,
         UNCHANGED <<startLine, failures>>, Section(LastFound)'
  PROVE  Sections' /\ Apart'
  <1>0. PICK n : n = Len(Flushed)
    OBVIOUS
  <1>1. /\ Len(Flushed') = n /\ n \in Nat \ {0}
        /\ \A k \in 1 .. n : k # n => Flushed'[k] = Flushed[k]
        /\ Flushed[n] = LastFound /\ Flushed'[n] = LastFound'
    BY <1>0, LastChanges DEF Scan
  <1>2. \A k \in 1 .. n : Flushed[k] \in Found /\ Section(Flushed[k])
    BY <1>0, FlushedTyped DEF Scan, Sections
  <1>3. \A k \in 1 .. n : k # n => Section(Flushed[k])'
    <2> SUFFICES ASSUME NEW k \in 1 .. n, k # n
                 PROVE  Section(Flushed[k])'
      OBVIOUS
    <2>1. PICK f \in Found : f = Flushed[k] /\ Section(f)
      BY <1>2
    <2>2. Section(f)'
      BY <2>1, SectionStays
    <2> QED
      BY <1>1, <2>1, <2>2, ZenonT(30) DEF Section, Follows
  <1>4. Section(Flushed[n])'
    BY <1>1 DEF Section, Follows
  <1>5. Sections'
    BY <1>1, <1>3, <1>4 DEF Sections
  <1>6. \A k \in 1 .. n : Flushed'[k].line = Flushed[k].line
    BY <1>1 DEF LastFound
  <1>7. ASSUME NEW k \in 1 .. n, NEW l \in 1 .. n, k < l
        PROVE  Before(Flushed'[k], Flushed'[l])
    <2>1. k # n
      BY <1>1, <1>7
    <2>2. Before(Flushed[k], Flushed[l])
      BY <1>0, <1>7 DEF Scan, Apart
    <2> QED
      BY <2>1, <2>2, <1>1, <1>6 DEF Before
  <1> QED
    BY <1>1, <1>5, <1>7 DEF Apart

\* The lines that were covered stay so, and the new one is if it has to be.
LEMMA CoveredStays ==
  ASSUME Covered, NEW kind, Grows(kind),
         \A i \in 1 .. Len(text), k \in 1 .. Len(Flushed) :
           text[i] \in Telling /\ (Has(Flushed[k], i) \/ i - Flushed[k].line > MaxTrace) =>
             \E l \in 1 .. Len(Flushed') : Has(Flushed'[l], i) \/ i - Flushed'[l].line > MaxTrace,
         kind \in Telling => \E l \in 1 .. Len(Flushed') : Has(Flushed'[l], Len(text) + 1)
  PROVE  Covered'
  <1> SUFFICES ASSUME NEW i \in 1 .. Len(text'), text'[i] \in Telling
               PROVE  \E l \in 1 .. Len(Flushed') : Has(Flushed'[l], i) \/ i - Flushed'[l].line > MaxTrace
    BY DEF Covered, Has
  <1>1. i \in 1 .. Len(text) \/ i = Len(text) + 1
    BY DEF Grows
  <1>2. CASE i \in 1 .. Len(text)
    <2>1. text[i] \in Telling
      BY <1>2 DEF Grows
    <2> QED
      BY <1>2, <2>1 DEF Covered
  <1>3. CASE i = Len(text) + 1
    <2>1. kind \in Telling
      BY <1>3 DEF Grows
    <2> QED
      BY <1>3, <2>1
  <1> QED
    BY <1>1, <1>2, <1>3

LEMMA LastIsSection ==
  ASSUME Scan, trace # << >>
  PROVE  LastFound \in Found /\ Section(LastFound)
  <1>1. /\ Len(Flushed) = Len(failures) + 1
        /\ Flushed[Len(failures) + 1] = LastFound
    BY FlushedIs DEF Scan
  <1>2. Len(failures) + 1 \in 1 .. Len(Flushed)
    BY <1>1 DEF Scan, ScanTyped
  <1>3. LastFound \in Found
    BY <1>1, <1>2, FlushedTyped DEF Scan
  <1> QED
    BY <1>1, <1>2, <1>3 DEF Scan, Sections

\* A line of a section.
LEMMA InsideKeeps ==
  ASSUME Scan, NEW kind \in LineKinds, LineInside(kind)
  PROVE  Scan'
  <1>1. Grows(kind) /\ Len(text) \in Nat
    BY ReadGrows DEF Scan, LineInside, Grows
  <1>2. /\ trace \in Seq(Nat) /\ trace # << >> /\ trace[Len(trace)] = Len(text)
        /\ Len(trace) = 1 \/ text[Len(text)] \notin Ending
        /\ ~afterEnd
    BY DEF Scan, ScanTyped, Reading, LineInside
  <1>3. /\ trace' = Append(trace, Len(text) + 1)
        /\ UNCHANGED <<startLine, failures>>
    BY DEF LineInside, ThisLine
  <1>4. /\ trace' \in Seq(Nat) /\ Len(trace') = Len(trace) + 1
        /\ trace'[Len(trace) + 1] = Len(text) + 1
        /\ \A j \in 1 .. Len(trace) : trace'[j] = trace[j]
        /\ Len(trace) \in Nat /\ Len(trace) > 0
    BY <1>1, <1>2, <1>3
  <1>5. ScanTyped'
    <2>1. text' \in Seq(LineKinds)
      BY <1>1 DEF Grows
    <2>2. inside' \in BOOLEAN /\ afterEnd' \in BOOLEAN
      BY DEF LineInside, Scan, ScanTyped
    <2> QED
      BY <2>1, <2>2, <1>3, <1>4 DEF Scan, ScanTyped
  <1>6. trace' # << >>
    BY <1>4
  <1>7. Section(LastFound)'
    <2>1. PICK f \in Found : f = LastFound /\ Section(f)
      BY <1>2, LastIsSection
    <2>2. PICK g : g = LastFound'
      OBVIOUS
    <2>3. g \in Found
      BY <2>2, <1>5 DEF LastFound, Found, ScanTyped
    <2>4. /\ f.lines = trace /\ g.line = f.line /\ g.lines = Append(f.lines, Len(text) + 1)
      BY <2>1, <2>2, <1>3 DEF LastFound
    <2>5. Section(g)'
      BY <2>1, <2>3, <2>4, <1>1, <1>2, SectionGrows
    <2> QED
      BY <2>2, <2>5 DEF Section, Follows
  <1>8. Sections' /\ Apart'
    BY <1>1, <1>2, <1>3, <1>5, <1>6, <1>7, LastGrows
  <1>9. /\ Len(Flushed') = Len(Flushed) /\ Len(Flushed) \in Nat \ {0}
        /\ \A k \in 1 .. Len(Flushed) : k # Len(Flushed) => Flushed'[k] = Flushed[k]
        /\ Flushed[Len(Flushed)] = LastFound /\ Flushed'[Len(Flushed)] = LastFound'
    BY <1>2, <1>3, <1>5, <1>6, LastChanges DEF Scan
  <1>10. \A i : Has(LastFound, i) => Has(LastFound', i)
    BY <1>4 DEF Has, LastFound
  <1>11. \A k \in 1 .. Len(Flushed) : /\ Flushed'[k].line = Flushed[k].line
                                      /\ \A i : Has(Flushed[k], i) => Has(Flushed'[k], i)
    <2>1. LastFound'.line = LastFound.line
      BY <1>3 DEF LastFound
    <2> QED
      BY <2>1, <1>9, <1>10
  <1>12. Has(LastFound', Len(text) + 1)
    BY <1>4 DEF Has, LastFound
  <1>13. Covered'
    BY <1>1, <1>9, <1>11, <1>12, CoveredStays, SMTT(20) DEF Scan
  <1>14. Reading'
    <2>1. Len(trace') > 1 /\ trace'[Len(trace')] = Len(text') /\ trace'[Len(trace') - 1] = Len(text') - 1
      BY <1>1, <1>2, <1>4 DEF Grows
    <2>2. text'[Len(text')] = kind
      BY <1>1 DEF Grows
    <2>3. inside' => kind \notin Ending /\ ~afterEnd'
      BY <1>2 DEF LineInside, Scan, ScanTyped
    <2>4. afterEnd' => ~inside' /\ (kind \in Ending \/ Len(text') - startLine' > MaxTrace)
      <3>1. afterEnd' => kind \in Ending \/ Len(text) - startLine > MaxTrace
        BY <1>2 DEF LineInside
      <3>2. Len(text) - startLine > MaxTrace => Len(text') - startLine' > MaxTrace
        BY <1>1, <1>3, FailuresAssumption DEF Grows, Scan, ScanTyped
      <3>3. afterEnd' => ~inside'
        BY <2>3
      <3> QED
        BY <3>1, <3>2, <3>3
    <2> QED
      BY <2>1, <2>2, <2>3, <2>4, <1>6 DEF Reading
  <1> QED
    BY <1>5, <1>8, <1>13, <1>14 DEF Scan

\* A line between the sections.
LEMMA BetweenKeeps ==
  ASSUME Scan, NEW kind \in LineKinds, LineBetween(kind)
  PROVE  Scan'
  <1>1. Grows(kind) /\ Len(text) \in Nat
    BY ReadGrows DEF Scan, LineBetween, Grows
  <1>2. Flushed' = Flushed /\ UNCHANGED <<inside, startLine, trace, failures>> /\ ~inside /\ afterEnd' = FALSE
    BY DEF LineBetween, Flushed
  <1>3. ScanTyped'
    <2>1. text' \in Seq(LineKinds)
      BY <1>1 DEF Grows
    <2> QED
      BY <2>1, <1>2 DEF Scan, ScanTyped
  <1>4. Sections'
    <2> SUFFICES ASSUME NEW k \in 1 .. Len(Flushed)
                 PROVE  Section(Flushed[k])'
      BY <1>2 DEF Sections
    <2>1. PICK f \in Found : f = Flushed[k] /\ Section(f)
      BY FlushedTyped DEF Scan, Sections
    <2>2. Section(f)'
      BY <2>1, <1>1, SectionStays
    <2> QED
      BY <1>2, <2>1, <2>2 DEF Section, Follows
  <1>5. Apart'
    BY <1>2 DEF Scan, Apart
  <1>6. Covered'
    <2>1. kind \notin Telling
      BY DEF LineBetween, Telling
    <2> QED
      BY <2>1, <1>1, <1>2, CoveredStays DEF Scan
  <1>7. Reading'
    BY <1>2 DEF Reading
  <1> QED
    BY <1>3, <1>4, <1>5, <1>6, <1>7 DEF Scan

\* A line that starts a failure of its own.
LEMMA StartKeeps ==
  ASSUME Scan, NEW kind \in LineKinds, LineStarts(kind), ~Joins(kind)
  PROVE  Scan'
  <1>0. PICK n : n = Len(text)
    OBVIOUS
  <1>1. Grows(kind) /\ n \in Nat /\ Len(text') = n + 1 /\ text'[n + 1] = kind
    BY <1>0, ReadGrows DEF Scan, LineStarts, Grows
  <1>2. /\ inside' = TRUE /\ afterEnd' = FALSE /\ kind \in Starting
        /\ failures' = Flushed /\ startLine' = n + 1 /\ trace' = <<n + 1>>
    BY <1>0 DEF LineStarts, ThisLine
  <1>3. ScanTyped'
    <2>1. text' \in Seq(LineKinds)
      BY <1>1 DEF Grows
    <2>2. Flushed \in Seq(Found)
      BY FlushedIs DEF Scan
    <2>3. n + 1 \in Nat /\ <<n + 1>> \in Seq(Nat)
      BY <1>1
    <2> QED
      BY <2>1, <2>2, <2>3, <1>2 DEF ScanTyped
  <1>4. PICK m : m = Len(Flushed)
    OBVIOUS
  <1>5. /\ m \in Nat /\ Len(Flushed') = m + 1
        /\ \A k \in 1 .. m : Flushed'[k] = Flushed[k]
        /\ Flushed'[m + 1] = [line |-> n + 1, lines |-> <<n + 1>>, time |-> 0]
    <2>1. trace' # << >>
      BY <1>2
    <2>2. LastFound' = [line |-> n + 1, lines |-> <<n + 1>>, time |-> 0]
      BY <1>2 DEF LastFound
    <2> QED
      <3>1. m \in Nat
        BY <1>4, FlushedTyped DEF Scan
      <3>2. /\ Len(Flushed') = Len(failures') + 1
            /\ \A k \in 1 .. Len(failures') : Flushed'[k] = failures'[k]
            /\ Flushed'[Len(failures') + 1] = LastFound'
        BY <2>1, <1>3, FlushedThen
      <3>3. Len(failures') = m
        BY <1>2, <1>4
      <3> QED
        BY <3>1, <3>2, <3>3, <2>2, <1>2
  <1>6. PICK g \in Found : g = [line |-> n + 1, lines |-> <<n + 1>>, time |-> 0]
    <2>1. n + 1 \in Nat /\ <<n + 1>> \in Seq(Nat) /\ 0 \in Nat
      BY <1>1
    <2> QED
      BY <2>1 DEF Found
  <1>7. g.line = n + 1 /\ g.lines = <<n + 1>> /\ Len(g.lines) = 1 /\ g.lines[1] = n + 1
    BY <1>6
  <1>8. \A k \in 1 .. m : Flushed[k] \in Found /\ Section(Flushed[k])
    BY <1>4, FlushedTyped DEF Scan, Sections
  <1>9. Sections'
    <2>1. Section(g)'
      <3>1. n + 1 \in 1 .. n + 1
        BY <1>1
      <3>2. \A j \in 1 .. 1 - 1 : FALSE
        OBVIOUS
      <3> QED
        BY <3>1, <3>2, <1>1, <1>2, <1>7 DEF Section
    <2>2. ASSUME NEW k \in 1 .. m
          PROVE  Section(Flushed[k])'
      <3>1. PICK f \in Found : f = Flushed[k] /\ Section(f)
        BY <1>8
      <3>2. Section(f)'
        BY <3>1, <1>1, SectionStays
      <3> QED
        BY <1>5, <3>1, <3>2 DEF Section, Follows
    <2>3. Section(Flushed[m + 1])'
      BY <2>1, <1>5, <1>6 DEF Section, Follows
    <2> QED
      BY <2>2, <2>3, <1>5 DEF Sections
  <1>10. Apart'
    <2> SUFFICES ASSUME NEW k \in 1 .. m + 1, NEW l \in 1 .. m + 1, k < l
                 PROVE  Before(Flushed'[k], Flushed'[l])
      BY <1>5 DEF Apart
    <2>1. k \in 1 .. m
      BY <1>5
    <2>2. CASE l = m + 1
      <3>1. PICK f \in Found : f = Flushed[k] /\ Section(f)
        BY <2>1, <1>8
      <3>2. \A j \in 1 .. Len(f.lines) : f.lines[j] \in Nat /\ f.lines[j] <= n
        BY <3>1, <1>0, <1>1, Bounds
      <3>3. \A j \in 1 .. Len(f.lines) : f.lines[j] < n + 1
        BY <3>2, <1>1
      <3>4. Flushed'[k] = f /\ Flushed'[l].line = n + 1
        BY <3>1, <2>1, <2>2, <1>5
      <3> QED
        BY <3>3, <3>4 DEF Before
    <2>3. CASE l # m + 1
      <3>1. l \in 1 .. m
        BY <2>3, <1>5
      <3> QED
        BY <3>1, <2>1, <1>4, <1>5 DEF Scan, Apart
    <2> QED
      BY <2>2, <2>3
  <1>11. Covered'
    <2>1. Has(g, n + 1)
      BY <1>7 DEF Has
    <2>2. Has(Flushed'[m + 1], n + 1) /\ m + 1 \in 1 .. Len(Flushed')
      BY <2>1, <1>5, <1>6
    <2>3. \A k \in 1 .. m : k \in 1 .. Len(Flushed')
      BY <1>5
    <2> QED
      BY <2>2, <2>3, <1>0, <1>1, <1>4, <1>5, CoveredStays DEF Scan
  <1>12. Reading'
    <2>1. Len(trace') = 1 /\ trace'[Len(trace')] = n + 1 /\ trace' # << >>
      BY <1>2
    <2> QED
      BY <2>1, <1>1, <1>2 DEF Reading
  <1> QED
    BY <1>3, <1>9, <1>10, <1>11, <1>12 DEF Scan

\* A cause of the failure that has just ended.  The line it replaces was at the end of a trace.
LEMMA JoinKeeps ==
  ASSUME Scan, NEW kind \in LineKinds, LineStarts(kind), Joins(kind)
  PROVE  Scan'
  <1>0. PICK n : n = Len(text)
    OBVIOUS
  <1>1. /\ Grows(kind) /\ n \in Nat /\ Len(text') = n + 1 /\ text'[n + 1] = kind
        /\ IsCause(kind)
    BY <1>0, ReadGrows DEF Scan, LineStarts, Grows, Joins, IsCause
  <1>2. PICK t : t = trace
    OBVIOUS
  <1>3. /\ t \in Seq(Nat) /\ Len(t) \in Nat /\ Len(t) > 1
        /\ t[Len(t)] = n /\ t[Len(t) - 1] = n - 1
        /\ text[n] \in Ending \/ n - startLine > MaxTrace
    <2>1. afterEnd
      BY DEF Joins
    <2>2. /\ trace \in Seq(Nat) /\ Len(trace) > 1 /\ trace[Len(trace)] = Len(text)
          /\ trace[Len(trace) - 1] = Len(text) - 1
      BY <2>1 DEF Scan, ScanTyped, Reading
    <2>3. text[Len(text)] \in Ending \/ Len(text) - startLine > MaxTrace
      BY <2>1 DEF Scan, Reading
    <2> QED
      BY <2>2, <2>3, <1>0, <1>2
  <1>4. /\ inside' = TRUE /\ afterEnd' = FALSE
        /\ trace' = Append(Front(t), n + 1) /\ UNCHANGED <<startLine, failures>>
    BY <1>0, <1>2 DEF LineStarts, ThisLine
  <1>5. /\ trace' \in Seq(Nat) /\ Len(trace') = Len(t) /\ trace'[Len(t)] = n + 1
        /\ \A j \in 1 .. Len(t) - 1 : trace'[j] = t[j]
    <2>1. PICK i \in Nat : i = n + 1
      BY <1>1
    <2>2. /\ Append(Front(t), i) \in Seq(Nat)
          /\ Len(Append(Front(t), i)) = Len(t) /\ Append(Front(t), i)[Len(t)] = i
          /\ \A j \in 1 .. Len(t) - 1 : Append(Front(t), i)[j] = t[j]
      BY <1>3, Rejoined
    <2> QED
      BY <2>1, <2>2, <1>4
  <1>6. trace # << >> /\ trace' # << >>
    BY <1>2, <1>3, <1>5
  <1>7. ScanTyped'
    <2>1. text' \in Seq(LineKinds)
      BY <1>1 DEF Grows
    <2> QED
      BY <2>1, <1>4, <1>5 DEF Scan, ScanTyped
  <1>8. Section(LastFound)'
    <2>1. PICK f \in Found : f = LastFound /\ Section(f)
      BY <1>6, LastIsSection
    <2>2. PICK g : g = LastFound'
      OBVIOUS
    <2>3. g \in Found
      BY <2>2, <1>7 DEF LastFound, Found, ScanTyped
    <2>4. f.lines = t /\ g.line = f.line /\ g.lines = trace'
      BY <2>1, <2>2, <1>2, <1>4 DEF LastFound
    <2>5. Section(g)'
      BY <2>1, <2>3, <2>4, <1>0, <1>1, <1>3, <1>5, SectionJoins
    <2> QED
      BY <2>2, <2>5 DEF Section, Follows
  <1>9. Sections' /\ Apart'
    BY <1>1, <1>4, <1>6, <1>7, <1>8, LastGrows
  <1>10. /\ Len(Flushed') = Len(Flushed) /\ Len(Flushed) \in Nat \ {0}
         /\ \A k \in 1 .. Len(Flushed) : k # Len(Flushed) => Flushed'[k] = Flushed[k]
         /\ Flushed[Len(Flushed)] = LastFound /\ Flushed'[Len(Flushed)] = LastFound'
    BY <1>4, <1>6, <1>7, LastChanges DEF Scan
  <1>11. \A i : Has(LastFound, i) /\ i # n => Has(LastFound', i)
    <2> SUFFICES ASSUME NEW i, i # n, NEW j \in 1 .. Len(t), t[j] = i
                 PROVE  \E l \in 1 .. Len(t) : trace'[l] = i
      BY <1>2, <1>5 DEF Has, LastFound
    <2>1. j # Len(t)
      BY <1>3
    <2>2. j \in 1 .. Len(t) - 1
      BY <2>1, <1>3
    <2> QED
      BY <2>2, <1>5
  <1>12. LastFound'.line = startLine /\ LastFound.line = startLine
    BY <1>4 DEF LastFound
  <1>13. ASSUME NEW i \in 1 .. n, NEW k \in 1 .. Len(Flushed), text[i] \in Telling,
                Has(Flushed[k], i) \/ i - Flushed[k].line > MaxTrace
         PROVE  Has(Flushed'[k], i) \/ i - Flushed'[k].line > MaxTrace
    <2>1. CASE k # Len(Flushed)
      BY <2>1, <1>10, <1>13
    <2>2. CASE k = Len(Flushed) /\ i # n
      BY <2>2, <1>10, <1>11, <1>12, <1>13
    <2>3. CASE k = Len(Flushed) /\ i = n
      <3>1. text[n] \notin Ending
        BY <2>3, <1>13, KindsDiffer DEF Telling
      <3> QED
        BY <2>3, <3>1, <1>3, <1>10, <1>12
    <2> QED
      BY <2>1, <2>2, <2>3
  <1>14. Has(LastFound', n + 1)
    <2>1. Len(t) \in 1 .. Len(t)
      BY <1>3
    <2> QED
      BY <2>1, <1>5 DEF Has, LastFound
  <1>15. Covered'
    <2>1. Len(Flushed) \in 1 .. Len(Flushed')
      BY <1>10
    <2> QED
      BY <2>1, <1>0, <1>1, <1>10, <1>13, <1>14, CoveredStays DEF Scan
  <1>16. Reading'
    <2>1. trace'[Len(trace')] = Len(text')
      BY <1>1, <1>5
    <2>2. kind \notin Ending
      BY <1>1, KindsDiffer DEF IsCause
    <2> QED
      BY <2>1, <2>2, <1>1, <1>4, <1>6 DEF Reading
  <1> QED
    BY <1>7, <1>9, <1>15, <1>16 DEF Scan

-----------------------------------------------------------------------------
\* A set of numbers has a least one, Min.
Less == {ss \in Nat \X Nat : ss[1] < ss[2]}

LEMMA LeastExists ==
  ASSUME NEW S \in SUBSET Nat, S # {}
  PROVE  Min(S) \in S /\ \A y \in S : Min(S) <= y
  <1>1. IsWellFoundedOn(Less, Nat)
    BY NatLessThanWellFounded DEF OpToRel, Less
  <1>2. S \subseteq Nat
    OBVIOUS
  <1>3. \E x \in S : \A y \in S : ~(<<y, x>> \in Less)
    BY <1>1, <1>2, WFMin, Zenon
  <1>4. PICK x \in S : \A y \in S : ~(<<y, x>> \in Less)
    BY <1>3
  <1>5. \A y \in S : x <= y
    <2> SUFFICES ASSUME NEW y \in S, y < x
                 PROVE  FALSE
      BY <1>2
    <2>1. <<y, x>> \in Nat \X Nat /\ <<y, x>>[1] < <<y, x>>[2]
      BY <1>2
    <2>2. <<y, x>> \in Less
      BY <2>1 DEF Less
    <2> QED
      BY <2>2, <1>4
  <1> QED
    BY <1>5 DEF Min

\* The time of a failure is its own, or the nearest one above.
LEMMA NearestTime ==
  ASSUME Len(text) \in Nat, DOMAIN text = 1 .. Len(text), NEW f \in Found, Section(f)
  PROVE  /\ OwnTimes(f) # {} => TimeOf(f) = Min(OwnTimes(f))
         /\ OwnTimes(f) = {} /\ TimesNear(f) # {} => TimeOf(f) = Max(TimesNear(f))
  <1> DEFINE near == {i \in 1 .. Len(text) : HasTime(i) /\ i < f.line /\ f.line - i <= MaxUp}
             above == {j \in 1 .. MaxUp : j <= f.line /\ HasTime(LineAbove(f.line - j))}
  <1>1. /\ OwnTimes(f) # {} => TimeOf(f) = Min(OwnTimes(f))
        /\ OwnTimes(f) = {} /\ above # {} => TimeOf(f) = LineAbove(f.line - Min(above))
    BY DEF TimeOf, OwnTimes
  <1>2. f.line \in Nat /\ f.line \in 1 .. Len(text) /\ MaxUp \in Nat
    BY Bounds, FailuresAssumption
  <1>3. ASSUME near # {}
        PROVE  above # {} /\ LineAbove(f.line - Min(above)) = Max(near)
    <2>1. \A i \in near : /\ f.line - i \in above
      <3> SUFFICES ASSUME NEW i \in near
                   PROVE  f.line - i \in above
        OBVIOUS
      <3>1. i \in 1 .. Len(text) /\ HasTime(i) /\ i < f.line /\ f.line - i <= MaxUp
        OBVIOUS
      <3>2. f.line - i \in 1 .. MaxUp /\ f.line - i <= f.line /\ f.line - (f.line - i) = i /\ i # 0
        BY <3>1, <1>2
      <3>3. LineAbove(f.line - (f.line - i)) = i
        BY <3>2 DEF LineAbove
      <3> QED
        BY <3>1, <3>2, <3>3
    <2>2. above # {} /\ above \in SUBSET Nat
      BY <1>2, <1>3, <2>1
    <2>3. PICK a \in Nat : a = Min(above) /\ a \in above /\ \A j \in above : a <= j
      BY <2>2, LeastExists, ZenonT(30)
    <2>4. PICK i \in near : TRUE
      BY <1>3
    <2>5. a < f.line /\ a \in 1 .. MaxUp
      <3>1. a <= f.line - i
        BY <2>1, <2>3
      <3>2. i \in 1 .. Len(text)
        OBVIOUS
      <3>3. a \in 1 .. MaxUp
        BY <2>3
      <3> QED
        BY <3>1, <3>2, <3>3, <1>2
    <2>6. PICK p : p = f.line - a
      OBVIOUS
    <2>7. p \in 1 .. Len(text) /\ p < f.line /\ f.line - p <= MaxUp /\ LineAbove(p) = p
      BY <2>3, <2>5, <2>6, <1>2 DEF LineAbove
    <2>8. p \in near
      <3>1. HasTime(LineAbove(f.line - a))
        BY <2>3
      <3> QED
        BY <3>1, <2>6, <2>7
    <2>9. \A x \in near : p >= x
      <3> SUFFICES ASSUME NEW x \in near
                   PROVE  p >= x
        OBVIOUS
      <3>1. a <= f.line - x /\ x \in 1 .. Len(text)
        BY <2>1, <2>3
      <3> QED
        BY <3>1, <2>3, <2>6, <1>2
    <2>10. near \subseteq Nat
      OBVIOUS
    <2> HIDE DEF near, above
    <2>11. \A y \in near : (\A x \in near : y >= x) => y = p
      BY <2>8, <2>9, <2>10
    <2>12. Max(near) = p
      BY <2>8, <2>9, <2>11 DEF Max
    <2> QED
      BY <2>2, <2>3, <2>6, <2>7, <2>12
  <1>4. TimesNear(f) = near
    BY DEF TimesNear
  <1> QED
    BY <1>1, <1>3, <1>4

\* The line is in one section, or was cut off behind one.
LEMMA InOne ==
  ASSUME Scan, NEW i \in 1 .. Len(text), text[i] \in Telling
  PROVE  LET of == {k \in 1 .. Len(Flushed) : Has(Flushed[k], i)} IN
         \/ \E k : of = {k}
         \/ of = {} /\ \E k \in 1 .. Len(Flushed) : i - Flushed[k].line > MaxTrace
  <1> DEFINE of == {k \in 1 .. Len(Flushed) : Has(Flushed[k], i)}
  <1>1. Len(Flushed) \in Nat /\ Len(text) \in Nat
    BY FlushedTyped DEF Scan, ScanTyped
  <1>2. ASSUME NEW k \in of, NEW l \in of, k < l
        PROVE  FALSE
    <2>1. k \in 1 .. Len(Flushed) /\ l \in 1 .. Len(Flushed)
      OBVIOUS
    <2>2. PICK f \in Found : f = Flushed[k] /\ Has(f, i)
      BY <2>1, FlushedTyped DEF Scan
    <2>3. PICK g \in Found : g = Flushed[l] /\ Has(g, i) /\ Section(g)
      BY <2>1, FlushedTyped DEF Scan, Sections
    <2>4. Before(f, g)
      BY <2>1, <2>2, <2>3, <1>2 DEF Scan, Apart
    <2>5. i < g.line
      BY <2>2, <2>4 DEF Has, Before
    <2>6. g.line <= i /\ g.line \in Nat
      BY <2>3, <1>1, Bounds DEF Has
    <2> QED
      BY <2>5, <2>6
  <1>3. \A k, l \in of : k = l
    BY <1>1, <1>2
  <1>4. CASE of = {}
    BY <1>4 DEF Scan, Covered
  <1>5. CASE of # {}
    <2>1. PICK k : k \in of
      BY <1>5
    <2> HIDE DEF of
    <2>2. of = {k}
      BY <2>1, <1>3
    <2> QED
      BY <2>2 DEF of
  <1> QED
    BY <1>4, <1>5

\* What FailuresAreFound says of a failure.
Right(f) ==
  /\ f.lines[1] = f.line /\ text[f.line] \in Starting
  /\ \A j \in 1 .. Len(f.lines) - 1 : Follows(f.lines, j)
  /\ OwnTimes(f) # {} => f.time = Min(OwnTimes(f))
  /\ OwnTimes(f) = {} /\ TimesNear(f) # {} => f.time = Max(TimesNear(f))

LEMMA EndFinds ==
  ASSUME Scan, EndOfFile
  PROVE  FailuresAreFound'
  <1>1. PICK n, F : n = Len(Flushed) /\ F = Flushed
    OBVIOUS
  <1>2. /\ n \in Nat /\ DOMAIN F = 1 .. n /\ Len(text) \in Nat /\ DOMAIN text = 1 .. Len(text)
        /\ \A k \in 1 .. n : F[k] \in Found /\ Section(F[k])
    <2>1. Flushed \in Seq(Found) /\ text \in Seq(LineKinds)
      BY FlushedIs DEF Scan, ScanTyped
    <2> QED
      BY <2>1, <1>1 DEF Scan, Sections
  <1>3. /\ text' = text /\ DOMAIN failures' = 1 .. n
        /\ \A k \in 1 .. n : /\ failures'[k].line = F[k].line /\ failures'[k].lines = F[k].lines
                             /\ failures'[k].time = TimeOf(F[k])
    <2>1. text' = text /\ failures' = [k \in 1 .. n |-> [F[k] EXCEPT !.time = TimeOf(F[k])]]
      BY <1>1, <1>2 DEF EndOfFile
    <2>2. \A k \in 1 .. n : DOMAIN F[k] = {"line", "lines", "time"}
      BY <1>2 DEF Found
    <2> QED
      BY <2>1, <2>2
  <1>4. \A k \in 1 .. n : \A i : i \in ToSet(failures'[k].lines) <=> Has(F[k], i)
    <2>1. \A k \in 1 .. n : F[k].lines \in Seq(Nat)
      BY <1>2 DEF Found
    <2> QED
      BY <2>1, <1>3 DEF ToSet, Has
  <1>5. ASSUME NEW i \in 1 .. Len(text), text[i] \in Telling
        PROVE  FoundOnce(i)'
    <2> DEFINE of == {k \in 1 .. n : Has(F[k], i)}
    <2>1. \/ \E k : of = {k}
          \/ of = {} /\ \E k \in 1 .. n : i - F[k].line > MaxTrace
      BY <1>1, <1>5, InOne
    <2>2. of = {k \in 1 .. n : i \in ToSet(failures'[k].lines)}
      BY <1>4
    <2> HIDE DEF of
    <2>3. (\E k : of = {k}) => Cardinality(of) = 1
      BY FS_Singleton
    <2> QED
      BY <2>1, <2>2, <2>3, <1>3 DEF FoundOnce
  <1>6. ASSUME NEW k \in 1 .. n
        PROVE  Right(failures[k])'
    <2>1. PICK f \in Found : f = F[k] /\ Section(f)
      BY <1>2
    <2>2. failures'[k].line = f.line /\ failures'[k].lines = f.lines /\ failures'[k].time = TimeOf(f)
      BY <1>3, <2>1
    <2>3. /\ f.lines[1] = f.line /\ text[f.line] \in Starting
          /\ \A j \in 1 .. Len(f.lines) - 1 : Follows(f.lines, j)
      BY <2>1 DEF Section
    <2>4. /\ OwnTimes(f) # {} => TimeOf(f) = Min(OwnTimes(f))
          /\ OwnTimes(f) = {} /\ TimesNear(f) # {} => TimeOf(f) = Max(TimesNear(f))
      BY <1>2, <2>1, NearestTime
    <2>5. PICK g : g = failures'[k]
      OBVIOUS
    <2>6. OwnTimes(g)' = OwnTimes(f) /\ TimesNear(g)' = TimesNear(f)
      BY <2>2, <2>5, <1>3 DEF OwnTimes, TimesNear, HasTime
    <2>7. Right(g)'
      BY <2>2, <2>3, <2>4, <2>5, <2>6, <1>3 DEF Right, Follows
    <2> QED
      BY <2>5, <2>7
  <1> QED
    BY <1>2, <1>3, <1>5, <1>6 DEF FailuresAreFound, Right, Telling

-----------------------------------------------------------------------------
LEMMA FInvInit == Init => FInv
  <1> SUFFICES ASSUME Init PROVE FInv
    OBVIOUS
  <1>1. /\ text = << >> /\ trace = << >> /\ failures = << >> /\ startLine = 0
        /\ inside = FALSE /\ afterEnd = FALSE /\ scanned = FALSE
    BY DEF Init, FailuresInit
  <1>2. Flushed = << >>
    BY <1>1 DEF Flushed
  <1>3. Len(Flushed) = 0 /\ Len(text) = 0
    BY <1>1, <1>2
  <1>4. ScanTyped
    <2>1. << >> \in Seq(LineKinds) /\ << >> \in Seq(Nat) /\ << >> \in Seq(Found) /\ 0 \in Nat
      OBVIOUS
    <2> QED
      BY <2>1, <1>1 DEF ScanTyped
  <1>5. Sections /\ Apart /\ Covered /\ Reading
    BY <1>1, <1>3 DEF Sections, Apart, Covered, Reading
  <1> QED
    BY <1>1, <1>4, <1>5 DEF FInv, Scan

LEMMA FInvStays ==
  ASSUME FInv, UNCHANGED failuresVars
  PROVE  FInv'
  <1>1. UNCHANGED <<text, inside, afterEnd, startLine, trace, failures, scanned>>
    BY DEF failuresVars
  <1>2. CASE scanned
    <2>1. FailuresAreFound
      BY <1>2 DEF FInv
    <2>2. \A i : FoundOnce(i)' <=> FoundOnce(i)
      BY <1>1 DEF FoundOnce
    <2>3. \A f : OwnTimes(f)' = OwnTimes(f) /\ TimesNear(f)' = TimesNear(f)
      BY <1>1 DEF OwnTimes, TimesNear, HasTime
    <2>4. FailuresAreFound'
      BY <2>1, <2>2, <2>3, <1>1 DEF FailuresAreFound, Follows
    <2> QED
      BY <2>4, <1>1, <1>2 DEF FInv
  <1>3. CASE ~scanned
    <2>1. Scan /\ Flushed' = Flushed
      BY <1>1, <1>3 DEF FInv, Flushed
    <2>2. Sections'
      BY <2>1, <1>1 DEF Scan, Sections, Section, Follows
    <2>3. ScanTyped' /\ Apart' /\ Covered' /\ Reading'
      BY <2>1, <1>1 DEF Scan, ScanTyped, Apart, Covered, Reading
    <2> QED
      BY <2>2, <2>3, <1>1, <1>3 DEF FInv, Scan
  <1> QED
    BY <1>2, <1>3

LEMMA ScanningKeeps ==
  ASSUME FInv, Scanning
  PROVE  FInv'
  <1>1. ASSUME NEW kind \in LineKinds, LineInside(kind) \/ LineStarts(kind) \/ LineBetween(kind)
        PROVE  FInv'
    <2>1. ~scanned /\ ~scanned'
      BY <1>1 DEF LineInside, LineStarts, LineBetween, ReadsLine
    <2>2. Scan
      BY <2>1 DEF FInv
    <2>3. Scan'
      BY <1>1, <2>2, InsideKeeps, StartKeeps, JoinKeeps, BetweenKeeps
    <2> QED
      BY <2>1, <2>3 DEF FInv
  <1>2. ASSUME EndOfFile
        PROVE  FInv'
    <2>1. Scan /\ scanned'
      BY <1>2 DEF FInv, EndOfFile
    <2> QED
      BY <2>1, <1>2, EndFinds DEF FInv
  <1> QED
    BY <1>1, <1>2 DEF Scanning, OfFailures

LEMMA FInvNext == FInv /\ [Next]_vars => FInv'
  <1> SUFFICES ASSUME FInv, [Next]_vars
               PROVE  FInv'
    OBVIOUS
  <1>1. CASE Scanning
    BY <1>1, ScanningKeeps
  <1>2. CASE Collecting \/ Analysis \/ Reporting \/ Killing
    <2>1. UNCHANGED failuresVars
      BY <1>2 DEF Collecting, Analysis, Reporting, Killing, OfCollection, OfExchanges, OfReport, OfKiller
    <2> QED
      BY <2>1, FInvStays
  <1>3. CASE UNCHANGED vars
    BY <1>3, FInvStays DEF vars
  <1> QED
    BY <1>1, <1>2, <1>3 DEF Next

\* Every line that tells of a failure is in exactly one of the failures found, which have
\* consecutive lines and the nearest time (find_fails, find_exceptions_list).
THEOREM FailuresAreAllFound == Spec => []FailuresAreFound
  <1>1. FInv => FailuresAreFound
    BY DEF FInv, FailuresAreFound
  <1> QED
    BY <1>1, FInvInit, FInvNext, PTL DEF Spec

-----------------------------------------------------------------------------
\* The steps of the report.
Statuses == Ended \cup {"none", "interrupted"}
RStep    == [id : Nat, up : Nat, status : Statuses, notes : Nat]

Ends(s, i, status) == [s EXCEPT !.status = IF s.id = i THEN status ELSE @]
Noting(s, S)       == [s EXCEPT !.notes = IF s.id \in S THEN @ + 1 ELSE @]
NotedAt(steps, i)  == {Noting(s, {i}) : s \in steps}
Lifted(s, p)       == [s EXCEPT !.up = IF @ = 0 THEN p ELSE @]

\* The steps up to number n, of which those with the numbers in H are open: each of these is
\* under the one before it, the first at the top.
Chain(steps, n, H) ==
  /\ steps \subseteq RStep
  /\ \A s \in steps : s.id \in 1 .. n /\ s.up < s.id
  /\ \A s, t \in steps : s.id = t.id => s = t
  /\ \A h \in H : \E s \in steps : s.id = h
  /\ \A s \in steps : s.status = "none" <=> s.id \in H
  /\ \A s \in steps : s.id \in H =>
       (s.up = 0 \/ s.up \in H) /\ \A h \in H : h < s.id => h <= s.up

\* The last of them.
Tip(H, m) == m \in {0} \cup H /\ \A h \in H : h <= m

LEMMA FieldsOfStep ==
  ASSUME NEW i \in Nat, NEW u \in Nat, NEW status \in Statuses, NEW c \in Nat, NEW s, s = Step(i, u, status, c)
  PROVE  s \in RStep /\ s.id = i /\ s.up = u /\ s.status = status /\ s.notes = c
  BY DEF Step, RStep

LEMMA SameStep ==
  ASSUME NEW s \in RStep, NEW t \in RStep, s.id = t.id, s.up = t.up, s.status = t.status, s.notes = t.notes
  PROVE  s = t
  BY DEF RStep

LEMMA FieldsOfEnded ==
  ASSUME NEW s \in RStep, NEW i, NEW status \in Statuses, NEW e, e = Ends(s, i, status)
  PROVE  /\ e \in RStep /\ e.id = s.id /\ e.up = s.up /\ e.notes = s.notes
         /\ s.id = i => e.status = status
         /\ s.id # i => e = s
  <1>1. PICK x \in Statuses : x = IF s.id = i THEN status ELSE s.status
    BY DEF RStep
  <1>2. e = [s EXCEPT !.status = x]
    BY <1>1 DEF Ends
  <1> QED
    BY <1>1, <1>2 DEF RStep

LEMMA FieldsOfNoted ==
  ASSUME NEW s \in RStep, NEW S, NEW e, e = Noting(s, S)
  PROVE  /\ e \in RStep /\ e.id = s.id /\ e.up = s.up /\ e.status = s.status
         /\ s.id \in S => e.notes = s.notes + 1
         /\ s.id \notin S => e = s
  <1>1. PICK x \in Nat : x = IF s.id \in S THEN s.notes + 1 ELSE s.notes
    BY DEF RStep
  <1>2. e = [s EXCEPT !.notes = x]
    BY <1>1 DEF Noting
  <1> QED
    BY <1>1, <1>2 DEF RStep

LEMMA FieldsOfLifted ==
  ASSUME NEW s \in RStep, NEW p \in Nat, NEW e, e = Lifted(s, p)
  PROVE  /\ e \in RStep /\ e.id = s.id /\ e.status = s.status /\ e.notes = s.notes
         /\ e.up = IF s.up = 0 THEN p ELSE s.up
  <1>1. PICK x \in Nat : x = IF s.up = 0 THEN p ELSE s.up
    BY DEF RStep
  <1>2. e = [s EXCEPT !.up = x]
    BY <1>1 DEF Lifted
  <1> QED
    BY <1>1, <1>2 DEF RStep

\* The open steps are those without a status.
LEMMA OpenIs ==
  ASSUME NEW steps, NEW n, NEW H, Chain(steps, n, H)
  PROVE  Open(steps) = H
  <1> DEFINE byId(i) == CHOOSE s \in steps : s.id = i
             Def(f) == f = [i \in {s.id : s \in steps} |->
                              byId(i).status = "none" /\ (byId(i).up = 0 \/ f[byId(i).up])]
  <1>1. PICK I : I = {s.id : s \in steps}
    OBVIOUS
  <1>2. \A s \in steps : s \in RStep /\ s.id \in I /\ byId(s.id) = s
    BY <1>1 DEF Chain
  <1>3. PICK r : r = (CHOOSE f : Def(f)) /\ Open(steps) = {i \in I : r[i]}
    BY <1>1 DEF Open
  <1>4. PICK g : g = [i \in I |-> i \in H]
    OBVIOUS
  <1>5. \A i \in I : \E s \in steps : s.id = i /\ byId(i) = s /\ (s.status = "none" <=> i \in H)
                                      /\ (i \in H => s.up = 0 \/ (s.up \in H /\ s.up \in I))
    <2> SUFFICES ASSUME NEW s \in steps
                 PROVE  /\ byId(s.id) = s /\ (s.status = "none" <=> s.id \in H)
                        /\ (s.id \in H => s.up = 0 \/ (s.up \in H /\ s.up \in I))
      BY <1>1
    <2>1. \A h \in H : h \in I
      BY <1>1 DEF Chain
    <2>2. s.status = "none" <=> s.id \in H
      BY DEF Chain
    <2>3. s.id \in H => s.up = 0 \/ s.up \in H
      BY DEF Chain
    <2>4. byId(s.id) = s
      BY <1>2
    <2>5. s.id \in H => s.up = 0 \/ (s.up \in H /\ s.up \in I)
      BY <2>1, <2>3
    <2> QED
      BY <2>2, <2>4, <2>5
  <1> HIDE DEF byId
  <1>6. \A i \in I : g[i] = (byId(i).status = "none" /\ (byId(i).up = 0 \/ g[byId(i).up]))
    <2> SUFFICES ASSUME NEW i \in I
                 PROVE  g[i] = (byId(i).status = "none" /\ (byId(i).up = 0 \/ g[byId(i).up]))
      OBVIOUS
    <2>1. PICK s \in steps : byId(i) = s /\ (s.status = "none" <=> i \in H)
                             /\ (i \in H => s.up = 0 \/ (s.up \in H /\ s.up \in I))
      BY <1>5
    <2>2. g[i] = (i \in H)
      BY <1>4
    <2>3. s.up \in I /\ s.up \in H => g[s.up] = TRUE
      BY <1>4
    <2> QED
      BY <2>1, <2>2, <2>3
  <1>7. Def(g)
    BY <1>1, <1>4, <1>6
  <1> HIDE DEF Def
  <1>8. Def(r)
    BY <1>3, <1>7
  <1>9. \A i \in I : r[i] = (byId(i).status = "none" /\ (byId(i).up = 0 \/ r[byId(i).up]))
    BY <1>1, <1>8, Zenon DEF Def
  <1>10. \A i \in I : r[i] => i \in H
    BY <1>5, <1>9
  <1>11. \A h \in H : h \in I /\ r[h]
    <2> DEFINE W == {h \in H : ~r[h]}
    <2>1. H \subseteq I /\ I \subseteq Nat
      BY <1>1 DEF Chain, RStep
    <2> SUFFICES ASSUME W # {} PROVE FALSE
      BY <2>1
    <2>2. PICK x \in W : \A y \in W : x <= y
      <3>1. W \in SUBSET Nat
        BY <2>1
      <3> QED
        BY <3>1, LeastExists
    <2>3. x \in H /\ x \in I /\ ~r[x]
      BY <2>1
    <2>4. PICK s \in steps : s.id = x /\ byId(x) = s /\ s.status = "none" /\ (s.up = 0 \/ s.up \in H)
      BY <1>5, <2>3
    <2>8. r[x] = (byId(x).status = "none" /\ (byId(x).up = 0 \/ r[byId(x).up]))
      BY <1>9, <2>3
    <2>9. byId(x).status = "none" /\ byId(x).up = s.up
      BY <2>4
    <2>5. s.up # 0 /\ ~r[s.up]
      BY <2>3, <2>8, <2>9, Zenon
    <2>6. s.up \in W
      BY <2>4, <2>5
    <2>7. x <= s.up /\ s.up < x /\ s.up \in Nat /\ x \in Nat
      BY <2>1, <2>2, <2>3, <2>4, <2>6 DEF Chain, RStep
    <2> QED
      BY <2>7
  <1> QED
    BY <1>3, <1>10, <1>11

\* A new step is put under the last open one only.
LEMMA DeepestIs ==
  ASSUME NEW steps, NEW n \in Nat, NEW H, Chain(steps, n, H), NEW m, Tip(H, m)
  PROVE  Deepest(steps) = {m}
  <1>1. Deepest(steps) = {p \in {0} \cup H : \A s \in steps : s.up = p => s.id \notin H}
    BY OpenIs DEF Deepest
  <1>2. (\A h \in H : h \in Nat /\ h # 0) /\ m \in Nat
    BY DEF Chain, RStep, Tip
  <1>3. ASSUME NEW s \in steps, s.up = m, s.id \in H
        PROVE  FALSE
    <2>1. s.id <= m /\ m < s.id /\ s.id \in Nat
      BY <1>2, <1>3 DEF Chain, Tip
    <2> QED
      BY <1>2, <2>1
  <1>4. ASSUME NEW p \in {0} \cup H, p # m
        PROVE  \E s \in steps : s.up = p /\ s.id \in H
    <2> DEFINE W == {h \in H : p < h}
    <2>1. p \in Nat /\ m \in W
      BY <1>2, <1>4 DEF Tip
    <2>2. PICK x \in W : \A y \in W : x <= y
      <3>1. W \in SUBSET Nat /\ W # {}
        BY <1>2, <2>1
      <3> QED
        BY <3>1, LeastExists
    <2>3. PICK s \in steps : s.id = x
      BY DEF Chain
    <2>4. /\ s.up = 0 \/ s.up \in H
          /\ s.up < x /\ \A h \in H : h < x => h <= s.up
      BY <2>3 DEF Chain
    <2>8. x \in H /\ p < x /\ x \in Nat
      BY <1>2
    <2>9. s.up \in Nat
      BY DEF Chain, RStep
    <2>5. s.up \in Nat /\ x \in Nat /\ p < x
      BY <2>8, <2>9
    <2>6. p <= s.up
      BY <1>4, <2>4, <2>5
    <2>7. ~(p < s.up)
      <3> SUFFICES ASSUME p < s.up PROVE FALSE
        OBVIOUS
      <3>1. s.up \in H
        BY <2>1, <2>4
      <3>2. s.up \in W
        BY <3>1
      <3>3. x <= s.up
        BY <2>2, <3>2
      <3> QED
        BY <2>4, <2>5, <3>3
    <2> QED
      BY <2>1, <2>3, <2>5, <2>6, <2>7
  <1> QED
    BY <1>1, <1>3, <1>4 DEF Tip

LEMMA StepStarts ==
  ASSUME NEW steps, NEW n \in Nat, NEW H, Chain(steps, n, H), NEW m, Tip(H, m),
         NEW k \in Nat, n < k
  PROVE  /\ Start(steps, k) = steps \cup {Step(k, m, "none", 0)}
         /\ Chain(Start(steps, k), k, H \cup {k}) /\ Tip(H \cup {k}, k)
  <1>1. Start(steps, k) = steps \cup {Step(k, m, "none", 0)}
    BY DeepestIs DEF Start
  <1>2. m \in Nat /\ m < k /\ H \subseteq 1 .. n
    BY DEF Chain, Tip
  <1>3. PICK s : s = Step(k, m, "none", 0)
    OBVIOUS
  <1>4. s \in RStep /\ s.id = k /\ s.up = m /\ s.status = "none"
    <2>1. "none" \in Statuses
      BY DEF Statuses
    <2> QED
      BY <1>2, <1>3, <2>1, FieldsOfStep
  <1>5. \A t \in steps : t.id \in 1 .. n
    BY DEF Chain
  <1>6. Chain(steps \cup {s}, k, H \cup {k})
    <2>1. steps \cup {s} \subseteq RStep
      BY <1>4 DEF Chain
    <2>2. \A t \in steps \cup {s} : t.id \in 1 .. k /\ t.up < t.id
      BY <1>2, <1>4 DEF Chain
    <2>3. \A t, u \in steps \cup {s} : t.id = u.id => t = u
      BY <1>4, <1>5 DEF Chain
    <2>4. \A h \in H \cup {k} : \E t \in steps \cup {s} : t.id = h
      BY <1>4 DEF Chain
    <2>5. \A t \in steps \cup {s} : t.status = "none" <=> t.id \in H \cup {k}
      BY <1>4, <1>5 DEF Chain
    <2>6. ASSUME NEW t \in steps \cup {s}, t.id \in H \cup {k}
          PROVE  /\ t.up = 0 \/ t.up \in H \cup {k}
                 /\ \A h \in H \cup {k} : h < t.id => h <= t.up
      <3>1. CASE t = s
        BY <3>1, <1>2, <1>4 DEF Tip
      <3>2. CASE t # s
        <4>1. t \in steps /\ t.id \in 1 .. n /\ t.id \in H
          BY <3>2, <1>5, <2>6
        <4> QED
          BY <4>1 DEF Chain
      <3> QED
        BY <3>1, <3>2
    <2> QED
      BY <2>1, <2>2, <2>3, <2>4, <2>5, <2>6 DEF Chain
  <1>7. Tip(H \cup {k}, k)
    BY <1>2 DEF Tip
  <1> QED
    BY <1>1, <1>3, <1>6, <1>7

LEMMA StepNoted ==
  ASSUME NEW steps, NEW n \in Nat, NEW H, Chain(steps, n, H), NEW m, Tip(H, m)
  PROVE  /\ Attach(steps) = NotedAt(steps, m)
         /\ Chain(Attach(steps), n, H)
  <1>0. \A s \in steps : s \in RStep
    BY DEF Chain
  <1>1. Attach(steps) = {Noting(s, {m}) : s \in steps} /\ Attach(steps) = NotedAt(steps, m)
    BY DeepestIs DEF Attach, Noting, NotedAt
  <1>2. PICK T : T = {Noting(s, {m}) : s \in steps}
    OBVIOUS
  <1>3. \A t \in T : \E s \in steps : /\ t = Noting(s, {m}) /\ t \in RStep /\ s \in RStep
                                      /\ t.id = s.id /\ t.up = s.up /\ t.status = s.status
    <2> SUFFICES ASSUME NEW s \in steps, NEW t, t = Noting(s, {m})
                 PROVE  /\ t \in RStep /\ s \in RStep
                        /\ t.id = s.id /\ t.up = s.up /\ t.status = s.status
      BY <1>2
    <2> QED
      BY <1>0, FieldsOfNoted
  <1>4. \A s \in steps : \E t \in T : t.id = s.id
    BY <1>0, <1>2, FieldsOfNoted
  <1>5. Chain(T, n, H)
    <2>1. \A t \in T : t \in RStep /\ t.id \in 1 .. n /\ t.up < t.id /\ (t.status = "none" <=> t.id \in H)
      BY <1>3 DEF Chain
    <2>2. \A t \in T : t.id \in H => (t.up = 0 \/ t.up \in H) /\ \A h \in H : h < t.id => h <= t.up
      BY <1>3 DEF Chain
    <2>3. \A t, u \in T : t.id = u.id => t = u
      BY <1>3 DEF Chain
    <2>4. \A h \in H : \E t \in T : t.id = h
      BY <1>4 DEF Chain
    <2> QED
      BY <2>1, <2>2, <2>3, <2>4 DEF Chain
  <1> QED
    BY <1>1, <1>2, <1>5

LEMMA StepEnded ==
  ASSUME NEW steps, NEW n \in Nat, NEW H, Chain(steps, n, H), NEW m \in H, Tip(H, m),
         NEW status \in Ended
  PROVE  Chain(End(steps, m, status), n, H \ {m})
  <1>1. PICK T : T = {Ends(s, m, status) : s \in steps} /\ T = End(steps, m, status)
    BY DEF End, Ends
  <1>2. status \in Statuses /\ status # "none"
    BY DEF Statuses, Ended
  <1>3. \A t \in T : \E s \in steps : /\ t = Ends(s, m, status) /\ t \in RStep /\ s \in RStep
                                      /\ t.id = s.id /\ t.up = s.up
                                      /\ s.id = m => t.status = status
                                      /\ s.id # m => t = s
    BY <1>1, <1>2, FieldsOfEnded DEF Chain
  <1>4. \A s \in steps : \E t \in T : t.id = s.id
    BY <1>1, <1>2, FieldsOfEnded DEF Chain
  <1>5. Chain(T, n, H \ {m})
    <2>1. \A t \in T : t \in RStep /\ t.id \in 1 .. n /\ t.up < t.id
      BY <1>3 DEF Chain
    <2>5. \A t \in T : t.status = "none" <=> t.id \in H \ {m}
      BY <1>2, <1>3 DEF Chain
    <2>2. ASSUME NEW t \in T, t.id \in H \ {m}
          PROVE  (t.up = 0 \/ t.up \in H \ {m}) /\ \A h \in H \ {m} : h < t.id => h <= t.up
      <3>1. /\ t.up = 0 \/ t.up \in H
            /\ \A h \in H : h < t.id => h <= t.up
        BY <1>3, <2>2 DEF Chain
      <3>2. t.up # m
        <4>1. t.up < t.id /\ t.id <= m /\ t.up \in Nat /\ t.id \in Nat
          BY <2>1, <2>2 DEF Tip, RStep
        <4>2. m \in Nat
          BY DEF Chain, RStep
        <4> QED
          BY <4>1, <4>2
      <3> QED
        BY <3>1, <3>2
    <2>3. \A t, u \in T : t.id = u.id => t = u
      BY <1>3 DEF Chain
    <2>4. \A h \in H \ {m} : \E t \in T : t.id = h
      BY <1>4 DEF Chain
    <2> QED
      BY <2>1, <2>2, <2>3, <2>4, <2>5 DEF Chain
  <1> QED
    BY <1>1, <1>5

\* One step among others.
LEMMA OneNoted ==
  ASSUME NEW A \in SUBSET RStep, NEW k \in Nat, \A s \in A : s.id # k, NEW u \in Nat
  PROVE  NotedAt(A \cup {Step(k, u, "none", 0)}, k) = A \cup {Step(k, u, "none", 1)}
  <1>1. \A s \in A : Noting(s, {k}) = s
    BY FieldsOfNoted
  <1>2. Noting(Step(k, u, "none", 0), {k}) = Step(k, u, "none", 1)
    BY DEF Noting, Step
  <1> QED
    BY <1>1, <1>2 DEF NotedAt

LEMMA OneEnded ==
  ASSUME NEW A \in SUBSET RStep, NEW k \in Nat, \A s \in A : s.id # k, NEW u \in Nat, NEW c \in Nat,
         NEW status \in Ended
  PROVE  End(A \cup {Step(k, u, "none", c)}, k, status) = A \cup {Step(k, u, status, c)}
  <1>1. \A s \in A : Ends(s, k, status) = s
    BY FieldsOfEnded DEF Statuses
  <1>2. Ends(Step(k, u, "none", c), k, status) = Step(k, u, status, c)
    BY DEF Ends, Step
  <1>3. End(A \cup {Step(k, u, "none", c)}, k, status)
          = {Ends(s, k, status) : s \in A \cup {Step(k, u, "none", c)}}
    BY DEF End, Ends
  <1> QED
    BY <1>1, <1>2, <1>3

\* Induction up to n, for a set instead of a formula.
LEMMA CountsUp ==
  ASSUME NEW n \in Nat, NEW T, 0 \in T, \A k \in 1 .. n : k - 1 \in T => k \in T
  PROVE  \A k \in 0 .. n : k \in T
  <1> DEFINE S == {k \in 0 .. n : k \notin T}
  <1> SUFFICES ASSUME S # {} PROVE FALSE
    OBVIOUS
  <1>1. PICK x \in S : \A y \in S : x <= y
    <2>1. S \in SUBSET Nat
      OBVIOUS
    <2> QED
      BY <2>1, LeastExists
  <1>2. x \in 1 .. n /\ x - 1 \in 0 .. n /\ x - 1 \notin S
    BY <1>1
  <1> QED
    BY <1>2

\* The steps of the logs of the first h hosts, under the step i of the logs.
HostLogs(i, hosts, fails, h) ==
  {Step(i + g, i, IF fails /\ g = hosts THEN "failed" ELSE "passed", 1) : g \in 1 .. h}

LEMMA FieldsOfHostLogs ==
  ASSUME NEW i \in Nat, NEW hosts \in Nat, NEW fails, NEW h \in Nat,
         NEW t \in HostLogs(i, hosts, fails, h)
  PROVE  t \in RStep /\ t.id \in i + 1 .. i + h
  <1>1. PICK g \in 1 .. h : t = Step(i + g, i, IF fails /\ g = hosts THEN "failed" ELSE "passed", 1)
    BY DEF HostLogs
  <1>2. PICK st \in Statuses : st = IF fails /\ g = hosts THEN "failed" ELSE "passed"
    BY DEF Statuses, Ended
  <1>3. t = Step(i + g, i, st, 1) /\ i + g \in Nat
    BY <1>1, <1>2
  <1>4. t \in RStep /\ t.id = i + g
    BY <1>3, FieldsOfStep
  <1> QED
    BY <1>4

\* One more host.
LEMMA NextHost ==
  ASSUME NEW steps, NEW n \in Nat, NEW H, NEW i \in Nat, NEW h \in Nat, Tip(H, i),
         Chain(steps, n, H), NEW k \in Nat, n < k, NEW status \in Ended
  PROVE  /\ End(Attach(Start(steps, k)), k, status) = steps \cup {Step(k, i, status, 1)}
         /\ Chain(End(Attach(Start(steps, k)), k, status), k, H) /\ i \in Nat
  <1>1. /\ Start(steps, k) = steps \cup {Step(k, i, "none", 0)}
        /\ Chain(Start(steps, k), k, H \cup {k}) /\ Tip(H \cup {k}, k)
    BY StepStarts
  <1>2. /\ Attach(Start(steps, k)) = NotedAt(Start(steps, k), k)
        /\ Chain(Attach(Start(steps, k)), k, H \cup {k})
    BY <1>1, StepNoted
  <1>3. Chain(End(Attach(Start(steps, k)), k, status), k, (H \cup {k}) \ {k})
    BY <1>1, <1>2, StepEnded
  <1>4. steps \in SUBSET RStep /\ (\A s \in steps : s.id # k) /\ k \notin H
    BY DEF Chain
  <1>5. (H \cup {k}) \ {k} = H
    BY <1>4
  <1>6. Attach(Start(steps, k)) = steps \cup {Step(k, i, "none", 1)}
    <2>1. NotedAt(steps \cup {Step(k, i, "none", 0)}, k) = steps \cup {Step(k, i, "none", 1)}
      BY <1>4, OneNoted
    <2> QED
      BY <1>1, <1>2, <2>1
  <1>7. End(steps \cup {Step(k, i, "none", 1)}, k, status) = steps \cup {Step(k, i, status, 1)}
    BY <1>4, OneEnded
  <1> QED
    BY <1>3, <1>5, <1>6, <1>7

\* The logs are a step under the last open one, with a step for each host.
LEMMA LogsAre ==
  ASSUME NEW steps, NEW n \in Nat, NEW H, Chain(steps, n, H), NEW m, Tip(H, m),
         NEW hosts \in Nat, NEW fails \in BOOLEAN, NEW i \in Nat, n < i
  PROVE  /\ Logs(steps, i, hosts, fails) = steps \cup LogsWanted(m, i, hosts, fails)
         /\ Chain(Logs(steps, i, hosts, fails), i + hosts, H)
  <1> DEFINE St(h) == IF fails /\ h = hosts THEN "failed" ELSE "passed"
             Def(f) == f = [h \in 0 .. hosts |-> IF h = 0 THEN Start(steps, i)
                                                 ELSE End(Attach(Start(f[h - 1], i + h)), i + h, St(h))]
             At(h) == steps \cup {Step(i, m, "none", 0)} \cup HostLogs(i, hosts, fails, h)
  <1>0. PICK r : r = (CHOOSE f : Def(f))
    OBVIOUS
  <1>1. /\ r = (CHOOSE f : Def(f))
        /\ Logs(steps, i, hosts, fails) = End(IF fails THEN r[hosts] ELSE Attach(r[hosts]), i, "passed")
    BY <1>0 DEF Logs
  <1>2. i \in Nat /\ n < i /\ m \in Nat /\ \A h \in 1 .. hosts : St(h) \in Ended
    <2>1. i \in Nat /\ n < i /\ \A h \in 1 .. hosts : St(h) \in Ended
      BY DEF Ended
    <2>2. m \in Nat
      BY DEF Chain, Tip, RStep
    <2> QED
      BY <2>1, <2>2
  <1>3. /\ Start(steps, i) = steps \cup {Step(i, m, "none", 0)}
        /\ Chain(Start(steps, i), i, H \cup {i}) /\ Tip(H \cup {i}, i)
    BY <1>2, StepStarts
  <1>4. At(0) = Start(steps, i) /\ Chain(At(0), i + 0, H \cup {i})
    <2>1. HostLogs(i, hosts, fails, 0) = {}
      BY DEF HostLogs
    <2>2. At(0) = Start(steps, i)
      BY <1>3, <2>1
    <2>3. i + 0 = i
      BY <1>2
    <2> HIDE DEF At
    <2> QED
      BY <1>3, <2>2, <2>3
  <1>5. ASSUME NEW h \in 1 .. hosts, Chain(At(h - 1), i + (h - 1), H \cup {i})
        PROVE  /\ End(Attach(Start(At(h - 1), i + h)), i + h, St(h)) = At(h)
               /\ Chain(At(h), i + h, H \cup {i})
    <2>1. PICK k, l \in Nat : k = i + h /\ l = i + (h - 1) /\ l < k
      BY <1>2
    <2>2. PICK P : P = At(h - 1)
      OBVIOUS
    <2>3. PICK st \in Ended : st = St(h)
      BY <1>2
    <2>4. Chain(P, l, H \cup {i})
      BY <1>5, <2>1, <2>2
    <2>5. /\ End(Attach(Start(P, k)), k, st) = P \cup {Step(k, i, st, 1)}
          /\ Chain(End(Attach(Start(P, k)), k, st), k, H \cup {i})
      <3>1. l < k /\ Tip(H \cup {i}, i)
        BY <1>3, <2>1
      <3> QED
        BY <2>4, <3>1, NextHost
    <2>6. At(h) = P \cup {Step(k, i, st, 1)}
      <3>1. 1 .. h = 1 .. h - 1 \cup {h}
        OBVIOUS
      <3>2. HostLogs(i, hosts, fails, h) = HostLogs(i, hosts, fails, h - 1) \cup {Step(k, i, st, 1)}
        BY <2>1, <2>3, <3>1 DEF HostLogs
      <3> QED
        BY <2>2, <3>2
    <2> QED
      BY <2>1, <2>2, <2>3, <2>5, <2>6
  <1>6. \A h \in 1 .. hosts : Chain(At(h - 1), i + (h - 1), H \cup {i}) => Chain(At(h), i + h, H \cup {i})
    BY <1>5
  <1> DEFINE Chained(h) == Chain(At(h), i + h, H \cup {i})
             T == {h \in 0 .. hosts : Chained(h)}
  <1>7. \A h \in 0 .. hosts : Chain(At(h), i + h, H \cup {i})
    <2>1. 0 \in T
      BY <1>4
    <2>2. \A h \in 1 .. hosts : h - 1 \in T => h \in T
      BY <1>6, SMTT(20)
    <2> HIDE DEF T
    <2>3. \A h \in 0 .. hosts : h \in T
      BY <2>1, <2>2, CountsUp
    <2> QED
      BY <2>3 DEF T
  <1>8. \A h \in 1 .. hosts : End(Attach(Start(At(h - 1), i + h)), i + h, St(h)) = At(h)
    <2>1. \A h \in 1 .. hosts : h - 1 \in 0 .. hosts
      OBVIOUS
    <2> QED
      BY <1>5, <1>7, <2>1
  <1> HIDE DEF St
  <1>9. PICK g : g = [h \in 0 .. hosts |-> At(h)]
    OBVIOUS
  <1>10. \A h \in 0 .. hosts : g[h] = At(h)
    BY <1>9
  <1> HIDE DEF At
  <1>11. \A h \in 0 .. hosts : g[h] = IF h = 0 THEN Start(steps, i)
                                      ELSE End(Attach(Start(g[h - 1], i + h)), i + h, St(h))
    <2> SUFFICES ASSUME NEW h \in 0 .. hosts
                 PROVE  g[h] = IF h = 0 THEN Start(steps, i)
                               ELSE End(Attach(Start(g[h - 1], i + h)), i + h, St(h))
      OBVIOUS
    <2>1. CASE h = 0
      BY <2>1, <1>4, <1>10
    <2>2. CASE h # 0
      <3>1. h \in 1 .. hosts /\ h - 1 \in 0 .. hosts
        BY <2>2
      <3>2. g[h - 1] = At(h - 1) /\ g[h] = At(h)
        BY <1>10, <3>1
      <3> QED
        BY <2>2, <3>1, <3>2, <1>8
    <2> QED
      BY <2>1, <2>2
  <1>12. Def(g)
    BY <1>9, <1>11
  <1> HIDE DEF Def
  <1>13. Def(r)
    BY <1>1, <1>12
  <1>14. \A h \in 0 .. hosts : r[h] = IF h = 0 THEN Start(steps, i)
                                      ELSE End(Attach(Start(r[h - 1], i + h)), i + h, St(h))
    BY <1>13, Zenon DEF Def
  <1> DEFINE U == {h \in 0 .. hosts : r[h] = At(h)}
  <1>15. r[hosts] = At(hosts)
    <2>1. 0 \in U
      BY <1>4, <1>14
    <2>2. \A h \in 1 .. hosts : h - 1 \in U => h \in U
      <3> SUFFICES ASSUME NEW h \in 1 .. hosts, r[h - 1] = At(h - 1)
                   PROVE  r[h] = At(h)
        OBVIOUS
      <3>1. h \in 0 .. hosts /\ h # 0
        OBVIOUS
      <3>2. r[h] = End(Attach(Start(r[h - 1], i + h)), i + h, St(h))
        BY <1>14, <3>1
      <3> QED
        BY <1>8, <3>2
    <2> HIDE DEF U
    <2>3. \A h \in 0 .. hosts : h \in U
      BY <2>1, <2>2, CountsUp
    <2> QED
      BY <2>3 DEF U
  <1>16. PICK L : L = HostLogs(i, hosts, fails, hosts)
    OBVIOUS
  <1>17. PICK A : A = steps \cup L
    OBVIOUS
  <1>18. A \in SUBSET RStep /\ \A s \in A : s.id # i
    <2>1. \A s \in L : s \in RStep /\ s.id \in i + 1 .. i + hosts
      BY <1>2, <1>16, FieldsOfHostLogs
    <2>2. \A s \in steps : s \in RStep /\ s.id \in 1 .. n
      BY DEF Chain
    <2> QED
      BY <1>2, <1>17, <2>1, <2>2
  <1>19. r[hosts] = A \cup {Step(i, m, "none", 0)} /\ Chain(r[hosts], i + hosts, H \cup {i})
    <2>1. At(hosts) = A \cup {Step(i, m, "none", 0)}
      BY <1>16, <1>17 DEF At
    <2>2. hosts \in 0 .. hosts
      OBVIOUS
    <2> QED
      BY <1>7, <1>15, <2>1, <2>2
  <1>20. PICK top \in Nat : top = i + hosts
    BY <1>2
  <1>21. "passed" \in Ended /\ (H \cup {i}) \ {i} = H
    BY DEF Ended, Chain
  <1>22. PICK c \in Nat : c = IF fails THEN 0 ELSE 1
    OBVIOUS
  <1>23. PICK q : q = IF fails THEN r[hosts] ELSE Attach(r[hosts])
    OBVIOUS
  <1>24. q = A \cup {Step(i, m, "none", c)} /\ Chain(q, top, H \cup {i})
    <2>1. CASE fails
      BY <1>19, <1>20, <1>22, <1>23, <2>1
    <2>2. CASE ~fails
      <3>1. /\ Attach(r[hosts]) = NotedAt(r[hosts], i)
            /\ Chain(Attach(r[hosts]), top, H \cup {i})
        BY <1>3, <1>19, <1>20, StepNoted
      <3>2. NotedAt(A \cup {Step(i, m, "none", 0)}, i) = A \cup {Step(i, m, "none", 1)}
        BY <1>2, <1>18, OneNoted
      <3> QED
        BY <1>19, <1>22, <1>23, <2>2, <3>1, <3>2
    <2> QED
      BY <2>1, <2>2
  <1>25. Chain(End(q, i, "passed"), top, H)
    BY <1>3, <1>21, <1>24, StepEnded
  <1>26. End(q, i, "passed") = A \cup {Step(i, m, "passed", c)}
    BY <1>2, <1>18, <1>21, <1>24, OneEnded
  <1>27. LogsWanted(m, i, hosts, fails) = {Step(i, m, "passed", c)} \cup L
    BY <1>16, <1>22 DEF LogsWanted, HostLogs
  <1> QED
    BY <1>1, <1>17, <1>20, <1>23, <1>25, <1>26, <1>27

-----------------------------------------------------------------------------
\* The steps made in the phase that goes on, and where they are to be put.
Made    == IF InBody THEN storage ELSE {}
UpIn(s) == IF s.up = 0 THEN phaseId ELSE s.up

Same(w, s, up) == /\ w.id = s.id /\ w.up = up /\ w.notes = s.notes
                  /\ w.status = s.status \/ w.status = "interrupted"

Matched ==
  /\ \A w \in want : (\E s \in runner : Same(w, s, s.up)) \/ (\E s \in Made : Same(w, s, UpIn(s)))
  /\ \A s \in runner \cup Made : \E w \in want : w.id = s.id

Wanted ==
  /\ want \subseteq RStep
  /\ \A w \in want : w.id \in 1 .. id
  /\ \A v, w \in want : v.id = w.id => v = w

Held == {stack[k] : k \in DOMAIN stack} \ {0}

Increasing == \A j, k \in DOMAIN stack : j < k /\ stack[j] # 0 /\ stack[k] # 0 => stack[j] < stack[k]

\* The open steps of the two storages are that of the phase and those of the calls that go on.
InPhase ==
  /\ phaseId <= id
  /\ Chain(runner, phaseId, {phaseId})
  /\ \A s \in runner : s.id = phaseId => s.up = 0
  /\ Chain(storage, id, Held)
  /\ \A s \in storage : phaseId < s.id
  /\ Increasing

Waits == {"before setup", "before Execution", "before teardown"}

RInv ==
  /\ id \in Nat /\ phaseId \in Nat /\ stack \in Seq(Nat)
  /\ phase \in Phases \cup Waits \cup {"begin", "reported"}
  /\ InBody => InPhase
  /\ ~InBody => stack = << >>
  /\ phase \in Waits => storage = {}
  /\ ~InBody /\ phase # "begin" => Chain(runner, id, {})
  /\ phase # "begin" => Wanted /\ Matched

LEMMA NoSteps ==
  ASSUME NEW n
  PROVE  Chain({}, n, {}) /\ Tip({}, 0)
  BY DEF Chain, Tip

LEMMA StartsFirst ==
  ASSUME NEW steps, NEW n \in Nat, Chain(steps, n, {}), NEW k \in Nat, n < k
  PROVE  Start(steps, k) = steps \cup {Step(k, 0, "none", 0)} /\ Chain(Start(steps, k), k, {k})
  <1>1. PICK H : H = {}
    OBVIOUS
  <1>2. PICK m : m = 0
    OBVIOUS
  <1>3. Chain(steps, n, H) /\ Tip(H, m) /\ H \cup {k} = {k}
    BY <1>1, <1>2 DEF Tip
  <1>4. Start(steps, k) = steps \cup {Step(k, m, "none", 0)} /\ Chain(Start(steps, k), k, H \cup {k})
    BY <1>3, StepStarts, SMTT(20)
  <1> QED
    BY <1>2, <1>3, <1>4

LEMMA ChainUp ==
  ASSUME NEW steps, NEW n \in Nat, NEW H, Chain(steps, n, H), NEW k \in Nat, n <= k
  PROVE  Chain(steps, k, H)
  <1>1. \A s \in steps : s.id \in 1 .. k
    BY DEF Chain
  <1> QED
    BY <1>1 DEF Chain

\* The innermost call that has a step holds the last open one.
LEMMA CallerIs ==
  ASSUME stack \in Seq(Nat), Increasing
  PROVE  \E m \in Nat : Tip(Held, m) /\ Caller = IF m = 0 THEN phaseId ELSE m
  <1> DEFINE K == {k \in DOMAIN stack : stack[k] # 0}
  <1>1. PICK n \in Nat : n = Len(stack) /\ DOMAIN stack = 1 .. n
    OBVIOUS
  <1>2. CASE K = {}
    <2>1. Held = {} /\ Caller = phaseId
      BY <1>2 DEF Held, Caller
    <2> QED
      BY <2>1 DEF Tip
  <1>3. CASE K # {}
    <2>1. PICK x \in {n - k : k \in K} : \A y \in {n - k : k \in K} : x <= y
      <3>1. {n - k : k \in K} \in SUBSET Nat /\ {n - k : k \in K} # {}
        BY <1>1, <1>3
      <3> QED
        BY <3>1, LeastExists
    <2>2. PICK l \in K : x = n - l
      OBVIOUS
    <2>3. \A k \in K : k <= l
      <3> SUFFICES ASSUME NEW k \in K PROVE k <= l
        OBVIOUS
      <3>1. n - k \in {n - j : j \in K}
        OBVIOUS
      <3>2. n - l <= n - k /\ k \in Nat /\ l \in Nat
        BY <1>1, <2>1, <2>2, <3>1
      <3> QED
        BY <1>1, <3>2
    <2>4. Max(K) = l
      <3>1. \A k \in K : k \in Nat
        BY <1>1
      <3>2. \A k \in K : (\A j \in K : k >= j) => k = l
        BY <2>3, <3>1
      <3>3. \A j \in K : l >= j
        BY <2>3, <3>1
      <3> HIDE DEF K
      <3> QED
        BY <3>2, <3>3 DEF Max
    <2>5. Caller = stack[l]
      BY <1>3, <2>4 DEF Caller
    <2>6. stack[l] \in Nat /\ stack[l] # 0
      BY <1>1
    <2>7. \A k \in K : stack[k] <= stack[l]
      BY <1>1, <2>3, <2>6 DEF Increasing
    <2>8. Tip(Held, stack[l])
      BY <2>6, <2>7 DEF Tip, Held
    <2> QED
      BY <2>5, <2>6, <2>8
  <1> QED
    BY <1>2, <1>3

LEMMA Pushed ==
  ASSUME stack \in Seq(Nat), NEW v \in Nat, stack' = Append(stack, v), Increasing,
         v = 0 \/ \A h \in Held : h < v
  PROVE  stack' \in Seq(Nat) /\ Held' = Held \cup ({v} \ {0}) /\ Increasing'
  <1>1. PICK n \in Nat : n = Len(stack) /\ DOMAIN stack = 1 .. n
    OBVIOUS
  <1>2. PICK t : t = stack' /\ t = Append(stack, v)
    OBVIOUS
  <1>3. /\ t \in Seq(Nat) /\ DOMAIN t = 1 .. n + 1 /\ t[n + 1] = v
        /\ \A k \in 1 .. n : t[k] = stack[k]
    BY <1>1, <1>2
  <1>4. \A k \in 1 .. n + 1 : k \in 1 .. n \/ k = n + 1
    OBVIOUS
  <1>5. {t[k] : k \in DOMAIN t} = {stack[k] : k \in DOMAIN stack} \cup {v}
    <2>1. \A k \in 1 .. n : k \in 1 .. n + 1
      OBVIOUS
    <2>2. n + 1 \in 1 .. n + 1
      OBVIOUS
    <2> QED
      BY <1>1, <1>3, <1>4, <2>1, <2>2
  <1>6. Held' = Held \cup ({v} \ {0})
    BY <1>2, <1>5 DEF Held
  <1>7. ASSUME NEW j \in 1 .. n + 1, NEW k \in 1 .. n + 1, j < k, t[j] # 0, t[k] # 0
        PROVE  t[j] < t[k]
    <2>1. j \in 1 .. n /\ t[j] = stack[j]
      BY <1>3, <1>7
    <2>2. CASE k = n + 1
      <3>1. stack[j] \in Held
        BY <1>1, <1>7, <2>1 DEF Held
      <3> QED
        BY <1>3, <1>7, <2>1, <2>2, <3>1
    <2>3. CASE k # n + 1
      <3>1. k \in 1 .. n /\ t[k] = stack[k]
        BY <1>3, <1>4, <2>3
      <3> QED
        BY <1>1, <1>7, <2>1, <3>1 DEF Increasing
    <2> QED
      BY <2>2, <2>3
  <1> QED
    BY <1>2, <1>3, <1>6, <1>7 DEF Increasing

LEMMA Popped ==
  ASSUME stack \in Seq(Nat), stack # << >>, stack' = Front(stack), Increasing, NEW v, v = Last(stack)
  PROVE  /\ stack' \in Seq(Nat) /\ v \in Nat /\ Increasing' /\ Held' = Held \ {v}
         /\ v # 0 => v \in Held /\ Tip(Held, v)
  <1>1. PICK n \in Nat \ {0} : n = Len(stack) /\ DOMAIN stack = 1 .. n
    OBVIOUS
  <1>2. PICK t : t = stack' /\ t = SubSeq(stack, 1, n - 1)
    BY <1>1 DEF Front
  <1>3. t \in Seq(Nat) /\ DOMAIN t = 1 .. n - 1 /\ \A k \in 1 .. n - 1 : t[k] = stack[k]
    BY <1>1, <1>2
  <1>4. v = stack[n] /\ v \in Nat
    BY <1>1 DEF Last
  <1>5. \A k \in 1 .. n : k \in 1 .. n - 1 \/ k = n
    OBVIOUS
  <1>6. \A k \in 1 .. n - 1 : k \in 1 .. n /\ (v # 0 /\ stack[k] # 0 => stack[k] < v)
    BY <1>1, <1>4 DEF Increasing
  <1>7. \A k \in 1 .. n - 1 : stack[k] # 0 => stack[k] # v
    BY <1>1, <1>4, <1>6
  <1>8. {t[k] : k \in DOMAIN t} \ {0} = ({stack[k] : k \in DOMAIN stack} \ {0}) \ {v}
    BY <1>1, <1>3, <1>4, <1>5, <1>6, <1>7
  <1>9. Held' = Held \ {v}
    BY <1>2, <1>8 DEF Held
  <1>10. Increasing'
    BY <1>1, <1>2, <1>3, <1>6 DEF Increasing
  <1>11. ASSUME v # 0
         PROVE  v \in Held /\ Tip(Held, v)
    <2>1. v \in Held
      BY <1>1, <1>4, <1>11 DEF Held
    <2>2. ASSUME NEW k \in 1 .. n, stack[k] # 0
          PROVE  stack[k] <= v
      <3>1. stack[k] \in Nat
        BY <1>1
      <3> QED
        BY <1>4, <1>5, <1>6, <1>11, <2>2, <3>1
    <2>3. \A h \in Held : h <= v
      BY <1>1, <2>2 DEF Held
    <2> QED
      BY <2>1, <2>3 DEF Tip
  <1> QED
    BY <1>2, <1>3, <1>4, <1>9, <1>10, <1>11

LEMMA StartTestKeeps ==
  ASSUME RInv, StartTest
  PROVE  RInv'
  <1>1. /\ runner' = {} /\ storage' = {} /\ want' = {} /\ id' = 0 /\ phaseId' = 0
        /\ phase' \in Waits /\ stack' = stack /\ stack = << >> /\ phase = "begin"
    BY DEF StartTest, RInv, Waits, InBody, Phases
  <1>2. ~InBody'
    BY <1>1 DEF InBody, Phases, Waits
  <1>3. Chain(runner', id', {}) /\ Wanted' /\ Matched'
    BY <1>1, <1>2, NoSteps DEF Wanted, Matched, Made
  <1> QED
    BY <1>1, <1>2, <1>3 DEF RInv

LEMMA EnterKeeps ==
  ASSUME RInv, NEW name \in Phases, EnterPhase(name)
  PROVE  RInv'
  <1>1. /\ phase = BeforePhase[name] /\ phase' = name
        /\ runner' = Start(runner, id + 1) /\ id' = id + 1 /\ phaseId' = id + 1
        /\ want' = want \cup {Step(id + 1, 0, "none", 0)}
        /\ UNCHANGED <<storage, stack, calls>>
    BY DEF EnterPhase, Enter
  <1>2. phase \in Waits
    <2>1. /\ BeforePhase["setup"] = "before setup" /\ BeforePhase["Execution"] = "before Execution"
          /\ BeforePhase["teardown"] = "before teardown"
      BY DEF BeforePhase
    <2> QED
      BY <1>1, <2>1 DEF Phases, Waits
  <1>3. ~InBody /\ phase # "begin" /\ InBody'
    BY <1>1, <1>2 DEF InBody, Phases, Waits
  <1>4. /\ id \in Nat /\ stack = << >> /\ storage = {} /\ Chain(runner, id, {}) /\ Wanted /\ Matched
        /\ Made = {}
    BY <1>2, <1>3 DEF RInv, Made
  <1>5. PICK k \in Nat : k = id + 1
    BY <1>4
  <1>6. id < k /\ \A i \in 1 .. id : i < k /\ i \in 1 .. k
    BY <1>4, <1>5
  <1>7. PICK s : s = Step(k, 0, "none", 0)
    OBVIOUS
  <1>8. s \in RStep /\ s.id = k /\ s.up = 0 /\ s.status = "none" /\ s.notes = 0
    <2>1. "none" \in Statuses
      BY DEF Statuses
    <2> QED
      BY <1>7, <2>1, FieldsOfStep
  <1>9. runner' = runner \cup {s} /\ want' = want \cup {s}
    <2>1. Start(runner, k) = runner \cup {Step(k, 0, "none", 0)}
      BY <1>4, <1>6, StartsFirst
    <2> QED
      BY <1>1, <1>5, <1>7, <2>1
  <1>10. Chain(runner', k, {k})
    <2>1. Chain(Start(runner, k), k, {k})
      BY <1>4, <1>6, StartsFirst
    <2> QED
      BY <1>1, <1>5, <2>1
  <1>11. \A t \in runner : t.id \in 1 .. id
    BY <1>4 DEF Chain
  <1>12. Held' = {} /\ Increasing' /\ stack' \in Seq(Nat)
    BY <1>1, <1>4 DEF Held, Increasing
  <1>13. InPhase'
    <2>1. \A t \in runner' : t.id = k => t.up = 0
      BY <1>6, <1>8, <1>9, <1>11
    <2>2. Chain(storage', id', Held')
      BY <1>1, <1>4, <1>12, NoSteps
    <2> QED
      BY <1>1, <1>4, <1>5, <1>10, <1>12, <2>1, <2>2 DEF InPhase
  <1>14. Wanted'
    <2>1. \A w \in want : w \in RStep /\ w.id \in 1 .. id
      BY <1>4 DEF Wanted
    <2>4. s.id \in 1 .. k
      BY <1>4, <1>5, <1>8
    <2>2. \A w \in want' : w \in RStep /\ w.id \in 1 .. k
      BY <1>6, <1>8, <1>9, <2>1, <2>4
    <2>3. \A v, w \in want' : v.id = w.id => v = w
      BY <1>4, <1>6, <1>8, <1>9, <2>1 DEF Wanted
    <2> QED
      BY <1>1, <1>5, <2>2, <2>3 DEF Wanted
  <1>15. Matched'
    <2>1. Made' = {}
      BY <1>1, <1>3, <1>4 DEF Made
    <2>2. \A w \in want : \E t \in runner : Same(w, t, t.up)
      BY <1>4 DEF Matched
    <2>3. \A w \in want' : \E t \in runner' : Same(w, t, t.up)
      BY <1>9, <2>2 DEF Same
    <2>4. \A t \in runner' : \E w \in want' : w.id = t.id
      BY <1>4, <1>9 DEF Matched
    <2> QED
      BY <2>1, <2>3, <2>4 DEF Matched, Same
  <1> QED
    BY <1>1, <1>3, <1>4, <1>5, <1>12, <1>13, <1>14, <1>15 DEF RInv, InBody, Phases, Waits

\* A step in the body of a phase.
LEMMA BodyKeeps ==
  ASSUME RInv, InBody, phase' = phase, phaseId' = phaseId, id' \in Nat, stack' \in Seq(Nat),
         InPhase', Wanted', Matched'
  PROVE  RInv'
  <1>1. phase \in Phases /\ InBody'
    BY DEF InBody
  <1>2. phase' \in Phases /\ phase' \notin Waits /\ phase' # "begin" /\ phaseId' \in Nat
    BY <1>1 DEF Phases, Waits, RInv
  <1> QED
    BY <1>1, <1>2 DEF RInv

\* What holds of the storages while a phase goes on.
LEMMA InBodyIs ==
  ASSUME RInv, InBody
  PROVE  /\ id \in Nat /\ phaseId \in Nat /\ stack \in Seq(Nat) /\ InPhase /\ Wanted /\ Matched
         /\ Made = storage
  <1>1. phase # "begin"
    BY DEF InBody, Phases
  <1> QED
    BY <1>1 DEF RInv, Made

LEMMA CallKeeps ==
  ASSUME RInv, NEW linked \in BOOLEAN, Call(linked)
  PROVE  RInv'
  <1>1. /\ InBody /\ UNCHANGED <<phase, runner, phaseId>>
        /\ linked => /\ storage' = Start(storage, id + 1) /\ id' = id + 1 /\ stack' = Append(stack, id + 1)
                     /\ want' = want \cup {Step(id + 1, Caller, "none", 0)}
        /\ ~linked => stack' = Append(stack, 0) /\ UNCHANGED <<storage, id, want>>
    BY DEF Call
  <1>2. /\ id \in Nat /\ phaseId \in Nat /\ stack \in Seq(Nat) /\ Wanted /\ Matched
        /\ Made = storage /\ InBody'
    BY <1>1, InBodyIs DEF InBody
  <1>3. /\ phaseId <= id
        /\ Chain(runner, phaseId, {phaseId})
        /\ \A s \in runner : s.id = phaseId => s.up = 0
        /\ Chain(storage, id, Held)
        /\ \A s \in storage : phaseId < s.id
        /\ Increasing
    BY <1>1, InBodyIs DEF InPhase
  <1>4. CASE ~linked
    <2>1. PICK v \in Nat : v = 0
      OBVIOUS
    <2>2. stack' = Append(stack, v) /\ (v = 0 \/ \A h \in Held : h < v)
      BY <1>1, <1>4, <2>1
    <2>3. stack' \in Seq(Nat) /\ Held' = Held \cup ({v} \ {0}) /\ Increasing'
      BY <1>2, <1>3, <2>2, Pushed
    <2>4. Held' = Held
      BY <2>1, <2>3
    <2>5. InPhase'
      BY <1>1, <1>3, <1>4, <2>3, <2>4 DEF InPhase
    <2>6. Wanted' /\ Matched'
      BY <1>1, <1>2, <1>4 DEF Wanted, Matched, Made, Same, UpIn
    <2> QED
      BY <1>1, <1>2, <1>4, <2>3, <2>5, <2>6, BodyKeeps
  <1>5. CASE linked
    <2>1. PICK k \in Nat : k = id + 1
      BY <1>2
    <2>2. id < k /\ phaseId <= k /\ \A i \in 1 .. id : i < k /\ i \in 1 .. k
      BY <1>2, <1>3, <2>1
    <2>3. storage' = Start(storage, k) /\ id' = k /\ stack' = Append(stack, k)
          /\ want' = want \cup {Step(k, Caller, "none", 0)}
      BY <1>1, <1>5, <2>1
    <2>4. \A h \in Held : h \in 1 .. id
      BY <1>3 DEF Chain
    <2>5. k = 0 \/ \A h \in Held : h < k
      BY <2>2, <2>4
    <2>6. stack' \in Seq(Nat) /\ Held' = Held \cup ({k} \ {0}) /\ Increasing'
      BY <1>2, <1>3, <2>3, <2>5, Pushed
    <2>7. Held' = Held \cup {k}
      <3>1. k # 0
        BY <1>2, <2>1
      <3> QED
        BY <2>6, <3>1
    <2>8. PICK m \in Nat : Tip(Held, m) /\ Caller = IF m = 0 THEN phaseId ELSE m
      BY <1>2, <1>3, CallerIs
    <2>9. /\ Start(storage, k) = storage \cup {Step(k, m, "none", 0)}
          /\ Chain(Start(storage, k), k, Held \cup {k})
      BY <1>2, <1>3, <2>2, <2>8, StepStarts
    <2>10. PICK s : s = Step(k, m, "none", 0)
      OBVIOUS
    <2>11. PICK c \in Nat : c = Caller
      BY <1>2, <2>8
    <2>12. PICK w : w = Step(k, c, "none", 0)
      OBVIOUS
    <2>13. "none" \in Statuses
      BY DEF Statuses
    <2>14. s \in RStep /\ s.id = k /\ s.up = m /\ s.status = "none" /\ s.notes = 0
      BY <2>10, <2>13, FieldsOfStep
    <2>15. w \in RStep /\ w.id = k /\ w.up = c /\ w.status = "none" /\ w.notes = 0
      BY <2>12, <2>13, FieldsOfStep
    <2>16. storage' = storage \cup {s} /\ want' = want \cup {w} /\ Chain(storage', id', Held')
      BY <2>3, <2>7, <2>9, <2>10, <2>11, <2>12
    <2>17. InPhase'
      <3>1. \A t \in storage' : phaseId < t.id
        <4>1. phaseId < k
          BY <1>2, <1>3, <2>1
        <4> QED
          BY <1>3, <2>14, <2>16, <4>1
      <3> QED
        BY <1>1, <1>3, <2>2, <2>3, <2>6, <2>16, <3>1 DEF InPhase
    <2>18. Wanted'
      <3>1. \A v \in want : v \in RStep /\ v.id \in 1 .. id
        BY <1>2 DEF Wanted
      <3>2. k \in 1 .. k
        BY <1>2, <2>1
      <3>3. \A v \in want' : v \in RStep /\ v.id \in 1 .. k
        BY <2>2, <2>15, <2>16, <3>1, <3>2
      <3>4. \A u, v \in want' : u.id = v.id => u = v
        BY <1>2, <2>2, <2>15, <2>16, <3>1 DEF Wanted
      <3> QED
        BY <2>3, <3>3, <3>4 DEF Wanted
    <2>19. Matched'
      <3>1. Made' = storage'
        BY <1>2 DEF Made
      <3>2. UpIn(s) = c
        BY <2>8, <2>11, <2>14 DEF UpIn
      <3>3. Same(w, s, UpIn(s))
        BY <2>14, <2>15, <3>2 DEF Same
      <3>4. \A t : UpIn(t)' = UpIn(t)
        BY <1>1 DEF UpIn
      <3>5. \A v \in want' : (\E t \in runner' : Same(v, t, t.up)) \/ (\E t \in storage' : Same(v, t, UpIn(t)))
        BY <1>1, <1>2, <2>16, <3>3 DEF Matched
      <3>6. \A t \in runner' \cup storage' : \E v \in want' : v.id = t.id
        BY <1>1, <1>2, <2>14, <2>15, <2>16 DEF Matched
      <3>7. \A v \in want' : (\E t \in runner' : Same(v, t, t.up)) \/ (\E t \in storage' : Same(v, t, UpIn(t)'))
        BY <3>4, <3>5
      <3> QED
        BY <1>1, <3>1, <3>6, <3>7 DEF Matched, Same, UpIn
    <2> QED
      BY <1>1, <1>2, <2>3, <2>6, <2>17, <2>18, <2>19, BodyKeeps
  <1> QED
    BY <1>4, <1>5

\* Steps of which each is changed, but keeps its number.
LEMMA WantedStays ==
  ASSUME Wanted, id' = id, NEW f, want' = {f[w] : w \in want},
         \A w \in want : f[w] \in RStep /\ f[w].id = w.id
  PROVE  Wanted'
  <1>1. \A v \in want' : v \in RStep /\ v.id \in 1 .. id
    BY DEF Wanted
  <1>2. \A u, v \in want' : u.id = v.id => u = v
    BY DEF Wanted
  <1> QED
    BY <1>1, <1>2 DEF Wanted

LEMMA MatchedStays ==
  ASSUME InBody, UNCHANGED <<phase, runner, phaseId>>, Matched, NEW f, NEW g,
         want' = {f[w] : w \in want}, storage' = {g[s] : s \in storage},
         \A w \in want : f[w].id = w.id, \A s \in storage : g[s].id = s.id,
         \A w \in want : \A s \in runner : Same(w, s, s.up) => Same(f[w], s, s.up),
         \A w \in want : \A s \in storage : Same(w, s, UpIn(s)) => Same(f[w], g[s], UpIn(g[s]))
  PROVE  Matched'
  <1>1. Made = storage /\ Made' = storage'
    BY DEF Made, InBody
  <1>2. \A v \in want' : (\E s \in runner : Same(v, s, s.up)) \/ (\E s \in storage' : Same(v, s, UpIn(s)))
    <2> SUFFICES ASSUME NEW w \in want
                 PROVE  (\E s \in runner : Same(f[w], s, s.up)) \/ (\E s \in storage' : Same(f[w], s, UpIn(s)))
      OBVIOUS
    <2>1. (\E s \in runner : Same(w, s, s.up)) \/ (\E s \in storage : Same(w, s, UpIn(s)))
      BY <1>1 DEF Matched
    <2> QED
      BY <2>1
  <1>3. \A s \in runner \cup storage' : \E w \in want' : w.id = s.id
    <2>1. \A s \in runner \cup storage : \E w \in want : w.id = s.id
      BY <1>1 DEF Matched
    <2>2. \A s \in storage : \E w \in want' : w.id = g[s].id
      BY <2>1
    <2>3. \A s \in runner : \E w \in want' : w.id = s.id
      BY <2>1
    <2> QED
      BY <2>2, <2>3
  <1> QED
    BY <1>1, <1>2, <1>3 DEF Matched, Same, UpIn

LEMMA AttachmentKeeps ==
  ASSUME RInv, AddAttachment
  PROVE  RInv'
  <1>1. /\ InBody /\ UNCHANGED <<phase, runner, id, phaseId, stack>>
        /\ storage' = Attach(storage)
        /\ want' = {[s EXCEPT !.notes = IF s.id = Caller /\ Caller # phaseId THEN @ + 1 ELSE @] : s \in want}
    BY DEF AddAttachment
  <1>2. /\ id \in Nat /\ phaseId \in Nat /\ stack \in Seq(Nat) /\ Wanted /\ Matched
        /\ InPhase /\ Made = storage /\ InBody'
    BY <1>1, InBodyIs DEF InBody
  <1>3. /\ phaseId <= id
        /\ Chain(runner, phaseId, {phaseId})
        /\ Chain(storage, id, Held)
        /\ \A s \in storage : phaseId < s.id
        /\ Increasing
    BY <1>2 DEF InPhase
  <1>4. PICK m \in Nat : Tip(Held, m) /\ Caller = IF m = 0 THEN phaseId ELSE m
    BY <1>2, <1>3, CallerIs
  <1>5. m = 0 \/ phaseId < m
    BY <1>3, <1>4 DEF Tip, Chain
  <1>6. Attach(storage) = NotedAt(storage, m) /\ Chain(Attach(storage), id, Held)
    BY <1>2, <1>3, <1>4, StepNoted
  <1>7. PICK f : f = [w \in want |-> Noting(w, {m})]
    OBVIOUS
  <1>8. PICK g : g = [s \in storage |-> Noting(s, {m})]
    OBVIOUS
  <1>9. \A w \in want : w \in RStep /\ w.id \in 1 .. id /\ w.id # 0
    BY <1>2 DEF Wanted
  <1>10. \A s \in storage : s \in RStep
    BY <1>3 DEF Chain
  <1>11. \A w \in want : /\ f[w] \in RStep /\ f[w].id = w.id /\ f[w].up = w.up /\ f[w].status = w.status
                         /\ w.id = m => f[w].notes = w.notes + 1
                         /\ w.id # m => f[w] = w
    BY <1>7, <1>9, FieldsOfNoted
  <1>12. \A s \in storage : /\ g[s] \in RStep /\ g[s].id = s.id /\ g[s].up = s.up /\ g[s].status = s.status
                            /\ s.id = m => g[s].notes = s.notes + 1
                            /\ s.id # m => g[s] = s
    BY <1>8, <1>10, FieldsOfNoted
  <1>13. storage' = {g[s] : s \in storage}
    BY <1>1, <1>6, <1>8 DEF NotedAt
  <1>14. want' = {f[w] : w \in want}
    <2>1. \A w \in want : w.id = Caller /\ Caller # phaseId <=> w.id \in {m}
      BY <1>2, <1>4, <1>5, <1>9
    <2> DEFINE e(w) == [w EXCEPT !.notes = IF w.id = Caller /\ Caller # phaseId THEN @ + 1 ELSE @]
    <2>2. \A w \in want : e(w) = f[w]
      <3> SUFFICES ASSUME NEW w \in want PROVE e(w) = f[w]
        OBVIOUS
      <3>1. f[w] = [w EXCEPT !.notes = IF w.id \in {m} THEN @ + 1 ELSE @]
        BY <1>7 DEF Noting
      <3>2. CASE w.id \in {m}
        BY <2>1, <3>1, <3>2
      <3>3. CASE w.id \notin {m}
        BY <2>1, <3>1, <3>3
      <3> QED
        BY <3>2, <3>3
    <2>3. want' = {e(w) : w \in want}
      BY <1>1
    <2> HIDE DEF e
    <2> QED
      BY <2>2, <2>3
  <1>15. Wanted'
    BY <1>1, <1>2, <1>11, <1>14, WantedStays
  <1>16. Matched'
    <2>1. ASSUME NEW w \in want, NEW s \in runner, Same(w, s, s.up)
          PROVE  Same(f[w], s, s.up)
      <3>1. s.id \in 1 .. phaseId /\ w.id = s.id
        BY <1>3, <2>1 DEF Chain, Same
      <3>2. w.id # m
        BY <1>2, <1>5, <3>1
      <3> QED
        BY <1>11, <2>1, <3>2
    <2>2. ASSUME NEW w \in want, NEW s \in storage, Same(w, s, UpIn(s))
          PROVE  Same(f[w], g[s], UpIn(g[s]))
      BY <1>11, <1>12, <2>2 DEF Same, UpIn
    <2>3. \A w \in want : f[w].id = w.id
      BY <1>11
    <2>4. \A s \in storage : g[s].id = s.id
      BY <1>12
    <2> QED
      BY <1>1, <1>2, <1>13, <1>14, <2>1, <2>2, <2>3, <2>4, MatchedStays
  <1>17. InPhase'
    <2>1. Held' = Held /\ Increasing'
      BY <1>1, <1>3 DEF Held, Increasing
    <2>2. \A s \in storage' : phaseId < s.id
      BY <1>3, <1>12, <1>13
    <2>3. \A s \in runner : s.id = phaseId => s.up = 0
      BY <1>2 DEF InPhase
    <2> QED
      BY <1>1, <1>3, <1>6, <2>1, <2>2, <2>3 DEF InPhase
  <1> QED
    BY <1>1, <1>2, <1>15, <1>16, <1>17, BodyKeeps

LEMMA ReturnKeeps ==
  ASSUME RInv, NEW outcome \in Outcomes, Return(outcome)
  PROVE  RInv'
  <1>1. /\ InBody /\ stack # << >> /\ stack' = Front(stack) /\ UNCHANGED <<phase, runner, id, phaseId>>
        /\ storage' = IF Last(stack) # 0 THEN End(storage, Last(stack), StatusOf(outcome)) ELSE storage
        /\ want' = End(want, Last(stack), IF outcome = "interrupted" THEN outcome ELSE StatusOf(outcome))
    BY DEF Return
  <1>2. /\ id \in Nat /\ phaseId \in Nat /\ stack \in Seq(Nat) /\ Wanted /\ Matched
        /\ InPhase /\ Made = storage /\ InBody'
    BY <1>1, InBodyIs DEF InBody
  <1>3. /\ phaseId <= id
        /\ Chain(runner, phaseId, {phaseId})
        /\ Chain(storage, id, Held)
        /\ \A s \in storage : phaseId < s.id
        /\ Increasing
    BY <1>2 DEF InPhase
  <1>4. PICK v : v = Last(stack)
    OBVIOUS
  <1>5. /\ stack' \in Seq(Nat) /\ v \in Nat /\ Increasing' /\ Held' = Held \ {v}
        /\ v # 0 => v \in Held /\ Tip(Held, v)
    BY <1>1, <1>2, <1>3, <1>4, Popped
  <1>6. v = 0 \/ phaseId < v
    BY <1>3, <1>5 DEF Chain
  <1>7. PICK st : st = StatusOf(outcome)
    OBVIOUS
  <1>8. st \in Ended /\ st \in Statuses
    BY <1>7 DEF StatusOf, Ended, Statuses
  <1>9. PICK su : su = IF outcome = "interrupted" THEN outcome ELSE st
    OBVIOUS
  <1>10. su \in Statuses /\ (su = st \/ su = "interrupted")
    BY <1>8, <1>9 DEF Statuses
  <1>11. \A w \in want : w \in RStep /\ w.id \in 1 .. id /\ w.id # 0
    BY <1>2 DEF Wanted
  <1>12. \A s \in storage : s \in RStep /\ s.id \in 1 .. id /\ s.id # 0
    BY <1>2, <1>3 DEF Chain
  <1>13. PICK f : f = [w \in want |-> Ends(w, v, su)]
    OBVIOUS
  <1>14. PICK g : g = [s \in storage |-> Ends(s, v, st)]
    OBVIOUS
  <1>15. \A w \in want : /\ f[w] \in RStep /\ f[w].id = w.id /\ f[w].up = w.up /\ f[w].notes = w.notes
                         /\ w.id = v => f[w].status = su
                         /\ w.id # v => f[w] = w
    BY <1>10, <1>11, <1>13, FieldsOfEnded
  <1>16. \A s \in storage : /\ g[s] \in RStep /\ g[s].id = s.id /\ g[s].up = s.up /\ g[s].notes = s.notes
                            /\ s.id = v => g[s].status = st
                            /\ s.id # v => g[s] = s
    BY <1>8, <1>12, <1>14, FieldsOfEnded
  <1>17. want' = {f[w] : w \in want}
    BY <1>1, <1>4, <1>7, <1>9, <1>13 DEF End, Ends
  <1>18. End(storage, v, st) = {g[s] : s \in storage}
    BY <1>14 DEF End, Ends
  <1>19. storage' = {g[s] : s \in storage}
    <2>1. CASE v = 0
      <3>1. \A s \in storage : g[s] = s
        BY <1>12, <1>16, <2>1
      <3> QED
        BY <1>1, <1>4, <2>1, <3>1
    <2>2. CASE v # 0
      BY <1>1, <1>4, <1>7, <1>18, <2>2
    <2> QED
      BY <2>1, <2>2
  <1>20. Chain(storage', id, Held')
    <2>1. CASE v = 0
      <3>1. Held' = Held
        BY <1>5, <2>1 DEF Held
      <3> QED
        BY <1>1, <1>3, <1>4, <2>1, <3>1
    <2>2. CASE v # 0
      <3>1. v \in Held /\ Tip(Held, v)
        BY <1>5, <2>2
      <3>2. Chain(End(storage, v, st), id, Held \ {v})
        BY <1>2, <1>3, <1>8, <3>1, StepEnded
      <3> QED
        BY <1>1, <1>4, <1>5, <1>7, <2>2, <3>2
    <2> QED
      BY <2>1, <2>2
  <1>21. Wanted'
    BY <1>1, <1>2, <1>15, <1>17, WantedStays
  <1>22. Matched'
    <2>1. ASSUME NEW w \in want, NEW s \in runner, Same(w, s, s.up)
          PROVE  Same(f[w], s, s.up)
      <3>1. s.id \in 1 .. phaseId /\ w.id = s.id
        BY <1>3, <2>1 DEF Chain, Same
      <3>2. w.id # v
        BY <1>2, <1>6, <3>1
      <3> QED
        BY <1>15, <2>1, <3>2
    <2>2. ASSUME NEW w \in want, NEW s \in storage, Same(w, s, UpIn(s))
          PROVE  Same(f[w], g[s], UpIn(g[s]))
      BY <1>10, <1>15, <1>16, <2>2 DEF Same, UpIn
    <2>3. \A w \in want : f[w].id = w.id
      BY <1>15
    <2>4. \A s \in storage : g[s].id = s.id
      BY <1>16
    <2> QED
      BY <1>1, <1>2, <1>17, <1>19, <2>1, <2>2, <2>3, <2>4, MatchedStays
  <1>23. InPhase'
    <2>1. \A s \in storage' : phaseId < s.id
      BY <1>3, <1>16, <1>19
    <2>2. \A s \in runner : s.id = phaseId => s.up = 0
      BY <1>2 DEF InPhase
    <2> QED
      BY <1>1, <1>3, <1>5, <1>20, <2>1, <2>2 DEF InPhase
  <1> QED
    BY <1>1, <1>2, <1>5, <1>21, <1>22, <1>23, BodyKeeps

LEMMA FirstOpenIs ==
  ASSUME NEW steps, NEW n \in Nat, NEW p \in Nat, Chain(steps, n, {p}),
         \A s \in steps : s.id = p => s.up = 0
  PROVE  FirstOpen(steps) = p
  <1>1. PICK S : S = {s.id : s \in {t \in steps : t.up = 0 /\ t.status = "none"}}
    OBVIOUS
  <1>2. \A s \in steps : s.status = "none" <=> s.id = p
    BY DEF Chain
  <1>3. \E s \in steps : s.id = p
    BY DEF Chain
  <1>4. S = {p}
    BY <1>1, <1>2, <1>3
  <1>5. Min(S) = p
    BY <1>4 DEF Min
  <1> QED
    BY <1>1, <1>5 DEF FirstOpen

\* What the report has at the end of a phase: the runner's steps and the test class's below
\* that of the phase.
AllSteps == runner \cup Under(phaseId, storage)

LEMMA AllStepsIs ==
  ASSUME id \in Nat, phaseId \in Nat, InPhase, Held = {}
  PROVE  /\ Chain(AllSteps, id, {phaseId})
         /\ \A s \in AllSteps : s.id = phaseId => s.up = 0
         /\ \A t \in Under(phaseId, storage) : \E s \in storage : /\ t = Lifted(s, phaseId) /\ t \in RStep /\ s \in RStep
                                      /\ t.id = s.id /\ t.status = s.status /\ t.notes = s.notes
                                      /\ t.up = UpIn(s)
         /\ \A s \in storage : \E t \in Under(phaseId, storage) : t.id = s.id /\ t.status = s.status /\ t.notes = s.notes
                                      /\ t.up = UpIn(s)
  <1>1. /\ phaseId <= id
        /\ Chain(runner, phaseId, {phaseId})
        /\ \A s \in runner : s.id = phaseId => s.up = 0
        /\ Chain(storage, id, {})
        /\ \A s \in storage : phaseId < s.id
    BY DEF InPhase
  <1>2. PICK T : T = Under(phaseId, storage) /\ T = {Lifted(s, phaseId) : s \in storage}
    BY DEF Under, Lifted
  <1>3. \A s \in storage : s \in RStep /\ s.id \in 1 .. id /\ s.up < s.id /\ s.status # "none"
    BY <1>1 DEF Chain
  <1>4. ASSUME NEW s \in storage, NEW t, t = Lifted(s, phaseId)
        PROVE  /\ t \in RStep /\ s \in RStep
               /\ t.id = s.id /\ t.status = s.status /\ t.notes = s.notes /\ t.up = UpIn(s)
    BY <1>3, <1>4, FieldsOfLifted, ZenonT(30) DEF UpIn
  <1>5. \A t \in T : \E s \in storage : /\ t = Lifted(s, phaseId) /\ t \in RStep /\ s \in RStep
                                      /\ t.id = s.id /\ t.status = s.status /\ t.notes = s.notes
                                      /\ t.up = UpIn(s)
    BY <1>2, <1>4
  <1>6. \A s \in storage : \E t \in T : t.id = s.id /\ t.status = s.status /\ t.notes = s.notes
                                        /\ t.up = UpIn(s)
    BY <1>2, <1>4
  <1>7. \A t \in T : /\ t \in RStep /\ t.id \in 1 .. id /\ t.up < t.id /\ t.status # "none" /\ phaseId < t.id
    <2> SUFFICES ASSUME NEW t \in T
                 PROVE  t \in RStep /\ t.id \in 1 .. id /\ t.up < t.id /\ t.status # "none" /\ phaseId < t.id
      OBVIOUS
    <2>1. PICK s \in storage : /\ t \in RStep /\ t.id = s.id /\ t.status = s.status /\ t.up = UpIn(s)
      BY <1>5
    <2>2. UpIn(s) < s.id
      BY <1>1, <1>3 DEF UpIn
    <2> QED
      BY <1>1, <1>3, <2>1, <2>2
  <1>8. \A t, u \in T : t.id = u.id => t = u
    <2> SUFFICES ASSUME NEW t \in T, NEW u \in T, t.id = u.id
                 PROVE  t = u
      OBVIOUS
    <2>1. PICK s \in storage : t = Lifted(s, phaseId) /\ t.id = s.id
      BY <1>5
    <2>2. PICK r \in storage : u = Lifted(r, phaseId) /\ u.id = r.id
      BY <1>5
    <2>3. s = r
      BY <1>1, <2>1, <2>2 DEF Chain
    <2> QED
      BY <2>1, <2>2, <2>3
  <1>9. \A s \in runner : /\ s \in RStep /\ s.id \in 1 .. phaseId /\ s.up < s.id
                          /\ s.status = "none" <=> s.id \in {phaseId}
    BY <1>1 DEF Chain
  <1>10. PICK A : A = runner \cup T /\ A = AllSteps
    BY <1>2 DEF AllSteps
  <1>11. \A s \in A : s.id = phaseId => s \in runner /\ s.up = 0
    BY <1>1, <1>7, <1>10
  <1>12. Chain(A, id, {phaseId})
    <2>0. \A i \in 1 .. phaseId : i \in 1 .. id
      BY <1>1
    <2>1. A \subseteq RStep /\ \A s \in A : s.id \in 1 .. id /\ s.up < s.id
      BY <1>7, <1>9, <1>10, <2>0
    <2>2. \A s \in runner, t \in T : s.id # t.id
      BY <1>7, <1>9
    <2>3. \A s, t \in runner : s.id = t.id => s = t
      BY <1>1 DEF Chain
    <2>4. \A s, t \in A : s.id = t.id => s = t
      BY <1>8, <1>10, <2>2, <2>3
    <2>5. \A h \in {phaseId} : \E s \in A : s.id = h
      BY <1>1, <1>10 DEF Chain
    <2>6. \A s \in A : s.status = "none" <=> s.id \in {phaseId}
      BY <1>7, <1>9, <1>10
    <2>7. \A s \in A : s.id \in {phaseId} =>
            (s.up = 0 \/ s.up \in {phaseId}) /\ \A h \in {phaseId} : h < s.id => h <= s.up
      BY <1>11
    <2> QED
      BY <2>1, <2>4, <2>5, <2>6, <2>7 DEF Chain
  <1> QED
    BY <1>2, <1>5, <1>6, <1>10, <1>11, <1>12

LEMMA LogsWantedIds ==
  ASSUME NEW p, NEW i \in Nat, NEW hosts \in Nat, NEW fails, NEW t \in LogsWanted(p, i, hosts, fails)
  PROVE  t.id \in i .. i + hosts
  <1>1. CASE t = Step(i, p, "passed", IF fails THEN 0 ELSE 1)
    BY <1>1 DEF Step
  <1>2. CASE t # Step(i, p, "passed", IF fails THEN 0 ELSE 1)
    <2>1. PICK h \in 1 .. hosts : t = Step(i + h, i, IF fails /\ h = hosts THEN "failed" ELSE "passed", 1)
      BY <1>2 DEF LogsWanted
    <2> QED
      BY <2>1 DEF Step
  <1> QED
    BY <1>1, <1>2

\* Whether the logs are saved before the steps are moved or after, the report has the same.
LEMMA EndBodyMakes ==
  ASSUME RInv, NEW how, NEW hosts \in Nat, NEW fails \in BOOLEAN, EndBody(how, hosts, fails)
  PROVE  \E n \in Nat, status \in Ended : \E LW :
           /\ id' = n /\ id <= n
           /\ runner' = End(AllSteps \cup LW, phaseId, status)
           /\ want' = End(want \cup LW, phaseId, status)
           /\ Chain(AllSteps \cup LW, n, {phaseId})
           /\ \A t \in LW : id < t.id
  <1> DEFINE saves == phase = "Execution" \/ how = "raises"
             withLogs(steps) == IF saves THEN Logs(steps, id + 1, hosts, fails) ELSE steps
             ends == IF how = "returns" \/ (how = "raises" /\ phase = "teardown") THEN "passed" ELSE "failed"
  <1>1. /\ InBody /\ stack = << >>
        /\ runner' = End(IF phase = "Execution" THEN withLogs(Moved(runner)) ELSE Moved(withLogs(runner)), phaseId, ends)
        /\ id' = id + IF saves THEN 1 + hosts ELSE 0
        /\ want' = End(want \cup (IF saves THEN LogsWanted(phaseId, id + 1, hosts, fails) ELSE {}), phaseId, ends)
    BY DEF EndBody
  <1>2. PICK status \in Ended : status = ends
    BY DEF Ended
  <1>3. id \in Nat /\ phaseId \in Nat /\ InPhase /\ Held = {}
    BY <1>1, InBodyIs DEF Held
  <1>4. /\ phaseId <= id
        /\ Chain(runner, phaseId, {phaseId})
        /\ \A s \in runner : s.id = phaseId => s.up = 0
    BY <1>3 DEF InPhase
  <1>5. Chain(AllSteps, id, {phaseId})
    BY <1>3, AllStepsIs
  <1>6. FirstOpen(runner) = phaseId /\ Moved(runner) = AllSteps
    <2>1. FirstOpen(runner) = phaseId
      BY <1>3, <1>4, FirstOpenIs
    <2> QED
      BY <2>1 DEF Moved, AllSteps
  <1>7. CASE ~saves
    <2>1. id' = id + 0 /\ id' = id
      BY <1>1, <1>3, <1>7
    <2>2. runner' = End(AllSteps \cup {}, phaseId, status)
      BY <1>1, <1>2, <1>6, <1>7
    <2>3. want' = End(want \cup {}, phaseId, status)
      BY <1>1, <1>2, <1>7
    <2>4. Chain(AllSteps \cup {}, id, {phaseId})
      <3>1. AllSteps \cup {} = AllSteps
        OBVIOUS
      <3> QED
        BY <1>5, <3>1
    <2>5. PICK LW : LW = {}
      OBVIOUS
    <2>6. PICK n \in Nat : n = id
      BY <1>3
    <2>7. /\ id' = n /\ id <= n
          /\ runner' = End(AllSteps \cup LW, phaseId, status)
          /\ want' = End(want \cup LW, phaseId, status)
          /\ Chain(AllSteps \cup LW, n, {phaseId})
          /\ \A t \in LW : id < t.id
      BY <1>3, <2>1, <2>2, <2>3, <2>4, <2>5, <2>6
    <2> QED
      BY <2>7
  <1>8. CASE saves
    <2>1. PICK i \in Nat : i = id + 1
      BY <1>3
    <2>2. id < i /\ phaseId < i
      BY <1>3, <1>4, <2>1
    <2>3. PICK LW : LW = LogsWanted(phaseId, i, hosts, fails)
      OBVIOUS
    <2>4. PICK n \in Nat : n = i + hosts
      BY <2>1
    <2>5. id' = n /\ id <= n
      BY <1>1, <1>3, <1>8, <2>1, <2>4
    <2>6. PICK p \in Nat : p = phaseId
      BY <1>3
    <2>7. PICK H : H = {phaseId}
      OBVIOUS
    <2>8. Tip(H, p)
      BY <1>3, <2>6, <2>7 DEF Tip
    <2>9. Logs(AllSteps, i, hosts, fails) = AllSteps \cup LW /\ Chain(AllSteps \cup LW, n, {phaseId})
      <3>1. Chain(AllSteps, id, H)
        BY <1>5, <2>7
      <3>2. /\ Logs(AllSteps, i, hosts, fails) = AllSteps \cup LogsWanted(p, i, hosts, fails)
            /\ Chain(Logs(AllSteps, i, hosts, fails), i + hosts, H)
        BY <1>3, <2>2, <2>8, <3>1, LogsAre
      <3> QED
        BY <2>3, <2>4, <2>6, <2>7, <3>2
    <2>10. Logs(runner, i, hosts, fails) = runner \cup LW /\ Chain(runner \cup LW, n, {phaseId})
      <3>1. Chain(runner, p, H)
        BY <1>4, <2>6, <2>7
      <3>2. p < i
        BY <2>2, <2>6
      <3>3. /\ Logs(runner, i, hosts, fails) = runner \cup LogsWanted(p, i, hosts, fails)
            /\ Chain(Logs(runner, i, hosts, fails), i + hosts, H)
        BY <2>8, <3>1, <3>2, LogsAre
      <3> QED
        BY <2>3, <2>4, <2>6, <2>7, <3>3
    <2>11. \A t \in LW : t.id \in i .. n
      BY <2>3, <2>4, LogsWantedIds
    <2>12. \A t \in LW : id < t.id /\ phaseId < t.id
      BY <1>3, <2>2, <2>11
    <2>13. Moved(runner \cup LW) = AllSteps \cup LW
      <3>1. \A s \in runner \cup LW : s.id = phaseId => s.up = 0
        BY <1>3, <1>4, <2>12
      <3>2. FirstOpen(runner \cup LW) = phaseId
        BY <1>3, <2>10, <3>1, FirstOpenIs
      <3> QED
        BY <3>2 DEF Moved, AllSteps
    <2>14. runner' = End(AllSteps \cup LW, phaseId, status)
      <3>1. CASE phase = "Execution"
        <4>1. withLogs(Moved(runner)) = AllSteps \cup LW
          BY <1>6, <1>8, <2>1, <2>9
        <4> QED
          BY <1>1, <1>2, <3>1, <4>1
      <3>2. CASE phase # "Execution"
        <4>1. withLogs(runner) = runner \cup LW
          BY <1>8, <2>1, <2>10
        <4> QED
          BY <1>1, <1>2, <2>13, <3>2, <4>1
      <3> QED
        BY <3>1, <3>2
    <2>15. want' = End(want \cup LW, phaseId, status)
      BY <1>1, <1>2, <1>8, <2>1, <2>3
    <2> QED
      BY <2>5, <2>9, <2>12, <2>14, <2>15
  <1> QED
    BY <1>7, <1>8

LEMMA EndBodyKeeps ==
  ASSUME RInv, NEW how, NEW hosts \in Nat, NEW fails \in BOOLEAN, EndBody(how, hosts, fails)
  PROVE  RInv'
  <1>0. PICK n \in Nat, status \in Ended : \E LW :
           /\ id' = n /\ id <= n
           /\ runner' = End(AllSteps \cup LW, phaseId, status)
           /\ want' = End(want \cup LW, phaseId, status)
           /\ Chain(AllSteps \cup LW, n, {phaseId})
           /\ \A t \in LW : id < t.id
    BY EndBodyMakes
  <1>1. PICK LW :
           /\ id' = n /\ id <= n
           /\ runner' = End(AllSteps \cup LW, phaseId, status)
           /\ want' = End(want \cup LW, phaseId, status)
           /\ Chain(AllSteps \cup LW, n, {phaseId})
           /\ \A t \in LW : id < t.id
    BY <1>0
  <1>2. /\ InBody /\ stack = << >> /\ stack' = stack /\ phaseId' = phaseId /\ storage' = {}
        /\ phase' \in {"begin", "reported", "before Execution", "before teardown"}
    <2>1. /\ InBody /\ stack = << >> /\ UNCHANGED <<phaseId, stack, calls>> /\ storage' = Left
      BY DEF EndBody
    <2>4. stack' = stack /\ phaseId' = phaseId
      BY <2>1
    <2>5. storage' = {}
      BY <2>1 DEF Left
    <2>2. PICK status0 : phase' = CASE phase = "teardown" /\ status0 = "failed" -> "begin"
                                    [] phase = "teardown"                     -> "reported"
                                    [] phase = "setup" /\ status0 = "passed"   -> "before Execution"
                                    [] OTHER                                  -> "before teardown"
      BY DEF EndBody
    <2>3. phase' \in {"begin", "reported", "before Execution", "before teardown"}
      BY <2>2
    <2> QED
      BY <2>1, <2>3, <2>4, <2>5
  <1>3. /\ id \in Nat /\ phaseId \in Nat /\ InPhase /\ Wanted /\ Matched /\ Made = storage /\ Held = {}
    <2>1. stack = << >>
      BY <1>2
    <2>2. Held = {}
      BY <2>1 DEF Held
    <2> QED
      BY <1>2, <2>2, InBodyIs
  <1>4. PICK A : A = AllSteps \cup LW
    OBVIOUS
  <1>5. PICK B : B = want \cup LW
    OBVIOUS
  <1>6. status \in Statuses
    BY DEF Statuses
  <1>7. \A s \in A : s \in RStep /\ s.id \in 1 .. n
    BY <1>1, <1>4 DEF Chain
  <1>8. \A s, t \in A : s.id = t.id => s = t
    BY <1>1, <1>4 DEF Chain
  <1>9. \A w \in B : w \in RStep /\ w.id \in 1 .. n
    <2>1. \A w \in want : w \in RStep /\ w.id \in 1 .. n
      BY <1>1, <1>3 DEF Wanted
    <2> QED
      BY <1>4, <1>5, <1>7, <2>1
  <1>10. \A v, w \in B : v.id = w.id => v = w
    <2>1. \A v, w \in LW : v.id = w.id => v = w
      BY <1>4, <1>8
    <2>2. \A v \in want, w \in LW : v.id # w.id
      BY <1>1, <1>3, <1>4, <1>7 DEF Wanted
    <2> QED
      BY <1>3, <1>5, <2>1, <2>2 DEF Wanted
  <1>11. \A w \in B : \E s \in A : Same(w, s, s.up)
    <2>1. ASSUME NEW w \in want
          PROVE  \E s \in A : Same(w, s, s.up)
      <3>1. CASE \E s \in runner : Same(w, s, s.up)
        BY <1>4, <3>1 DEF AllSteps
      <3>2. CASE \E s \in storage : Same(w, s, UpIn(s))
        <4>1. PICK s \in storage : Same(w, s, UpIn(s))
          BY <3>2
        <4>2. PICK t \in Under(phaseId, storage) : t.id = s.id /\ t.status = s.status /\ t.notes = s.notes
                                                   /\ t.up = UpIn(s)
          BY <1>3, AllStepsIs
        <4>3. Same(w, t, t.up)
          BY <4>1, <4>2 DEF Same
        <4> QED
          BY <1>4, <4>3 DEF AllSteps
      <3> QED
        BY <1>3, <3>1, <3>2 DEF Matched
    <2>2. ASSUME NEW w \in LW
          PROVE  \E s \in A : Same(w, s, s.up)
      BY <1>4 DEF Same
    <2> QED
      BY <1>5, <2>1, <2>2
  <1>12. \A s \in A : \E w \in B : w.id = s.id
    <2>1. \A s \in runner \cup storage : \E w \in want : w.id = s.id
      BY <1>3 DEF Matched
    <2>2. \A t \in Under(phaseId, storage) : \E s \in storage : t.id = s.id
      BY <1>3, AllStepsIs
    <2>3. \A t \in Under(phaseId, storage) : \E w \in want : w.id = t.id
      BY <2>1, <2>2
    <2> QED
      BY <1>4, <1>5, <2>1, <2>3 DEF AllSteps
  <1>13. PICK f : f = [w \in B |-> Ends(w, phaseId, status)]
    OBVIOUS
  <1>14. PICK g : g = [s \in A |-> Ends(s, phaseId, status)]
    OBVIOUS
  <1>15. \A w \in B : /\ f[w] \in RStep /\ f[w].id = w.id /\ f[w].up = w.up /\ f[w].notes = w.notes
                      /\ w.id = phaseId => f[w].status = status
                      /\ w.id # phaseId => f[w] = w
    BY <1>6, <1>9, <1>13, FieldsOfEnded
  <1>16. \A s \in A : /\ g[s] \in RStep /\ g[s].id = s.id /\ g[s].up = s.up /\ g[s].notes = s.notes
                      /\ s.id = phaseId => g[s].status = status
                      /\ s.id # phaseId => g[s] = s
    BY <1>6, <1>7, <1>14, FieldsOfEnded
  <1>17. want' = {f[w] : w \in B}
    BY <1>1, <1>5, <1>13 DEF End, Ends
  <1>18. runner' = {g[s] : s \in A}
    BY <1>1, <1>4, <1>14 DEF End, Ends
  <1>19. Wanted'
    <2>1. \A w \in want' : w \in RStep /\ w.id \in 1 .. n
      BY <1>9, <1>15, <1>17
    <2>2. \A v, w \in want' : v.id = w.id => v = w
      BY <1>10, <1>15, <1>17
    <2> QED
      BY <1>1, <2>1, <2>2 DEF Wanted
  <1>20. ~InBody' /\ Made' = {}
    BY <1>2 DEF InBody, Phases, Made
  <1>21. Matched'
    <2>1. ASSUME NEW w \in B
          PROVE  \E t \in runner' : Same(f[w], t, t.up)
      <3>1. PICK s \in A : Same(w, s, s.up)
        BY <1>11
      <3>2. Same(f[w], g[s], g[s].up)
        BY <1>15, <1>16, <3>1 DEF Same
      <3> QED
        BY <1>18, <3>2
    <2>2. \A w \in want' : \E t \in runner' : Same(w, t, t.up)
      BY <1>17, <2>1
    <2>3. ASSUME NEW s \in A
          PROVE  \E w \in want' : w.id = g[s].id
      BY <1>12, <1>15, <1>16, <1>17
    <2>4. \A t \in runner' : \E w \in want' : w.id = t.id
      BY <1>18, <2>3
    <2> QED
      BY <1>20, <2>2, <2>4 DEF Matched, Same
  <1>22. Chain(runner', id', {})
    <2>1. PICK H : H = {phaseId}
      OBVIOUS
    <2>2. phaseId \in H /\ Tip(H, phaseId) /\ H \ {phaseId} = {}
      BY <1>3, <2>1 DEF Tip
    <2>3. Chain(A, n, H)
      BY <1>1, <1>4, <2>1
    <2>4. Chain(End(A, phaseId, status), n, H \ {phaseId})
      BY <2>2, <2>3, StepEnded
    <2> QED
      BY <1>1, <1>4, <2>2, <2>4
  <1>23. phase' \notin Phases /\ (phase' \in Waits => storage' = {})
         /\ phase' \in Phases \cup Waits \cup {"begin", "reported"}
    BY <1>2 DEF Phases, Waits
  <1> QED
    BY <1>1, <1>2, <1>3, <1>19, <1>20, <1>21, <1>22, <1>23 DEF RInv

LEMMA StepBetweenKeeps ==
  ASSUME RInv, StepBetween
  PROVE  RInv'
  <1>1. phase = "reported" /\ id' = id + 1 /\ UNCHANGED <<phase, runner, phaseId, stack, want>>
    BY DEF StepBetween
  <1>2. /\ id \in Nat /\ phaseId \in Nat /\ stack \in Seq(Nat) /\ ~InBody /\ stack = << >>
        /\ Chain(runner, id, {}) /\ Wanted /\ Matched /\ phase \notin Waits
    BY <1>1 DEF RInv, InBody, Phases, Waits
  <1>3. PICK k \in Nat : k = id + 1
    BY <1>2
  <1>4. id <= k /\ \A i \in 1 .. id : i \in 1 .. k
    BY <1>2, <1>3
  <1>5. Chain(runner', id', {})
    BY <1>1, <1>2, <1>3, <1>4, ChainUp
  <1>6. Wanted'
    BY <1>1, <1>2, <1>3, <1>4 DEF Wanted
  <1>7. ~InBody' /\ Made = {} /\ Made' = {}
    BY <1>1, <1>2 DEF InBody, Made
  <1>8. Matched'
    BY <1>1, <1>2, <1>7 DEF Matched, Same
  <1> QED
    BY <1>1, <1>2, <1>3, <1>5, <1>6, <1>7, <1>8 DEF RInv

LEMMA NextTestKeeps ==
  ASSUME RInv, NextTest
  PROVE  RInv'
  <1>1. phase = "reported" /\ phase' = "begin" /\ UNCHANGED <<runner, storage, id, phaseId, stack, calls, want>>
    BY DEF NextTest
  <1>2. ~InBody /\ ~InBody'
    BY <1>1 DEF InBody, Phases
  <1> QED
    BY <1>1, <1>2 DEF RInv, Waits

LEMMA UpToIsNat ==
  ASSUME NEW n \in Nat, NEW h \in 0 .. n
  PROVE  h \in Nat
  OBVIOUS

LEMMA ReportingKeeps ==
  ASSUME RInv, Reporting
  PROVE  RInv'
  <1>1. CASE OfReport(StartTest)
    BY <1>1, StartTestKeeps DEF OfReport
  <1>2. CASE \E name \in Phases : OfReport(EnterPhase(name))
    BY <1>2, EnterKeeps DEF OfReport
  <1>3. CASE \E linked \in BOOLEAN : OfReport(Call(linked))
    BY <1>3, CallKeeps DEF OfReport
  <1>4. CASE OfReport(AddAttachment)
    BY <1>4, AttachmentKeeps DEF OfReport
  <1>5. CASE \E outcome \in Outcomes : OfReport(Return(outcome))
    BY <1>5, ReturnKeeps DEF OfReport
  <1>6. CASE \E how \in {"returns", "raises", "hook raises"}, hosts \in 0 .. MaxLogHosts, fails \in BOOLEAN :
               OfReport(EndBody(how, hosts, fails))
    <2>1. PICK how \in {"returns", "raises", "hook raises"}, hosts \in 0 .. MaxLogHosts, fails \in BOOLEAN :
            OfReport(EndBody(how, hosts, fails))
      BY <1>6
    <2>3. MaxLogHosts \in Nat
      BY StepsAssumption
    <2>4. hosts \in 0 .. MaxLogHosts
      BY <2>1
    <2>2. hosts \in Nat
      BY <2>3, <2>4, UpToIsNat
    <2> QED
      BY <2>1, <2>2, EndBodyKeeps DEF OfReport
  <1>7. CASE OfReport(StepBetween) \/ OfReport(NextTest)
    BY <1>7, StepBetweenKeeps, NextTestKeeps DEF OfReport
  <1> QED
    BY <1>1, <1>2, <1>3, <1>4, <1>5, <1>6, <1>7 DEF Reporting

LEMMA RInvStays ==
  ASSUME RInv, UNCHANGED reportVars
  PROVE  RInv'
  <1>1. UNCHANGED <<phase, runner, storage, id, phaseId, stack, want>>
    BY DEF reportVars
  <1>2. InBody' = InBody /\ Held' = Held /\ Increasing' = Increasing /\ Made' = Made
    BY <1>1 DEF InBody, Held, Increasing, Made
  <1>3. InPhase' = InPhase /\ Wanted' = Wanted
    BY <1>1, <1>2 DEF InPhase, Wanted
  <1>4. Matched' = Matched
    BY <1>1, <1>2 DEF Matched, UpIn, Same
  <1> QED
    BY <1>1, <1>2, <1>3, <1>4 DEF RInv

LEMMA RInvInit == Init => RInv
  <1> SUFFICES ASSUME Init PROVE RInv
    OBVIOUS
  <1>1. ReportInit
    BY DEF Init
  <1>2. phase = "begin" /\ id = 0 /\ phaseId = 0 /\ stack = << >>
    BY <1>1 DEF ReportInit
  <1>3. ~InBody /\ phase \notin Waits
    BY <1>2 DEF InBody, Phases, Waits
  <1> QED
    BY <1>2, <1>3 DEF RInv

LEMMA RInvNext == RInv /\ [Next]_vars => RInv'
  <1> SUFFICES ASSUME RInv, [Next]_vars
               PROVE  RInv'
    OBVIOUS
  <1>1. CASE Reporting
    BY <1>1, ReportingKeeps
  <1>2. CASE Collecting \/ Analysis \/ Scanning \/ Killing
    <2>1. UNCHANGED reportVars
      BY <1>2 DEF Collecting, Analysis, Scanning, Killing, OfCollection, OfExchanges, OfFailures, OfKiller
    <2> QED
      BY <2>1, RInvStays
  <1>3. CASE UNCHANGED vars
    BY <1>3, RInvStays DEF vars
  <1> QED
    BY <1>1, <1>2, <1>3 DEF Next

LEMMA AsManyAsWanted ==
  ASSUME NEW n \in Nat, Chain(runner, n, {}),
         \A v \in want : v.id \in 1 .. n, \A v, w \in want : v.id = w.id => v = w,
         \A w \in want : \E s \in runner : w.id = s.id,
         \A s \in runner : \E w \in want : w.id = s.id
  PROVE  Cardinality(runner) = Cardinality(want)
  <1>1. \A s, t \in runner : s.id = t.id => s = t
    BY DEF Chain
  <1>2. PICK f : f = [w \in want |-> w.id]
    OBVIOUS
  <1>3. IsFiniteSet(want)
    <2>1. f \in Injection(want, 1 .. n)
      BY <1>2 DEF Injection, IsInjective
    <2> QED
      BY <2>1, FS_Injection, FS_Interval
  <1>4. PICK g : g = [w \in want |-> CHOOSE s \in runner : s.id = w.id]
    OBVIOUS
  <1>5. \A w \in want : g[w] \in runner /\ g[w].id = w.id
    BY <1>4
  <1>6. g \in Bijection(want, runner)
    <2>1. g \in [want -> runner]
      BY <1>4, <1>5
    <2>2. \A v, w \in want : g[v] = g[w] => v = w
      BY <1>5
    <2>3. \A s \in runner : \E w \in want : g[w] = s
      BY <1>1, <1>5
    <2> QED
      BY <2>1, <2>2, <2>3 DEF Bijection, Injection, Surjection, IsInjective
  <1> QED
    BY <1>3, <1>6, FS_Bijection DEF ExistsBijection

LEMMA ReportedIs == RInv => ReportedAsCalled
  <1> SUFFICES ASSUME RInv, phase = "reported"
               PROVE  /\ Cardinality(runner) = Cardinality(want)
                      /\ \A w \in want : \E s \in runner :
                           /\ s.id = w.id /\ s.up = w.up /\ s.notes = w.notes
                           /\ s.status = w.status \/ w.status = "interrupted"
    BY DEF ReportedAsCalled
  <1>1. id \in Nat /\ Chain(runner, id, {}) /\ Wanted /\ Matched /\ Made = {}
    BY DEF RInv, InBody, Phases, Made
  <1>2. \A w \in want : \E s \in runner : Same(w, s, s.up)
    BY <1>1 DEF Matched
  <1>3. \A s \in runner : \E w \in want : w.id = s.id
    BY <1>1 DEF Matched
  <1>4. \A w \in want : w.id \in 1 .. id
    BY <1>1 DEF Wanted
  <1>5. \A v, w \in want : v.id = w.id => v = w
    BY <1>1 DEF Wanted
  <1>6. \A w \in want : \E s \in runner : w.id = s.id
    BY <1>2 DEF Same
  <1>7. Cardinality(runner) = Cardinality(want)
    BY <1>1, <1>3, <1>4, <1>5, <1>6, AsManyAsWanted
  <1> QED
    BY <1>2, <1>7 DEF Same

\* The report that after_test_method gets has every call of a method with a step once, under
\* the step of its caller or of the phase it was made in, with its own status and its
\* attachments, and the logs under the phase they were saved in (steps.py and _run_test).
THEOREM StepsAreReported == Spec => []ReportedAsCalled
  <1> QED
    BY ReportedIs, RInvInit, RInvNext, PTL DEF Spec

-----------------------------------------------------------------------------
\* The analysis of the exchanges.
Group(v) == {w \in Vers : First(w) = First(v)}

\* The version with which a node enters the group of v.
Entry(n, v) == IF joinedAt[n] <= First(v) THEN First(v) ELSE joinedAt[n]

\* What a node has written follows from the exchange it is in and the last version it has seen.
InGroup(n) ==
  LET cur == at[n].cur  ver == at[n].ver  join == joinedAt[n] IN
  IF cur = 0 THEN ver = join - 1 \/ (join <= ver /\ ver = Latest(ver))
  ELSE join <= ver /\ cur = Entry(n, ver)

Written(n) ==
  LET cur == at[n].cur  ver == at[n].ver IN
  /\ \A w \in Vers : logs.started[n][w] # 0 <=> w <= ver /\ Entry(n, w) = w
  /\ logs.merged[n] = {<<Entry(n, w), w>> : w \in {u \in Vers : u <= ver /\ Entry(n, u) < u}}
  /\ \A w \in Vers : logs.finished[n][w] # 0 <=>
       w = Latest(w) /\ joinedAt[n] <= w /\ w <= ver /\ (cur # 0 => w < ver)
  /\ \A w \in Vers : logs.finished[n][w] # 0 => logs.started[n][Entry(n, w)] <= logs.finished[n][w]

\* A line that a grep has not found was written after the first of them.
Copied(line, copy) == copy = line \/ (copy = 0 /\ since < line)

Read(n) ==
  /\ reads >= 1 => \A w \in Vers : Copied(logs.started[n][w], found.started[n][w])
  /\ reads >= 2 => \A w \in Vers : Copied(logs.finished[n][w], found.finished[n][w])
  /\ reads >= 3 => found.merged[n] = logs.merged[n]

XTyped ==
  /\ joinedAt \in [XNodes -> Vers]
  /\ at \in [XNodes -> [cur : Nat, ver : 0 .. LastVer]]
  /\ clock \in Nat /\ since \in 0 .. clock /\ reads \in 0 .. 3
  /\ logs \in Lines /\ found \in Lines

Grouped ==
  /\ groupOf \in [Vers -> Vers]
  /\ \A v \in Vers : groupOf[v] = v \/ (v > 1 /\ groupOf[v] = groupOf[v - 1])

Oldest == joinedAt \in [XNodes -> Vers] /\ \E n \in XNodes : joinedAt[n] = 1

XInv == XTyped /\ Grouped /\ Oldest /\ \A n \in XNodes : InGroup(n) /\ Written(n) /\ Read(n)

LEMMA VersAre == Vers = 1 .. LastVer /\ LastVer \in Nat /\ LastVer # 0
  BY ExchangesAssumption DEF Vers

LEMMA GroupsAre ==
  ASSUME Grouped
  PROVE  /\ \A v \in Vers : First(v) \in Vers /\ First(v) <= v /\ First(First(v)) = First(v)
         /\ \A u, v \in Vers : u <= v => First(u) <= First(v)
  <1> DEFINE Good(k) == k = 0 \/ /\ First(k) \in Vers /\ First(k) <= k /\ First(First(k)) = First(k)
                                 /\ \A u \in 1 .. k : First(u) <= First(k)
             T == {k \in 0 .. LastVer : Good(k)}
  <1>1. 0 \in T
    BY VersAre
  <1>2. ASSUME NEW k \in 1 .. LastVer, Good(k - 1)
        PROVE  Good(k)
    <2>1. k \in Vers /\ First(k) \in Vers /\ (First(k) = k \/ (k > 1 /\ First(k) = First(k - 1)))
      BY VersAre DEF Grouped, First
    <2>2. \A u \in 1 .. k : u = k \/ u \in 1 .. k - 1
      BY VersAre
    <2>3. CASE First(k) = k
      <3>1. ASSUME NEW u \in 1 .. k - 1
            PROVE  First(u) <= k
        <4>1. k - 1 # 0 /\ u \in Vers /\ First(u) \in Vers
          BY VersAre DEF Grouped, First
        <4>2. First(u) <= First(k - 1) /\ First(k - 1) <= k - 1 /\ First(k - 1) \in Vers
          BY <1>2, <4>1
        <4> QED
          BY <4>1, <4>2, VersAre
      <3>2. k <= k
        BY VersAre
      <3>3. \A u \in 1 .. k : First(u) <= First(k)
        BY <2>2, <2>3, <3>1, <3>2
      <3> QED
        BY <2>1, <2>3, <3>2, <3>3
    <2>4. CASE k > 1 /\ First(k) = First(k - 1)
      <3>1. k - 1 # 0
        BY <2>4, VersAre
      <3>2. /\ First(k - 1) <= k - 1 /\ First(First(k - 1)) = First(k - 1)
            /\ \A u \in 1 .. k - 1 : First(u) <= First(k - 1)
        BY <1>2, <3>1
      <3>3. First(k) <= k /\ First(k) <= First(k)
        BY <2>1, <2>4, <3>2, VersAre
      <3>4. \A u \in 1 .. k : First(u) <= First(k)
        BY <2>2, <2>4, <3>2, <3>3
      <3> QED
        BY <2>1, <2>4, <3>2, <3>3, <3>4
    <2> QED
      BY <2>1, <2>3, <2>4
  <1>3. \A k \in 1 .. LastVer : k - 1 \in T => k \in T
    BY <1>2
  <1> HIDE DEF T
  <1>4. \A k \in 0 .. LastVer : k \in T
    BY <1>1, <1>3, VersAre, CountsUp
  <1>5. \A k \in Vers : k \in 0 .. LastVer /\ k # 0
    BY VersAre
  <1>6. \A k \in Vers : Good(k)
    BY <1>4, <1>5 DEF T
  <1>7. \A u, v \in Vers : u <= v => u \in 1 .. v
    BY VersAre
  <1> QED
    BY <1>5, <1>6, <1>7

LEMMA LatestIs ==
  ASSUME Grouped, NEW v \in Vers
  PROVE  /\ Latest(v) \in Vers /\ v <= Latest(v) /\ First(Latest(v)) = First(v)
         /\ \A u \in Vers : First(u) = First(v) => u <= Latest(v)
  <1>1. PICK x \in {LastVer - u : u \in Group(v)} : \A y \in {LastVer - u : u \in Group(v)} : x <= y
    <2>1. {LastVer - u : u \in Group(v)} \in SUBSET Nat /\ {LastVer - u : u \in Group(v)} # {}
      BY VersAre DEF Group
    <2> QED
      BY <2>1, LeastExists
  <1>2. PICK l \in Group(v) : x = LastVer - l
    OBVIOUS
  <1>3. \A u \in Group(v) : u <= l
    <2> SUFFICES ASSUME NEW u \in Group(v) PROVE u <= l
      OBVIOUS
    <2>1. LastVer - l <= LastVer - u
      BY <1>1, <1>2
    <2>2. u \in Vers /\ l \in Vers
      BY DEF Group
    <2> QED
      BY <2>1, <2>2, VersAre
  <1>4. l \in Vers /\ First(l) = First(v) /\ \A u \in Vers : First(u) = First(v) => u <= l
    BY <1>3 DEF Group
  <1>5. \E w \in Vers : First(w) = First(v) /\ \A u \in Vers : First(u) = First(v) => u <= w
    BY <1>4
  <1>6. /\ Latest(v) \in Vers /\ First(Latest(v)) = First(v)
        /\ \A u \in Vers : First(u) = First(v) => u <= Latest(v)
    BY <1>5 DEF Latest
  <1> QED
    BY <1>6

LEMMA SameLatest ==
  ASSUME Grouped, NEW u \in Vers, NEW v \in Vers, First(u) = First(v)
  PROVE  Latest(u) = Latest(v)
  <1>1. Latest(u) \in Vers /\ Latest(v) \in Vers /\ Latest(u) <= Latest(v) /\ Latest(v) <= Latest(u)
    BY LatestIs
  <1> QED
    BY <1>1, VersAre

\* After the last version of a group another one begins.
LEMMA NextGroup ==
  ASSUME Grouped, NEW v \in Vers, v = Latest(v), v + 1 \in Vers
  PROVE  First(v + 1) = v + 1
  <1>1. First(v + 1) = v + 1 \/ First(v + 1) = First(v)
    <2>1. (v + 1) - 1 = v
      BY VersAre
    <2> QED
      BY <2>1 DEF Grouped, First
  <1>2. ASSUME First(v + 1) = First(v)
        PROVE  FALSE
    <2>1. v + 1 <= v
      BY <1>2, LatestIs
    <2> QED
      BY <2>1, VersAre
  <1> QED
    BY <1>1, <1>2

LEMMA Between ==
  ASSUME Grouped, NEW u \in Vers, NEW v \in Vers
  PROVE  First(u) = First(v) <=> First(v) <= u /\ u <= Latest(v)
  <1>1. ASSUME First(u) = First(v)
        PROVE  First(v) <= u /\ u <= Latest(v)
    BY <1>1, GroupsAre, LatestIs
  <1>2. ASSUME First(v) <= u, u <= Latest(v)
        PROVE  First(u) = First(v)
    <2>1. First(v) \in Vers /\ Latest(v) \in Vers /\ First(First(v)) = First(v) /\ First(Latest(v)) = First(v)
      BY GroupsAre, LatestIs
    <2>2. First(First(v)) <= First(u) /\ First(u) <= First(Latest(v)) /\ First(u) \in Vers
      BY <1>2, <2>1, GroupsAre
    <2> QED
      BY <2>1, <2>2, VersAre
  <1> QED
    BY <1>1, <1>2

LEMMA EntryIs ==
  ASSUME Grouped, Oldest, NEW n \in XNodes, NEW w \in Vers
  PROVE  /\ Entry(n, w) \in Vers /\ joinedAt[n] \in Vers
         /\ joinedAt[n] <= w => /\ Entry(n, w) <= w /\ First(Entry(n, w)) = First(w) /\ joinedAt[n] <= Entry(n, w)
                                /\ Entry(n, Entry(n, w)) = Entry(n, w)
         /\ ~(joinedAt[n] <= w) => w < Entry(n, w)
         /\ \A u \in Vers : First(u) = First(w) => Entry(n, u) = Entry(n, w)
  <1>1. joinedAt[n] \in Vers /\ First(w) \in Vers /\ First(w) <= w
    BY GroupsAre DEF Oldest
  <1>2. Entry(n, w) \in Vers
    BY <1>1 DEF Entry
  <1>3. ASSUME NEW u \in Vers, First(u) = First(w)
        PROVE  Entry(n, u) = Entry(n, w)
    BY <1>3 DEF Entry
  <1>4. ASSUME joinedAt[n] <= w
        PROVE  Entry(n, w) <= w /\ First(Entry(n, w)) = First(w) /\ joinedAt[n] <= Entry(n, w)
    <2>1. CASE joinedAt[n] <= First(w)
      BY <1>1, <2>1, GroupsAre DEF Entry
    <2>2. CASE ~(joinedAt[n] <= First(w))
      <3>1. Entry(n, w) = joinedAt[n]
        BY <2>2 DEF Entry
      <3>2. First(w) <= joinedAt[n] /\ joinedAt[n] <= Latest(w)
        <4>1. w <= Latest(w) /\ Latest(w) \in Vers
          BY LatestIs
        <4> QED
          BY <1>1, <1>4, <2>2, <4>1, VersAre
      <3>3. First(joinedAt[n]) = First(w)
        BY <1>1, <3>2, Between
      <3>4. joinedAt[n] <= joinedAt[n]
        BY <1>1, VersAre
      <3> QED
        BY <1>4, <3>1, <3>3, <3>4
    <2> QED
      BY <2>1, <2>2
  <1>5. ASSUME ~(joinedAt[n] <= w)
        PROVE  w < Entry(n, w)
    BY <1>1, <1>5, VersAre DEF Entry
  <1>6. joinedAt[n] <= w => Entry(n, Entry(n, w)) = Entry(n, w)
    <2> SUFFICES ASSUME joinedAt[n] <= w
                 PROVE  Entry(n, Entry(n, w)) = Entry(n, w)
      OBVIOUS
    <2>1. PICK u \in Vers : u = Entry(n, w)
      BY <1>2
    <2>2. First(u) = First(w)
      BY <1>4, <2>1
    <2>3. Entry(n, u) = Entry(n, w)
      BY <1>3, <2>2
    <2> QED
      BY <2>1, <2>3
  <1> QED
    BY <1>1, <1>2, <1>3, <1>4, <1>5, <1>6

-----------------------------------------------------------------------------
LEMMA LinesAre ==
  ASSUME NEW x \in Lines
  PROVE  \E a, b \in [XNodes -> [Vers -> 0 .. clock]] : \E c \in [XNodes -> SUBSET (Vers \X Vers)] :
           x = [started |-> a, finished |-> b, merged |-> c]
  BY DEF Lines

LEMMA TimesGrow ==
  ASSUME clock \in Nat, NEW a \in [XNodes -> [Vers -> 0 .. clock]]
  PROVE  a \in [XNodes -> [Vers -> 0 .. clock + 1]]
  <1>1. \A t \in 0 .. clock : t \in 0 .. clock + 1
    OBVIOUS
  <1> QED
    BY <1>1

LEMMA LinesGrow ==
  ASSUME clock \in Nat, clock' = clock + 1, found \in Lines, found' = found
  PROVE  found' \in Lines'
  <1>1. PICK a, b \in [XNodes -> [Vers -> 0 .. clock]] : \E c \in [XNodes -> SUBSET (Vers \X Vers)] :
           found = [started |-> a, finished |-> b, merged |-> c]
    BY LinesAre
  <1>2. a \in [XNodes -> [Vers -> 0 .. clock + 1]] /\ b \in [XNodes -> [Vers -> 0 .. clock + 1]]
    BY TimesGrow
  <1> QED
    BY <1>1, <1>2 DEF Lines

LEMMA InLines ==
  ASSUME clock' = clock + 1, NEW a \in [XNodes -> [Vers -> 0 .. clock + 1]],
         NEW b \in [XNodes -> [Vers -> 0 .. clock + 1]], NEW c \in [XNodes -> SUBSET (Vers \X Vers)],
         logs' = [started |-> a, finished |-> b, merged |-> c]
  PROVE  logs' \in Lines'
  BY DEF Lines

\* A time is written for a version.
Timed1(new, old, n, v) ==
  /\ new[n][v] = clock + 1
  /\ \A m \in XNodes : \A w \in Vers : m # n \/ w # v => new[m][w] = old[m][w]

LEMMA TimeWritten ==
  ASSUME clock \in Nat, NEW old \in [XNodes -> [Vers -> 0 .. clock]], NEW n \in XNodes, NEW v \in Vers,
         NEW new, new = [old EXCEPT ![n][v] = clock + 1]
  PROVE  new \in [XNodes -> [Vers -> 0 .. clock + 1]] /\ Timed1(new, old, n, v)
  <1>1. \A t \in 0 .. clock : t \in 0 .. clock + 1
    OBVIOUS
  <1>2. clock + 1 \in 0 .. clock + 1
    OBVIOUS
  <1>3. PICK row : row = [old[n] EXCEPT ![v] = clock + 1]
    OBVIOUS
  <1>4. row \in [Vers -> 0 .. clock + 1] /\ row[v] = clock + 1 /\ \A w \in Vers : w # v => row[w] = old[n][w]
    BY <1>1, <1>2, <1>3
  <1>5. new = [old EXCEPT ![n] = row]
    BY <1>3
  <1>6. \A m \in XNodes : old[m] \in [Vers -> 0 .. clock + 1]
    BY <1>1
  <1>7. new \in [XNodes -> [Vers -> 0 .. clock + 1]]
    BY <1>4, <1>5, <1>6
  <1>8. new[n] = row /\ \A m \in XNodes : m # n => new[m] = old[m]
    BY <1>5
  <1> QED
    BY <1>4, <1>7, <1>8 DEF Timed1

LEMMA StartLine ==
  ASSUME clock \in Nat, clock' = clock + 1, logs \in Lines, NEW n \in XNodes, NEW v \in Vers,
         logs' = [logs EXCEPT !.started[n][v] = clock + 1]
  PROVE  /\ logs' \in Lines' /\ logs'.finished = logs.finished /\ logs'.merged = logs.merged
         /\ Timed1(logs'.started, logs.started, n, v)
  <1>1. PICK a, b \in [XNodes -> [Vers -> 0 .. clock]] : \E c \in [XNodes -> SUBSET (Vers \X Vers)] :
           logs = [started |-> a, finished |-> b, merged |-> c]
    BY LinesAre
  <1>2. PICK c \in [XNodes -> SUBSET (Vers \X Vers)] : logs = [started |-> a, finished |-> b, merged |-> c]
    BY <1>1
  <1>3. a \in [XNodes -> [Vers -> 0 .. clock + 1]] /\ b \in [XNodes -> [Vers -> 0 .. clock + 1]]
    BY TimesGrow
  <1>4. PICK s : s = [a EXCEPT ![n][v] = clock + 1]
    OBVIOUS
  <1>5. logs' = [started |-> s, finished |-> b, merged |-> c]
    BY <1>2, <1>4
  <1>6. s \in [XNodes -> [Vers -> 0 .. clock + 1]] /\ Timed1(s, a, n, v)
    BY <1>4, TimeWritten
  <1>7. logs' \in Lines'
    BY <1>3, <1>5, <1>6, InLines
  <1> QED
    BY <1>2, <1>5, <1>6, <1>7 DEF Timed1

LEMMA FinishLine ==
  ASSUME clock \in Nat, clock' = clock + 1, logs \in Lines, NEW n \in XNodes, NEW v \in Vers,
         logs' = [logs EXCEPT !.finished[n][v] = clock + 1]
  PROVE  /\ logs' \in Lines' /\ logs'.started = logs.started /\ logs'.merged = logs.merged
         /\ Timed1(logs'.finished, logs.finished, n, v)
  <1>1. PICK a, b \in [XNodes -> [Vers -> 0 .. clock]] : \E c \in [XNodes -> SUBSET (Vers \X Vers)] :
           logs = [started |-> a, finished |-> b, merged |-> c]
    BY LinesAre
  <1>2. PICK c \in [XNodes -> SUBSET (Vers \X Vers)] : logs = [started |-> a, finished |-> b, merged |-> c]
    BY <1>1
  <1>3. a \in [XNodes -> [Vers -> 0 .. clock + 1]] /\ b \in [XNodes -> [Vers -> 0 .. clock + 1]]
    BY TimesGrow
  <1>4. PICK s : s = [b EXCEPT ![n][v] = clock + 1]
    OBVIOUS
  <1>5. logs' = [started |-> a, finished |-> s, merged |-> c]
    BY <1>2, <1>4
  <1>6. s \in [XNodes -> [Vers -> 0 .. clock + 1]] /\ Timed1(s, b, n, v)
    BY <1>4, TimeWritten
  <1>7. logs' \in Lines'
    BY <1>3, <1>5, <1>6, InLines
  <1> QED
    BY <1>2, <1>5, <1>6, <1>7 DEF Timed1

LEMMA MergeLine ==
  ASSUME clock \in Nat, clock' = clock + 1, logs \in Lines, NEW n \in XNodes, NEW u \in Vers, NEW v \in Vers,
         logs' = [logs EXCEPT !.merged[n] = @ \cup {<<u, v>>}]
  PROVE  /\ logs' \in Lines' /\ logs'.started = logs.started /\ logs'.finished = logs.finished
         /\ logs'.merged[n] = logs.merged[n] \cup {<<u, v>>}
         /\ \A m \in XNodes : m # n => logs'.merged[m] = logs.merged[m]
  <1>1. PICK a, b \in [XNodes -> [Vers -> 0 .. clock]] : \E c \in [XNodes -> SUBSET (Vers \X Vers)] :
           logs = [started |-> a, finished |-> b, merged |-> c]
    BY LinesAre
  <1>2. PICK c \in [XNodes -> SUBSET (Vers \X Vers)] : logs = [started |-> a, finished |-> b, merged |-> c]
    BY <1>1
  <1>3. a \in [XNodes -> [Vers -> 0 .. clock + 1]] /\ b \in [XNodes -> [Vers -> 0 .. clock + 1]]
    BY TimesGrow
  <1>4. PICK s : s = [c EXCEPT ![n] = @ \cup {<<u, v>>}]
    OBVIOUS
  <1>5. logs' = [started |-> a, finished |-> b, merged |-> s]
    BY <1>2, <1>4
  <1>6. PICK l : l = c[n] \cup {<<u, v>>}
    OBVIOUS
  <1>7. l \in SUBSET (Vers \X Vers) /\ s = [c EXCEPT ![n] = l]
    BY <1>4, <1>6
  <1>8. s \in [XNodes -> SUBSET (Vers \X Vers)] /\ s[n] = l /\ \A m \in XNodes : m # n => s[m] = c[m]
    BY <1>7
  <1>9. logs' \in Lines'
    BY <1>3, <1>5, <1>8, InLines
  <1> QED
    BY <1>2, <1>5, <1>6, <1>8, <1>9

\* The groups stay as they are.
LEMMA GroupsStay ==
  ASSUME UNCHANGED <<groupOf, joinedAt>>
  PROVE  /\ Grouped' = Grouped /\ Oldest' = Oldest
         /\ \A n, w : Entry(n, w)' = Entry(n, w)
         /\ \A w : Latest(w)' = Latest(w)
  <1>1. groupOf' = groupOf /\ joinedAt' = joinedAt
    OBVIOUS
  <1>2. Grouped' = Grouped /\ Oldest' = Oldest
    BY <1>1 DEF Grouped, Oldest
  <1>3. \A n, w : Entry(n, w)' = Entry(n, w)
    BY <1>1 DEF Entry, First
  <1>4. \A w : Latest(w)' = Latest(w)
    BY <1>1 DEF Latest, First
  <1> QED
    BY <1>2, <1>3, <1>4

LEMMA OtherNode ==
  ASSUME NEW m \in XNodes, InGroup(m), Written(m), Read(m), UNCHANGED <<groupOf, joinedAt, reads, since, found>>,
         at'[m] = at[m], logs'.merged[m] = logs.merged[m],
         \A w \in Vers : logs'.started[m][w] = logs.started[m][w],
         \A w \in Vers : logs'.finished[m][w] = logs.finished[m][w],
         \A w \in Vers : Entry(m, w) \in Vers
  PROVE  InGroup(m)' /\ Written(m)' /\ Read(m)'
  <1>1. joinedAt' = joinedAt /\ reads' = reads /\ since' = since /\ found' = found
    OBVIOUS
  <1>2. (\A w : Entry(m, w)' = Entry(m, w)) /\ (\A w : Latest(w)' = Latest(w))
    BY GroupsStay
  <1>3. InGroup(m)'
    BY <1>1, <1>2 DEF InGroup
  <1>4. Read(m)'
    BY <1>1 DEF Read, Copied
  <1>5. Written(m)'
    <2>1. \A w \in Vers : logs'.started[m][w] # 0 <=> w <= at[m].ver /\ Entry(m, w) = w
      BY DEF Written
    <2>2. logs'.merged[m] = {<<Entry(m, w), w>> : w \in {u \in Vers : u <= at[m].ver /\ Entry(m, u) < u}}
      BY DEF Written
    <2>3. \A w \in Vers : logs'.finished[m][w] # 0 <=>
            w = Latest(w) /\ joinedAt[m] <= w /\ w <= at[m].ver /\ (at[m].cur # 0 => w < at[m].ver)
      BY DEF Written
    <2>4. \A w \in Vers : logs'.finished[m][w] # 0 => logs'.started[m][Entry(m, w)] <= logs'.finished[m][w]
      BY DEF Written
    <2> QED
      BY <1>1, <1>2, <2>1, <2>2, <2>3, <2>4 DEF Written
  <1> QED
    BY <1>3, <1>4, <1>5

\* The nodes of an invariant state.
LEMMA NodeIs ==
  ASSUME XInv, NEW n \in XNodes
  PROVE  \E cur \in Nat, ver \in 0 .. LastVer, join \in Vers :
           /\ cur = at[n].cur /\ ver = at[n].ver /\ join = joinedAt[n]
           /\ at[n] = [cur |-> cur, ver |-> ver]
  BY DEF XInv, XTyped

\* A node writes a line: what is left to show is what this node has written.
LEMMA WriteKeeps ==
  ASSUME XInv, NEW new, NEW n \in XNodes, Write(new), logs' \in Lines',
         at' \in [XNodes -> [cur : Nat, ver : 0 .. LastVer]],
         \A m \in XNodes : m # n =>
           /\ at'[m] = at[m] /\ logs'.merged[m] = logs.merged[m]
           /\ \A w \in Vers : logs'.started[m][w] = logs.started[m][w]
           /\ \A w \in Vers : logs'.finished[m][w] = logs.finished[m][w],
         InGroup(n)' /\ Written(n)' /\ Read(n)'
  PROVE  XInv'
  <1>1. clock' = clock + 1 /\ UNCHANGED <<groupOf, joinedAt, reads, since, found>>
    BY DEF Write
  <1>2. XTyped'
    <2>1. clock \in Nat /\ since \in 0 .. clock /\ found \in Lines /\ reads \in 0 .. 3 /\ joinedAt \in [XNodes -> Vers]
      BY DEF XInv, XTyped
    <2>2. found' \in Lines'
      BY <1>1, <2>1, LinesGrow
    <2>3. since' \in 0 .. clock' /\ clock' \in Nat
      BY <1>1, <2>1
    <2> QED
      BY <1>1, <2>1, <2>2, <2>3 DEF XTyped
  <1>3. Grouped' /\ Oldest'
    BY <1>1, GroupsStay DEF XInv
  <1>4. ASSUME NEW m \in XNodes, m # n
        PROVE  InGroup(m)' /\ Written(m)' /\ Read(m)'
    <2>1. InGroup(m) /\ Written(m) /\ Read(m)
      BY DEF XInv
    <2>2. \A w \in Vers : Entry(m, w) \in Vers
      BY EntryIs DEF XInv
    <2>3. /\ at'[m] = at[m] /\ logs'.merged[m] = logs.merged[m]
          /\ \A w \in Vers : logs'.started[m][w] = logs.started[m][w]
          /\ \A w \in Vers : logs'.finished[m][w] = logs.finished[m][w]
      BY <1>4
    <2> QED
      BY <1>1, <2>1, <2>2, <2>3, OtherNode
  <1> QED
    BY <1>2, <1>3, <1>4 DEF XInv

LEMMA StartExchangeKeeps ==
  ASSUME XInv, NEW n \in XNodes, StartExchange(n)
  PROVE  XInv'
  <1>1. PICK cur \in Nat, ver \in 0 .. LastVer, join \in Vers :
           /\ cur = at[n].cur /\ ver = at[n].ver /\ join = joinedAt[n]
           /\ at[n] = [cur |-> cur, ver |-> ver]
    BY NodeIs
  <1>2. PICK v : v = ver + 1
    OBVIOUS
  <1>3. /\ cur = 0 /\ v \in Vers
        /\ at' = [at EXCEPT ![n] = [cur |-> v, ver |-> v]]
        /\ Write([logs EXCEPT !.started[n][v] = clock + 1])
    BY <1>1, <1>2 DEF StartExchange
  <1>4. /\ clock \in Nat /\ since \in 0 .. clock /\ logs \in Lines /\ Grouped /\ Oldest
        /\ InGroup(n) /\ Written(n) /\ Read(n) /\ at \in [XNodes -> [cur : Nat, ver : 0 .. LastVer]]
    BY DEF XInv, XTyped
  <1>5. /\ clock' = clock + 1 /\ logs' = [logs EXCEPT !.started[n][v] = clock + 1]
        /\ UNCHANGED <<groupOf, joinedAt, reads, since, found>>
    BY <1>3 DEF Write
  <1>6. /\ logs' \in Lines' /\ logs'.finished = logs.finished /\ logs'.merged = logs.merged
        /\ Timed1(logs'.started, logs.started, n, v)
    BY <1>3, <1>4, <1>5, StartLine
  <1>7. at' \in [XNodes -> [cur : Nat, ver : 0 .. LastVer]] /\ at'[n] = [cur |-> v, ver |-> v]
        /\ \A m \in XNodes : m # n => at'[m] = at[m]
    BY <1>3, <1>4, VersAre
  <1>8. /\ \A w \in Vers : Entry(n, w)' = Entry(n, w)
        /\ \A w \in Vers : Latest(w)' = Latest(w)
        /\ joinedAt'[n] = join
    BY <1>1, <1>5, GroupsStay
  <1>9. \A w \in Vers : w <= v <=> w = v \/ w <= ver
    BY <1>2, <1>3, VersAre
  <1>10. \A w \in Vers : ~(v <= ver) /\ (w < v <=> w <= ver)
    BY <1>2, <1>3, VersAre
  <1>11. join <= v /\ Entry(n, v) = v
    <2>1. ver = join - 1 \/ (join <= ver /\ ver = Latest(ver))
      BY <1>1, <1>3, <1>4 DEF InGroup
    <2>2. CASE ver = join - 1
      <3>1. v = join
        BY <1>2, <2>2, VersAre
      <3>2. First(v) \in Vers /\ First(v) <= v
        BY <1>3, <1>4, GroupsAre
      <3> QED
        BY <1>1, <3>1, <3>2, VersAre DEF Entry
    <2>3. CASE join <= ver /\ ver = Latest(ver)
      <3>1. ver \in Vers /\ join <= v
        BY <1>2, <1>3, <2>3, VersAre
      <3>2. First(v) = v
        BY <1>2, <1>3, <1>4, <2>3, <3>1, NextGroup
      <3> QED
        BY <1>1, <3>1, <3>2 DEF Entry
    <2> QED
      BY <2>1, <2>2, <2>3
  <1>12. InGroup(n)'
    <2>1. v # 0
      BY <1>3, VersAre
    <2> QED
      BY <1>3, <1>7, <1>8, <1>11, <2>1 DEF InGroup
  <1>13. /\ \A w \in Vers : logs.started[n][w] # 0 <=> w <= ver /\ Entry(n, w) = w
         /\ logs.merged[n] = {<<Entry(n, w), w>> : w \in {u \in Vers : u <= ver /\ Entry(n, u) < u}}
         /\ \A w \in Vers : logs.finished[n][w] # 0 <=> w = Latest(w) /\ join <= w /\ w <= ver
         /\ \A w \in Vers : logs.finished[n][w] # 0 => logs.started[n][Entry(n, w)] <= logs.finished[n][w]
    BY <1>1, <1>3, <1>4 DEF Written
  <1>14. /\ logs'.started[n][v] = clock + 1
         /\ \A w \in Vers : w # v => logs'.started[n][w] = logs.started[n][w]
    BY <1>6 DEF Timed1
  <1>15. \A w \in Vers : logs'.started[n][w] # 0 <=> w <= v /\ Entry(n, w) = w
    <2> SUFFICES ASSUME NEW w \in Vers
                 PROVE  logs'.started[n][w] # 0 <=> w <= v /\ Entry(n, w) = w
      OBVIOUS
    <2>1. CASE w = v
      <3>1. clock + 1 # 0
        BY <1>4
      <3> QED
        BY <1>9, <1>11, <1>14, <2>1, <3>1
    <2>2. CASE w # v
      BY <1>9, <1>13, <1>14, <2>2
    <2> QED
      BY <2>1, <2>2
  <1>16. {u \in Vers : u <= v /\ Entry(n, u) < u} = {u \in Vers : u <= ver /\ Entry(n, u) < u}
    <2>1. ~(Entry(n, v) < v)
      BY <1>3, <1>11, VersAre
    <2> QED
      BY <1>9, <2>1
  <1>17. \A w \in Vers : logs.finished[n][w] # 0 <=> w = Latest(w) /\ join <= w /\ w <= v /\ (v # 0 => w < v)
    <2>1. v # 0
      BY <1>3, VersAre
    <2> QED
      BY <1>9, <1>10, <1>13, <2>1
  <1>18. \A w \in Vers : logs.finished[n][w] # 0 => logs'.started[n][Entry(n, w)] <= logs.finished[n][w]
    <2> SUFFICES ASSUME NEW w \in Vers, logs.finished[n][w] # 0
                 PROVE  logs'.started[n][Entry(n, w)] <= logs.finished[n][w]
      OBVIOUS
    <2>1. join <= w /\ w <= ver
      BY <1>13
    <2>2. Entry(n, w) \in Vers /\ Entry(n, w) <= w
      BY <1>1, <1>4, <2>1, EntryIs
    <2>3. Entry(n, w) # v
      BY <1>2, <2>1, <2>2, VersAre
    <2> QED
      BY <1>13, <1>14, <2>2, <2>3
  <1>19. Written(n)'
    BY <1>1, <1>6, <1>7, <1>8, <1>13, <1>15, <1>16, <1>17, <1>18 DEF Written
  <1>20. Read(n)'
    <2>1. logs.started[n][v] = 0
      BY <1>3, <1>10, <1>13
    <2>2. since < clock + 1
      BY <1>4
    <2>3. reads >= 1 => \A w \in Vers : Copied(logs.started[n][w], found.started[n][w])
      BY <1>4 DEF Read
    <2>4. reads >= 1 => \A w \in Vers : Copied(logs'.started[n][w], found.started[n][w])
      BY <1>14, <2>1, <2>2, <2>3 DEF Copied
    <2> QED
      BY <1>4, <1>5, <1>6, <2>4 DEF Read, Copied
  <1>21. \A m \in XNodes : m # n =>
           /\ at'[m] = at[m] /\ logs'.merged[m] = logs.merged[m]
           /\ \A w \in Vers : logs'.started[m][w] = logs.started[m][w]
           /\ \A w \in Vers : logs'.finished[m][w] = logs.finished[m][w]
    BY <1>6, <1>7 DEF Timed1
  <1>22. PICK new : new = [logs EXCEPT !.started[n][v] = clock + 1]
    OBVIOUS
  <1>23. Write(new)
    BY <1>3, <1>22 DEF Write
  <1> QED
    BY <1>6, <1>7, <1>12, <1>19, <1>20, <1>21, <1>23, WriteKeeps

LEMMA MergeExchangeKeeps ==
  ASSUME XInv, NEW n \in XNodes, MergeExchange(n)
  PROVE  XInv'
  <1>1. PICK cur \in Nat, ver \in 0 .. LastVer, join \in Vers :
           /\ cur = at[n].cur /\ ver = at[n].ver /\ join = joinedAt[n]
           /\ at[n] = [cur |-> cur, ver |-> ver]
    BY NodeIs
  <1>2. PICK v : v = ver + 1
    OBVIOUS
  <1>3. /\ cur # 0 /\ v \in Vers /\ First(v) = First(cur)
        /\ at' = [at EXCEPT ![n].ver = v]
        /\ Write([logs EXCEPT !.merged[n] = @ \cup {<<cur, v>>}])
    BY <1>1, <1>2 DEF MergeExchange
  <1>4. /\ clock \in Nat /\ logs \in Lines /\ Grouped /\ Oldest
        /\ InGroup(n) /\ Written(n) /\ Read(n) /\ at \in [XNodes -> [cur : Nat, ver : 0 .. LastVer]]
    BY DEF XInv, XTyped
  <1>5. /\ clock' = clock + 1 /\ logs' = [logs EXCEPT !.merged[n] = @ \cup {<<cur, v>>}]
        /\ ~AllRead /\ UNCHANGED <<groupOf, joinedAt, reads, since, found>>
    BY <1>3 DEF Write
  <1>6. join <= ver /\ cur = Entry(n, ver) /\ ver \in Vers
    <2>1. join <= ver /\ cur = Entry(n, ver)
      BY <1>1, <1>3, <1>4 DEF InGroup
    <2> QED
      BY <2>1, VersAre
  <1>7. cur \in Vers /\ First(cur) = First(ver) /\ First(v) = First(ver)
    BY <1>1, <1>3, <1>4, <1>6, EntryIs
  <1>8. Entry(n, v) = cur /\ cur <= ver /\ join <= v /\ cur < v
    <2>1. Entry(n, v) = Entry(n, ver)
      BY <1>3, <1>4, <1>6, <1>7, EntryIs
    <2>2. cur <= ver
      BY <1>1, <1>4, <1>6, EntryIs
    <2> QED
      BY <1>2, <1>6, <1>7, <2>1, <2>2, VersAre
  <1>9. /\ logs' \in Lines' /\ logs'.started = logs.started /\ logs'.finished = logs.finished
        /\ logs'.merged[n] = logs.merged[n] \cup {<<cur, v>>}
        /\ \A m \in XNodes : m # n => logs'.merged[m] = logs.merged[m]
    BY <1>3, <1>4, <1>5, <1>7, MergeLine
  <1>10. at' \in [XNodes -> [cur : Nat, ver : 0 .. LastVer]] /\ at'[n] = [cur |-> cur, ver |-> v]
         /\ \A m \in XNodes : m # n => at'[m] = at[m]
    <2>1. PICK r : r = [at[n] EXCEPT !.ver = v]
      OBVIOUS
    <2>2. r = [cur |-> cur, ver |-> v]
      BY <1>1, <2>1
    <2>3. at' = [at EXCEPT ![n] = r]
      BY <1>3, <2>1
    <2>4. v \in 0 .. LastVer
      BY <1>3, VersAre
    <2>5. r \in [cur : Nat, ver : 0 .. LastVer]
      BY <2>2, <2>4
    <2> QED
      BY <1>4, <2>2, <2>3, <2>5
  <1>11. /\ \A w \in Vers : Entry(n, w)' = Entry(n, w)
         /\ \A w \in Vers : Latest(w)' = Latest(w)
         /\ joinedAt'[n] = join
    BY <1>1, <1>5, GroupsStay
  <1>12. \A w \in Vers : (w <= v <=> w = v \/ w <= ver) /\ (w < v <=> w <= ver)
    BY <1>2, <1>3, VersAre
  <1>13. InGroup(n)'
    BY <1>3, <1>8, <1>10, <1>11 DEF InGroup
  <1>14. /\ \A w \in Vers : logs.started[n][w] # 0 <=> w <= ver /\ Entry(n, w) = w
         /\ logs.merged[n] = {<<Entry(n, w), w>> : w \in {u \in Vers : u <= ver /\ Entry(n, u) < u}}
         /\ \A w \in Vers : logs.finished[n][w] # 0 <=> w = Latest(w) /\ join <= w /\ w <= ver /\ w < ver
         /\ \A w \in Vers : logs.finished[n][w] # 0 => logs.started[n][Entry(n, w)] <= logs.finished[n][w]
    BY <1>1, <1>3, <1>4 DEF Written
  <1>15. \A w \in Vers : logs.started[n][w] # 0 <=> w <= v /\ Entry(n, w) = w
    <2>1. Entry(n, v) # v
      BY <1>7, <1>8, VersAre
    <2> QED
      BY <1>12, <1>14, <2>1
  <1>16. logs'.merged[n] = {<<Entry(n, w), w>> : w \in {u \in Vers : u <= v /\ Entry(n, u) < u}}
    <2>1. {u \in Vers : u <= v /\ Entry(n, u) < u} = {u \in Vers : u <= ver /\ Entry(n, u) < u} \cup {v}
      BY <1>3, <1>8, <1>12
    <2> QED
      BY <1>8, <1>9, <1>14, <2>1
  <1>17. \A w \in Vers : logs.finished[n][w] # 0 <=> w = Latest(w) /\ join <= w /\ w <= v /\ (cur # 0 => w < v)
    <2>1. ver # Latest(ver)
      <3>1. v <= Latest(ver) /\ ~(v <= ver)
        BY <1>2, <1>3, <1>4, <1>6, <1>7, LatestIs, VersAre
      <3> QED
        BY <3>1
    <2>2. \A w \in Vers : w = Latest(w) => (w <= ver <=> w < ver)
      BY <1>6, <2>1, VersAre
    <2> QED
      BY <1>3, <1>12, <1>14, <2>2
  <1>18. Written(n)'
    BY <1>1, <1>9, <1>10, <1>11, <1>14, <1>15, <1>16, <1>17 DEF Written
  <1>19. Read(n)'
    <2>1. ~(reads >= 3)
      BY <1>5 DEF AllRead, XInv, XTyped
    <2> QED
      BY <1>4, <1>5, <1>9, <2>1 DEF Read, Copied
  <1>20. \A m \in XNodes : m # n =>
           /\ at'[m] = at[m] /\ logs'.merged[m] = logs.merged[m]
           /\ \A w \in Vers : logs'.started[m][w] = logs.started[m][w]
           /\ \A w \in Vers : logs'.finished[m][w] = logs.finished[m][w]
    BY <1>9, <1>10
  <1>21. PICK new : new = [logs EXCEPT !.merged[n] = @ \cup {<<cur, v>>}]
    OBVIOUS
  <1>22. Write(new)
    BY <1>3, <1>21 DEF Write
  <1> QED
    BY <1>9, <1>10, <1>13, <1>18, <1>19, <1>20, <1>22, WriteKeeps

LEMMA FinishExchangeKeeps ==
  ASSUME XInv, NEW n \in XNodes, FinishExchange(n)
  PROVE  XInv'
  <1>1. PICK cur \in Nat, ver \in 0 .. LastVer, join \in Vers :
           /\ cur = at[n].cur /\ ver = at[n].ver /\ join = joinedAt[n]
           /\ at[n] = [cur |-> cur, ver |-> ver]
    BY NodeIs
  <1>2. /\ cur # 0 /\ ver = Latest(cur)
        /\ at' = [at EXCEPT ![n].cur = 0]
        /\ Write([logs EXCEPT !.finished[n][ver] = clock + 1])
    BY <1>1 DEF FinishExchange
  <1>3. /\ clock \in Nat /\ since \in 0 .. clock /\ logs \in Lines /\ Grouped /\ Oldest
        /\ InGroup(n) /\ Written(n) /\ Read(n) /\ at \in [XNodes -> [cur : Nat, ver : 0 .. LastVer]]
    BY DEF XInv, XTyped
  <1>4. /\ clock' = clock + 1 /\ logs' = [logs EXCEPT !.finished[n][ver] = clock + 1]
        /\ UNCHANGED <<groupOf, joinedAt, reads, since, found>>
    BY <1>2 DEF Write
  <1>5. join <= ver /\ cur = Entry(n, ver) /\ ver \in Vers
    <2>1. join <= ver /\ cur = Entry(n, ver)
      BY <1>1, <1>2, <1>3 DEF InGroup
    <2> QED
      BY <2>1, VersAre
  <1>6. ver = Latest(ver)
    <2>1. cur \in Vers /\ First(cur) = First(ver)
      BY <1>1, <1>3, <1>5, EntryIs
    <2>2. Latest(cur) = Latest(ver)
      BY <1>3, <1>5, <2>1, SameLatest
    <2> QED
      BY <1>2, <2>2
  <1>7. /\ logs' \in Lines' /\ logs'.started = logs.started /\ logs'.merged = logs.merged
        /\ Timed1(logs'.finished, logs.finished, n, ver)
    BY <1>3, <1>4, <1>5, FinishLine
  <1>8. at' \in [XNodes -> [cur : Nat, ver : 0 .. LastVer]] /\ at'[n] = [cur |-> 0, ver |-> ver]
        /\ \A m \in XNodes : m # n => at'[m] = at[m]
    <2>1. PICK r : r = [at[n] EXCEPT !.cur = 0]
      OBVIOUS
    <2>2. r = [cur |-> 0, ver |-> ver]
      BY <1>1, <2>1
    <2>3. at' = [at EXCEPT ![n] = r]
      BY <1>2, <2>1
    <2>4. r \in [cur : Nat, ver : 0 .. LastVer]
      BY <2>2
    <2> QED
      BY <1>3, <2>2, <2>3, <2>4
  <1>9. /\ \A w \in Vers : Entry(n, w)' = Entry(n, w)
        /\ \A w \in Vers : Latest(w)' = Latest(w)
        /\ joinedAt'[n] = join
    BY <1>1, <1>4, GroupsStay
  <1>10. InGroup(n)'
    BY <1>5, <1>6, <1>8, <1>9 DEF InGroup
  <1>11. /\ \A w \in Vers : logs.started[n][w] # 0 <=> w <= ver /\ Entry(n, w) = w
         /\ logs.merged[n] = {<<Entry(n, w), w>> : w \in {u \in Vers : u <= ver /\ Entry(n, u) < u}}
         /\ \A w \in Vers : logs.finished[n][w] # 0 <=> w = Latest(w) /\ join <= w /\ w <= ver /\ w < ver
         /\ \A w \in Vers : logs.finished[n][w] # 0 => logs.started[n][Entry(n, w)] <= logs.finished[n][w]
    BY <1>1, <1>2, <1>3 DEF Written
  <1>12. /\ logs'.finished[n][ver] = clock + 1
         /\ \A w \in Vers : w # ver => logs'.finished[n][w] = logs.finished[n][w]
    BY <1>7 DEF Timed1
  <1>13. \A w \in Vers : w <= ver <=> w = ver \/ w < ver
    BY <1>5, VersAre
  <1>14. \A w \in Vers : logs'.finished[n][w] # 0 <=> w = Latest(w) /\ join <= w /\ w <= ver
    <2> SUFFICES ASSUME NEW w \in Vers
                 PROVE  logs'.finished[n][w] # 0 <=> w = Latest(w) /\ join <= w /\ w <= ver
      OBVIOUS
    <2>1. CASE w = ver
      <3>1. clock + 1 # 0 /\ ver <= ver
        BY <1>3
      <3> QED
        BY <1>5, <1>6, <1>12, <2>1, <3>1
    <2>2. CASE w # ver
      BY <1>11, <1>12, <1>13, <2>2
    <2> QED
      BY <2>1, <2>2
  <1>15. \A w \in Vers : logs'.finished[n][w] # 0 => logs.started[n][Entry(n, w)] <= logs'.finished[n][w]
    <2> SUFFICES ASSUME NEW w \in Vers, logs'.finished[n][w] # 0
                 PROVE  logs.started[n][Entry(n, w)] <= logs'.finished[n][w]
      OBVIOUS
    <2>1. CASE w = ver
      <3>1. PICK e \in Vers : e = Entry(n, w)
        BY <1>3, EntryIs
      <3>2. logs.started[n][e] \in 0 .. clock
        <4>1. PICK a, b \in [XNodes -> [Vers -> 0 .. clock]], c \in [XNodes -> SUBSET (Vers \X Vers)] :
                logs = [started |-> a, finished |-> b, merged |-> c]
          BY <1>3, LinesAre
        <4>2. a[n] \in [Vers -> 0 .. clock]
          OBVIOUS
        <4>3. a[n][e] \in 0 .. clock
          BY <4>2
        <4> QED
          BY <4>1, <4>3
      <3> QED
        BY <1>3, <1>12, <2>1, <3>1, <3>2
    <2>2. CASE w # ver
      BY <1>11, <1>12, <2>2
    <2> QED
      BY <2>1, <2>2
  <1>16. Written(n)'
    BY <1>1, <1>7, <1>8, <1>9, <1>11, <1>14, <1>15 DEF Written
  <1>17. Read(n)'
    <2>1. logs.finished[n][ver] = 0
      <3>1. ~(ver < ver)
        BY <1>5, VersAre
      <3> QED
        BY <1>5, <1>11, <3>1
    <2>2. since < clock + 1
      BY <1>3
    <2>3. reads >= 2 => \A w \in Vers : Copied(logs.finished[n][w], found.finished[n][w])
      BY <1>3 DEF Read
    <2>4. reads >= 2 => \A w \in Vers : Copied(logs'.finished[n][w], found.finished[n][w])
      BY <1>12, <2>1, <2>2, <2>3 DEF Copied
    <2> QED
      BY <1>3, <1>4, <1>7, <2>4 DEF Read, Copied
  <1>18. \A m \in XNodes : m # n =>
           /\ at'[m] = at[m] /\ logs'.merged[m] = logs.merged[m]
           /\ \A w \in Vers : logs'.started[m][w] = logs.started[m][w]
           /\ \A w \in Vers : logs'.finished[m][w] = logs.finished[m][w]
    BY <1>7, <1>8 DEF Timed1
  <1>19. PICK new : new = [logs EXCEPT !.finished[n][ver] = clock + 1]
    OBVIOUS
  <1>20. Write(new)
    BY <1>2, <1>19 DEF Write
  <1> QED
    BY <1>7, <1>8, <1>10, <1>16, <1>17, <1>18, <1>20, WriteKeeps

LEMMA GrepKeeps ==
  ASSUME XInv, Grep
  PROVE  XInv'
  <1>1. /\ ~AllRead /\ reads' = reads + 1 /\ UNCHANGED <<groupOf, joinedAt, at, clock, logs>>
        /\ since' = IF reads = 0 THEN clock ELSE since
        /\ found' = [found EXCEPT ![Kinds[reads + 1]] = logs[Kinds[reads + 1]]]
    BY DEF Grep, clusterVars
  <1>2. /\ clock \in Nat /\ since \in 0 .. clock /\ reads \in 0 .. 3 /\ logs \in Lines /\ found \in Lines
        /\ joinedAt \in [XNodes -> Vers] /\ at \in [XNodes -> [cur : Nat, ver : 0 .. LastVer]]
    BY DEF XInv, XTyped
  <1>3. PICK a, b \in [XNodes -> [Vers -> 0 .. clock]], c \in [XNodes -> SUBSET (Vers \X Vers)] :
           found = [started |-> a, finished |-> b, merged |-> c]
    BY <1>2, LinesAre
  <1>4. PICK d, e \in [XNodes -> [Vers -> 0 .. clock]], f \in [XNodes -> SUBSET (Vers \X Vers)] :
           logs = [started |-> d, finished |-> e, merged |-> f]
    BY <1>2, LinesAre
  <1>5. Kinds[1] = "started" /\ Kinds[2] = "finished" /\ Kinds[3] = "merged"
    BY DEF Kinds
  <1>6. \/ reads = 0 /\ found' = [started |-> d, finished |-> b, merged |-> c] /\ since' = clock
        \/ reads = 1 /\ found' = [started |-> a, finished |-> e, merged |-> c] /\ since' = since
        \/ reads = 2 /\ found' = [started |-> a, finished |-> b, merged |-> f] /\ since' = since
    <2>1. CASE reads = 0
      <3>1. Kinds[reads + 1] = "started"
        BY <1>5, <2>1
      <3>2. found' = [found EXCEPT !["started"] = logs["started"]]
        BY <1>1, <3>1
      <3>3. found' = [started |-> d, finished |-> b, merged |-> c]
        BY <1>3, <1>4, <3>2
      <3> QED
        BY <1>1, <2>1, <3>3
    <2>2. CASE reads = 1
      <3>1. Kinds[reads + 1] = "finished"
        BY <1>5, <2>2
      <3>2. found' = [found EXCEPT !["finished"] = logs["finished"]]
        BY <1>1, <3>1
      <3>3. found' = [started |-> a, finished |-> e, merged |-> c]
        BY <1>3, <1>4, <3>2
      <3>4. since' = since
        BY <1>1, <2>2
      <3> QED
        BY <2>2, <3>3, <3>4
    <2>3. CASE reads = 2
      <3>1. Kinds[reads + 1] = "merged"
        BY <1>5, <2>3
      <3>2. found' = [found EXCEPT !["merged"] = logs["merged"]]
        BY <1>1, <3>1
      <3>3. found' = [started |-> a, finished |-> b, merged |-> f]
        BY <1>3, <1>4, <3>2
      <3>4. since' = since
        BY <1>1, <2>3
      <3> QED
        BY <2>3, <3>3, <3>4
    <2> QED
      BY <1>1, <1>2, <2>1, <2>2, <2>3 DEF AllRead
  <1>7. XTyped'
    <2>1. logs' \in Lines'
      BY <1>1, <1>4 DEF Lines
    <2>2. found' \in Lines'
      BY <1>1, <1>3, <1>4, <1>6 DEF Lines
    <2>3. since' \in 0 .. clock' /\ clock' \in Nat /\ reads' \in 0 .. 3
      BY <1>1, <1>2, <1>6
    <2> QED
      BY <1>1, <1>2, <2>1, <2>2, <2>3 DEF XTyped
  <1>8. Grouped' /\ Oldest'
    BY <1>1, GroupsStay DEF XInv
  <1>9. ASSUME NEW n \in XNodes
        PROVE  InGroup(n)' /\ Written(n)' /\ Read(n)'
    <2>1. InGroup(n) /\ Written(n) /\ Read(n)
      BY DEF XInv
    <2>2. (\A w : Entry(n, w)' = Entry(n, w)) /\ (\A w : Latest(w)' = Latest(w))
      BY <1>1, GroupsStay
    <2>3. InGroup(n)'
      BY <1>1, <2>1, <2>2 DEF InGroup
    <2>4. Written(n)'
      BY <1>1, <2>1, <2>2 DEF Written
    <2>5. Read(n)'
      <3>1. CASE reads = 0
        <4>1. reads' = 1 /\ logs' = logs
          BY <1>1, <3>1
        <4>2. found'.started = logs.started
          BY <1>4, <1>6, <3>1
        <4>3. \A w \in Vers : logs'.started[n][w] = found'.started[n][w]
          BY <4>1, <4>2
        <4> QED
          BY <4>1, <4>3 DEF Read, Copied
      <3>2. CASE reads = 1
        <4>1. \A w \in Vers : Copied(d[n][w], a[n][w])
          BY <1>3, <1>4, <2>1, <3>2 DEF Read
        <4> QED
          BY <1>1, <1>3, <1>4, <1>6, <3>2, <4>1 DEF Read, Copied
      <3>3. CASE reads = 2
        <4>1. \A w \in Vers : Copied(d[n][w], a[n][w]) /\ Copied(e[n][w], b[n][w])
          BY <1>3, <1>4, <2>1, <3>3 DEF Read
        <4> QED
          BY <1>1, <1>3, <1>4, <1>6, <3>3, <4>1 DEF Read, Copied
      <3> QED
        BY <1>6, <3>1, <3>2, <3>3
    <2> QED
      BY <2>3, <2>4, <2>5
  <1> QED
    BY <1>7, <1>8, <1>9 DEF XInv

-----------------------------------------------------------------------------
LEMMA XInvInit == Init => XInv
  <1> SUFFICES ASSUME Init PROVE XInv
    OBVIOUS
  <1>1. ExchangesInit
    BY DEF Init
  <1>2. /\ groupOf \in [Vers -> Vers] /\ \A v \in Vers : groupOf[v] = v \/ (v > 1 /\ groupOf[v] = groupOf[v - 1])
        /\ joinedAt \in [XNodes -> Vers] /\ \E n \in XNodes : joinedAt[n] = 1
        /\ at = [n \in XNodes |-> [cur |-> 0, ver |-> joinedAt[n] - 1]]
        /\ clock = 0 /\ since = 0 /\ reads = 0 /\ logs = NoLines /\ found = NoLines
    BY <1>1 DEF ExchangesInit
  <1>3. Grouped /\ Oldest
    BY <1>2 DEF Grouped, Oldest
  <1>4. \A n \in XNodes : at[n].cur = 0 /\ at[n].ver = joinedAt[n] - 1 /\ at[n].ver \in 0 .. LastVer
    BY <1>2, VersAre
  <1>5. XTyped
    <2>1. at \in [XNodes -> [cur : Nat, ver : 0 .. LastVer]]
      BY <1>2, VersAre
    <2>2. NoTimes \in [Vers -> 0 .. 0]
      BY DEF NoTimes
    <2>3. NoLines \in Lines
      BY <1>2, <2>2 DEF NoLines, Lines
    <2> QED
      BY <1>2, <2>1, <2>3 DEF XTyped
  <1>6. ASSUME NEW n \in XNodes
        PROVE  InGroup(n) /\ Written(n) /\ Read(n)
    <2>1. /\ \A w \in Vers : logs.started[n][w] = 0 /\ logs.finished[n][w] = 0
          /\ logs.merged[n] = {}
      BY <1>2 DEF NoLines, NoTimes
    <2>2. InGroup(n) /\ Read(n)
      BY <1>2, <1>4 DEF InGroup, Read
    <2>3. ASSUME NEW w \in Vers, w <= at[n].ver
          PROVE  w < Entry(n, w) /\ ~(joinedAt[n] <= w)
      <3>1. joinedAt[n] \in Vers /\ ~(joinedAt[n] <= w)
        BY <1>2, <1>4, <2>3, VersAre
      <3> QED
        BY <1>3, <3>1, EntryIs
    <2>4. \A w \in Vers : Entry(n, w) \in Vers
      BY <1>3, EntryIs
    <2>5. \A w \in Vers : w <= at[n].ver => ~(Entry(n, w) < w) /\ Entry(n, w) # w
      BY <2>3, <2>4, VersAre
    <2> QED
      BY <2>1, <2>2, <2>3, <2>5 DEF Written
  <1> QED
    BY <1>3, <1>5, <1>6 DEF XInv

LEMMA XInvStays ==
  ASSUME XInv, UNCHANGED exchangesVars
  PROVE  XInv'
  <1>1. UNCHANGED <<groupOf, joinedAt, at, clock, logs, reads, since, found>>
    BY DEF exchangesVars, clusterVars
  <1>2. Grouped' /\ Oldest' /\ XTyped'
    BY <1>1 DEF Grouped, Oldest, XTyped, Lines, XInv
  <1>3. ASSUME NEW n \in XNodes
        PROVE  InGroup(n)' /\ Written(n)' /\ Read(n)'
    <2>1. InGroup(n) /\ Written(n) /\ Read(n)
      BY DEF XInv
    <2>2. \A w \in Vers : Entry(n, w) \in Vers
      BY EntryIs DEF XInv
    <2> QED
      BY <1>1, <2>1, <2>2, OtherNode
  <1> QED
    BY <1>2, <1>3 DEF XInv

LEMMA XInvNext == XInv /\ [Next]_vars => XInv'
  <1> SUFFICES ASSUME XInv, [Next]_vars
               PROVE  XInv'
    OBVIOUS
  <1>1. CASE Analysis
    <2>1. CASE OfExchanges(Grep)
      BY <2>1, GrepKeeps DEF OfExchanges
    <2>2. ASSUME NEW n \in XNodes,
                 OfExchanges(StartExchange(n)) \/ OfExchanges(MergeExchange(n)) \/ OfExchanges(FinishExchange(n))
          PROVE  XInv'
      BY <2>2, StartExchangeKeeps, MergeExchangeKeeps, FinishExchangeKeeps DEF OfExchanges
    <2> QED
      BY <1>1, <2>1, <2>2 DEF Analysis
  <1>2. CASE Collecting \/ Scanning \/ Reporting \/ Killing
    <2>1. UNCHANGED exchangesVars
      BY <1>2 DEF Collecting, Scanning, Reporting, Killing, OfCollection, OfFailures, OfReport, OfKiller
    <2> QED
      BY <2>1, XInvStays
  <1>3. CASE UNCHANGED vars
    BY <1>3, XInvStays DEF vars
  <1> QED
    BY <1>1, <1>2, <1>3 DEF Next

-----------------------------------------------------------------------------
\* A function that is defined by recursion over a range of numbers exists.
Recursive(f, n, X, first, adv) ==
  f \in [0 .. n -> X] /\ f[0] = first /\ \A k \in 1 .. n : f[k] = adv[<<k, f[k - 1]>>]

LEMMA Recursion ==
  ASSUME NEW n \in Nat, NEW X, NEW first \in X, NEW adv \in [(1 .. n) \X X -> X]
  PROVE  \E f : Recursive(f, n, X, first, adv)
  <1> DEFINE Begins(f, k) == f[0] = first /\ \A j \in 1 .. k : f[j] = adv[<<j, f[j - 1]>>]
             Exists(k) == \E f \in [0 .. k -> X] : Begins(f, k)
             T == {k \in 0 .. n : Exists(k)}
  <1>1. Exists(0)
    <2>1. PICK f : f = [j \in 0 .. 0 |-> first]
      OBVIOUS
    <2>2. f \in [0 .. 0 -> X] /\ Begins(f, 0)
      BY <2>1
    <2> QED
      BY <2>2
  <1>2. ASSUME NEW k \in 1 .. n, Exists(k - 1)
        PROVE  Exists(k)
    <2>1. PICK f \in [0 .. k - 1 -> X] : Begins(f, k - 1)
      BY <1>2
    <2>2. PICK y \in X : y = adv[<<k, f[k - 1]>>]
      <3>1. f[k - 1] \in X
        OBVIOUS
      <3> QED
        BY <3>1
    <2>3. PICK g : g = [j \in 0 .. k |-> IF j = k THEN y ELSE f[j]]
      OBVIOUS
    <2>4. g \in [0 .. k -> X] /\ g[k] = y /\ \A j \in 0 .. k - 1 : g[j] = f[j]
      BY <2>3
    <2>5. g[0] = first
      BY <2>1, <2>4
    <2>6. ASSUME NEW j \in 1 .. k
          PROVE  g[j] = adv[<<j, g[j - 1]>>]
      <3>1. g[j - 1] = f[j - 1]
        BY <2>4
      <3>2. CASE j = k
        BY <3>1, <3>2, <2>2, <2>4
      <3>3. CASE j # k
        <4>1. j \in 1 .. k - 1 /\ j \in 0 .. k - 1
          BY <3>3
        <4> QED
          BY <4>1, <3>1, <2>1, <2>4
      <3> QED
        BY <3>2, <3>3
    <2> QED
      BY <2>4, <2>5, <2>6
  <1> HIDE DEF Exists
  <1>3. 0 \in T
    BY <1>1
  <1>4. \A k \in 1 .. n : k - 1 \in T => k \in T
    BY <1>2
  <1> HIDE DEF T
  <1>5. n \in T
    BY <1>3, <1>4, CountsUp
  <1> QED
    BY <1>5 DEF T, Exists, Recursive

\* The walk over the versions.
Walked == [end : BOOLEAN, ver : Vers, with : SUBSET Vers]

WalkOf(f, v, d) ==
  /\ f \in [0 .. LastVer -> Walked]
  /\ f[0] = [end |-> FALSE, ver |-> v, with |-> {v} \cup MergedWith(v)]
  /\ \A k \in 1 .. LastVer : f[k] = Reached(f[k - 1], v + d * k)

LEMMA MergedWithIs ==
  ASSUME found \in Lines
  PROVE  \A u, v : u \in MergedWith(v) <=>
           u \in Vers /\ v \in Vers /\ \E n \in XNodes : <<u, v>> \in found.merged[n] \/ <<v, u>> \in found.merged[n]
  <1>1. PICK c \in [XNodes -> SUBSET (Vers \X Vers)] : c = found.merged
    BY LinesAre
  <1>2. \A m : m \in Merges <=> \E n \in XNodes : m \in c[n]
    BY <1>1 DEF Merges
  <1>3. \A n \in XNodes : \A m \in c[n] : m[1] \in Vers /\ m[2] \in Vers /\ m = <<m[1], m[2]>>
    OBVIOUS
  <1> SUFFICES ASSUME NEW u, NEW v
               PROVE  u \in MergedWith(v) <=>
                        u \in Vers /\ v \in Vers /\ \E n \in XNodes : <<u, v>> \in c[n] \/ <<v, u>> \in c[n]
    BY <1>1
  <1>4. u \in MergedWith(v) <=> \E m \in Merges : (u = m[1] /\ m[2] = v) \/ (u = m[2] /\ m[1] = v)
    BY DEF MergedWith
  <1>5. ASSUME NEW m \in Merges, (u = m[1] /\ m[2] = v) \/ (u = m[2] /\ m[1] = v)
        PROVE  u \in Vers /\ v \in Vers /\ \E n \in XNodes : <<u, v>> \in c[n] \/ <<v, u>> \in c[n]
    BY <1>2, <1>3, <1>5
  <1>6. ASSUME NEW n \in XNodes, <<u, v>> \in c[n] \/ <<v, u>> \in c[n]
        PROVE  \E m \in Merges : (u = m[1] /\ m[2] = v) \/ (u = m[2] /\ m[1] = v)
    <2>1. CASE <<u, v>> \in c[n]
      <3>1. <<u, v>> \in Merges /\ <<u, v>>[1] = u /\ <<u, v>>[2] = v
        BY <1>2, <2>1
      <3> QED
        BY <3>1
    <2>2. CASE <<v, u>> \in c[n]
      <3>1. <<v, u>> \in Merges /\ <<v, u>>[1] = v /\ <<v, u>>[2] = u
        BY <1>2, <2>2
      <3> QED
        BY <3>1
    <2> QED
      BY <1>6, <2>1, <2>2
  <1> QED
    BY <1>4, <1>5, <1>6

LEMMA ReachedIs ==
  ASSUME found \in Lines, NEW acc \in Walked, NEW w
  PROVE  Reached(acc, w) \in Walked
  <1>1. CASE w \notin Known
    BY <1>1 DEF Reached
  <1>2. CASE w \in Known
    <2>1. w \in Vers
      BY <1>2 DEF Known
    <2>2. [acc EXCEPT !.end = TRUE] \in Walked
      BY DEF Walked
    <2>3. PICK s \in SUBSET Vers : s = acc.with \cup {w}
      BY <2>1 DEF Walked
    <2>4. [acc EXCEPT !.ver = w, !.with = s] \in Walked
      BY <2>1 DEF Walked
    <2> QED
      BY <2>2, <2>3, <2>4 DEF Reached
  <1> QED
    BY <1>1, <1>2

LEMMA WalkIs ==
  ASSUME found \in Lines, NEW v \in Vers, NEW d \in Int
  PROVE  \E f : WalkOf(f, v, d) /\ Walk(v, d) = f[LastVer].ver
  <1> DEFINE Def(f) == f = [k \in 0 .. LastVer |->
                              IF k = 0 THEN [end |-> FALSE, ver |-> v, with |-> {v} \cup MergedWith(v)]
                              ELSE Reached(f[k - 1], v + d * k)]
  <1>1. PICK r : r = (CHOOSE f : Def(f)) /\ Walk(v, d) = r[LastVer].ver
    BY DEF Walk
  <1>2. PICK a : a = [end |-> FALSE, ver |-> v, with |-> {v} \cup MergedWith(v)]
    OBVIOUS
  <1>3. a \in Walked
    <2>1. {v} \cup MergedWith(v) \subseteq Vers
      BY MergedWithIs
    <2> QED
      BY <1>2, <2>1 DEF Walked
  <1>4. PICK adv : adv = [x \in (1 .. LastVer) \X Walked |-> Reached(x[2], v + d * x[1])]
    OBVIOUS
  <1>5. adv \in [(1 .. LastVer) \X Walked -> Walked]
    <2>1. \A x \in (1 .. LastVer) \X Walked : Reached(x[2], v + d * x[1]) \in Walked
      BY ReachedIs
    <2> QED
      BY <1>4, <2>1
  <1>6. PICK f : Recursive(f, LastVer, Walked, a, adv)
    BY <1>3, <1>5, VersAre, Recursion
  <1>7. ASSUME NEW k \in 1 .. LastVer
        PROVE  f[k] = Reached(f[k - 1], v + d * k)
    <2>1. k - 1 \in 0 .. LastVer
      BY VersAre
    <2>2. <<k, f[k - 1]>> \in (1 .. LastVer) \X Walked
      BY <1>6, <2>1 DEF Recursive
    <2>3. adv[<<k, f[k - 1]>>] = Reached(f[k - 1], v + d * k)
      BY <1>4, <2>2
    <2> QED
      BY <1>6, <2>3 DEF Recursive
  <1>8. \A k \in 0 .. LastVer : k # 0 => k \in 1 .. LastVer
    BY VersAre
  <1>9. f[0] = a /\ f \in [0 .. LastVer -> Walked]
    BY <1>6 DEF Recursive
  <1>10. \A k \in 0 .. LastVer : f[k] = IF k = 0 THEN a ELSE Reached(f[k - 1], v + d * k)
    BY <1>7, <1>8, <1>9
  <1>11. Def(f)
    BY <1>2, <1>9, <1>10
  <1> HIDE DEF Def
  <1>12. Def(r)
    BY <1>1, <1>11
  <1>13. \A k \in 0 .. LastVer : r[k] = IF k = 0 THEN a ELSE Reached(r[k - 1], v + d * k)
    BY <1>2, <1>12, Zenon DEF Def
  <1>14. r = f
    <2> DEFINE T == {k \in 0 .. LastVer : r[k] = f[k]}
    <2>1. 0 \in T
      BY <1>10, <1>13, VersAre
    <2>2. \A k \in 1 .. LastVer : k - 1 \in T => k \in T
      <3> SUFFICES ASSUME NEW k \in 1 .. LastVer, r[k - 1] = f[k - 1]
                   PROVE  r[k] = f[k]
        BY VersAre
      <3>1. k \in 0 .. LastVer /\ k # 0
        BY VersAre
      <3> QED
        BY <1>10, <1>13, <3>1
    <2> HIDE DEF T
    <2>3. \A k \in 0 .. LastVer : k \in T
      BY <2>1, <2>2, VersAre, CountsUp
    <2>4. \A k \in 0 .. LastVer : r[k] = f[k]
      BY <2>3 DEF T
    <2>5. \E g : r = [k \in 0 .. LastVer |-> g[k]]
      <3>1. PICK g : g = [k \in 0 .. LastVer |-> IF k = 0 THEN a ELSE Reached(r[k - 1], v + d * k)]
        OBVIOUS
      <3>2. r = g
        BY <1>2, <1>12, <3>1, Zenon DEF Def
      <3> QED
        BY <3>1, <3>2
    <2> QED
      BY <1>9, <2>4, <2>5
  <1> QED
    BY <1>1, <1>2, <1>7, <1>9, <1>14 DEF WalkOf

\* Versions are merged with others of their group only.
MergesAreOwn == \A w \in Vers : \A u \in MergedWith(w) : u \in Vers /\ First(u) = First(w) /\ u # w

LEMMA ReachedInGroup ==
  ASSUME found \in Lines, MergesAreOwn, NEW v \in Vers, NEW acc \in Walked, NEW w,
         First(acc.ver) = First(v), \A u \in acc.with : First(u) = First(v)
  PROVE  /\ First(Reached(acc, w).ver) = First(v) /\ \A u \in Reached(acc, w).with : First(u) = First(v)
         /\ w \notin Group(v) => Reached(acc, w).ver = acc.ver
  <1>1. CASE acc.end \/ w \notin Known
    BY <1>1 DEF Reached
  <1>2. CASE ~acc.end /\ w \in Known /\ ~IsMerged(w)
    <2>1. PICK b : b = [acc EXCEPT !.end = TRUE]
      OBVIOUS
    <2>2. b.ver = acc.ver /\ b.with = acc.with
      BY <2>1 DEF Walked
    <2>3. Reached(acc, w) = b
      BY <1>2, <2>1 DEF Reached
    <2> QED
      BY <2>2, <2>3
  <1>3. CASE ~acc.end /\ w \in Known /\ IsMerged(w)
    <2>1. CASE MergedWith(w) \cap acc.with = {}
      BY <1>3, <2>1 DEF Reached
    <2>2. CASE MergedWith(w) \cap acc.with # {}
      <3>1. PICK s : s = acc.with \cup {w}
        OBVIOUS
      <3>2. PICK b : b = [acc EXCEPT !.ver = w, !.with = s]
        OBVIOUS
      <3>3. b.ver = w /\ b.with = s
        BY <3>2 DEF Walked
      <3>4. Reached(acc, w) = b
        BY <1>3, <2>2, <3>1, <3>2 DEF Reached
      <3>5. w \in Vers
        BY <1>3 DEF Known
      <3>6. First(w) = First(v)
        BY <2>2, <3>5 DEF MergesAreOwn
      <3> QED
        BY <3>1, <3>3, <3>4, <3>5, <3>6 DEF Group
    <2> QED
      BY <2>1, <2>2
  <1> QED
    BY <1>1, <1>2, <1>3

LEMMA WalkStays ==
  ASSUME found \in Lines, MergesAreOwn, NEW v \in Vers, NEW d \in Int, NEW f, WalkOf(f, v, d)
  PROVE  \A k \in 0 .. LastVer : First(f[k].ver) = First(v) /\ \A u \in f[k].with : First(u) = First(v)
  <1> DEFINE Good(k) == First(f[k].ver) = First(v) /\ \A u \in f[k].with : First(u) = First(v)
             T == {k \in 0 .. LastVer : Good(k)}
  <1>1. 0 \in T
    <2>1. f[0].ver = v /\ f[0].with = {v} \cup MergedWith(v)
      BY DEF WalkOf
    <2> QED
      BY <2>1, VersAre DEF MergesAreOwn
  <1>2. ASSUME NEW k \in 1 .. LastVer, k - 1 \in T
        PROVE  k \in T
    <2>1. k \in 0 .. LastVer /\ k - 1 \in 0 .. LastVer
      BY VersAre
    <2>2. PICK acc \in Walked : acc = f[k - 1]
      BY <2>1 DEF WalkOf
    <2>3. PICK w : w = v + d * k
      OBVIOUS
    <2>4. f[k] = Reached(acc, w)
      BY <2>2, <2>3 DEF WalkOf
    <2>5. First(acc.ver) = First(v) /\ \A u \in acc.with : First(u) = First(v)
      BY <1>2, <2>2
    <2>6. First(f[k].ver) = First(v) /\ \A u \in f[k].with : First(u) = First(v)
      BY <2>4, <2>5, ReachedInGroup
    <2> QED
      BY <2>1, <2>6
  <1> HIDE DEF T
  <1>3. \A k \in 0 .. LastVer : k \in T
    BY <1>1, <1>2, VersAre, CountsUp
  <1> QED
    BY <1>3 DEF T

\* In a group of which all merges are known the walk goes as far as the group.
AllKnown(v) ==
  \A w \in Group(v) : w \in Known /\ (w # First(v) => First(v) \in MergedWith(w) /\ w \in MergedWith(First(v)))

LEMMA WalkArrives ==
  ASSUME found \in Lines, MergesAreOwn, NEW v \in Vers, NEW d \in Int, AllKnown(v),
         NEW last \in 0 .. LastVer, \A k \in 1 .. last : v + d * k \in Group(v) /\ v + d * k # v,
         \A k \in last + 1 .. LastVer : v + d * k \notin Group(v)
  PROVE  Walk(v, d) = IF last = 0 THEN v ELSE v + d * last
  <1>1. PICK f : WalkOf(f, v, d) /\ Walk(v, d) = f[LastVer].ver
    BY WalkIs
  <1>2. \A k \in 0 .. LastVer : First(f[k].ver) = First(v) /\ \A u \in f[k].with : First(u) = First(v)
    BY <1>1, WalkStays
  <1>3. PICK to : to = [k \in 0 .. LastVer |-> IF k = 0 THEN v ELSE v + d * k]
    OBVIOUS
  <1>4. \A k \in 1 .. LastVer : f[k] = Reached(f[k - 1], to[k]) /\ f[k - 1] \in Walked
    <2>1. \A k \in 1 .. LastVer : k \in 0 .. LastVer /\ k - 1 \in 0 .. LastVer /\ to[k] = v + d * k
      BY <1>3, VersAre
    <2> QED
      BY <1>1, <2>1 DEF WalkOf
  <1>5. \A k \in 1 .. last : to[k] \in Group(v) /\ to[k] # v
    BY <1>3, VersAre
  <1>6. \A k \in last + 1 .. LastVer : to[k] \notin Group(v)
    BY <1>3, VersAre
  <1>7. to[0] = v /\ to[last] = IF last = 0 THEN v ELSE v + d * last
    BY <1>3, VersAre
  <1> HIDE DEF Group
  <1> DEFINE On(k) == ~f[k].end /\ f[k].ver = to[k] /\ v \in f[k].with /\ First(v) \in f[k].with
             T == {k \in 0 .. last : On(k)}
  <1>8. 0 \in T
    <2>1. f[0].end = FALSE /\ f[0].ver = v /\ f[0].with = {v} \cup MergedWith(v)
      BY <1>1 DEF WalkOf
    <2>2. v # First(v) => First(v) \in MergedWith(v)
      BY DEF AllKnown, Group
    <2> QED
      BY <1>7, <2>1, <2>2
  <1>9. ASSUME NEW k \in 1 .. last, k - 1 \in T
        PROVE  k \in T
    <2>1. k \in 1 .. LastVer /\ k \in 0 .. last
      BY VersAre
    <2>2. PICK acc \in Walked : acc = f[k - 1]
      BY <1>4, <2>1
    <2>3. PICK w \in Group(v) : w = to[k] /\ w # v
      BY <1>5
    <2>4. f[k] = Reached(acc, w)
      BY <1>4, <2>1, <2>2, <2>3
    <2>5. ~acc.end /\ v \in acc.with /\ First(v) \in acc.with
      BY <1>9, <2>2
    <2>6. w \in Known /\ (w # First(v) => First(v) \in MergedWith(w) /\ w \in MergedWith(First(v)))
      BY DEF AllKnown
    <2>7. \E u \in acc.with : u \in MergedWith(w)
      <3>1. CASE w = First(v)
        <4>1. v \in Group(v) /\ v # First(v)
          BY <2>3, <3>1 DEF Group
        <4>2. v \in MergedWith(First(v))
          BY <4>1 DEF AllKnown
        <4> QED
          BY <2>5, <3>1, <4>2
      <3>2. CASE w # First(v)
        BY <2>5, <2>6, <3>2
      <3> QED
        BY <3>1, <3>2
    <2>8. IsMerged(w) /\ MergedWith(w) \cap acc.with # {}
      BY <2>7 DEF IsMerged
    <2>9. PICK s : s = acc.with \cup {w}
      OBVIOUS
    <2>10. f[k] = [acc EXCEPT !.ver = w, !.with = s]
      BY <2>4, <2>5, <2>6, <2>8, <2>9 DEF Reached
    <2>11. f[k].end = acc.end /\ f[k].ver = w /\ f[k].with = s
      BY <2>10 DEF Walked
    <2>12. On(k)
      BY <2>3, <2>5, <2>9, <2>11
    <2> QED
      BY <2>1, <2>12
  <1> HIDE DEF T
  <1>10. \A k \in 0 .. last : k \in T
    <2>1. last \in Nat
      BY VersAre
    <2> QED
      BY <1>8, <1>9, <2>1, CountsUp
  <1>11. f[last].ver = to[last]
    <2>1. last \in T
      BY <1>10, VersAre
    <2> QED
      BY <2>1 DEF T
  <1> DEFINE U == {k \in 0 .. LastVer : k < last \/ f[k].ver = to[last]}
  <1>12. 0 \in U
    <2>1. 0 < last \/ last = 0
      BY VersAre
    <2> QED
      BY <1>11, <2>1, VersAre
  <1>13. ASSUME NEW k \in 1 .. LastVer, k - 1 \in U
         PROVE  k \in U
    <2>1. k \in 0 .. LastVer
      BY VersAre
    <2>2. CASE k < last
      BY <2>1, <2>2
    <2>3. CASE k = last
      BY <1>11, <2>1, <2>3
    <2>4. CASE ~(k < last) /\ k # last
      <3>1. k \in last + 1 .. LastVer /\ ~(k - 1 < last)
        BY <2>4, VersAre
      <3>2. to[k] \notin Group(v)
        BY <1>6, <3>1
      <3>3. f[k - 1].ver = to[last]
        BY <1>13, <3>1
      <3>4. PICK acc \in Walked : acc = f[k - 1]
        BY <1>4
      <3>5. k - 1 \in 0 .. LastVer
        BY VersAre
      <3>6. First(acc.ver) = First(v) /\ \A u \in acc.with : First(u) = First(v)
        BY <1>2, <3>4, <3>5
      <3>7. PICK w : w = to[k]
        OBVIOUS
      <3>8. f[k] = Reached(acc, w)
        BY <1>4, <3>4, <3>7
      <3>9. Reached(acc, w).ver = acc.ver
        BY <3>2, <3>6, <3>7, ReachedInGroup
      <3> QED
        BY <2>1, <3>3, <3>4, <3>8, <3>9
    <2> QED
      BY <2>2, <2>3, <2>4
  <1> HIDE DEF U
  <1>14. \A k \in 0 .. LastVer : k \in U
    BY <1>12, <1>13, VersAre, CountsUp
  <1>15. f[LastVer].ver = to[last]
    <2>1. LastVer \in U /\ ~(LastVer < last)
      BY <1>14, VersAre
    <2> QED
      BY <2>1 DEF U
  <1> QED
    BY <1>1, <1>7, <1>15

LEMMA MinAndMaxAre ==
  ASSUME Grouped, found \in Lines, MergesAreOwn, NEW v \in Vers, AllKnown(v)
  PROVE  MinMerged(v) = First(v) /\ MaxMerged(v) = Latest(v)
  <1>1. PICK lo \in Vers, hi \in Vers : lo = First(v) /\ hi = Latest(v) /\ lo <= v /\ v <= hi
    BY GroupsAre, LatestIs
  <1>2. \A u \in Vers : u \in Group(v) <=> lo <= u /\ u <= hi
    BY <1>1, Between DEF Group
  <1>3. Walk(v, -1) = lo
    <2>1. PICK last \in 0 .. LastVer : last = v - lo
      BY <1>1, VersAre
    <2>2. PICK d \in Int : d = -1
      OBVIOUS
    <2>3. \A k \in 0 .. LastVer : v + d * k = v - k
      BY <2>2, VersAre
    <2>4. ASSUME NEW k \in 1 .. last
          PROVE  v + d * k \in Group(v) /\ v + d * k # v
      <3>1. v - k \in Vers /\ lo <= v - k /\ v - k <= hi /\ v - k # v /\ k \in 0 .. LastVer
        BY <1>1, <2>1, VersAre
      <3> QED
        BY <1>2, <2>3, <3>1
    <2>5. ASSUME NEW k \in last + 1 .. LastVer
          PROVE  v + d * k \notin Group(v)
      <3>1. ~(lo <= v - k) /\ k \in 0 .. LastVer
        BY <1>1, <2>1, VersAre
      <3>2. v - k \notin Group(v)
        BY <1>2, <3>1 DEF Group
      <3> QED
        BY <2>3, <3>1, <3>2
    <2>6. Walk(v, d) = IF last = 0 THEN v ELSE v + d * last
      BY <2>4, <2>5, WalkArrives
    <2> QED
      BY <1>1, <2>1, <2>2, <2>3, <2>6, VersAre
  <1>4. Walk(v, 1) = hi
    <2>1. PICK last \in 0 .. LastVer : last = hi - v
      BY <1>1, VersAre
    <2>2. PICK d \in Int : d = 1
      OBVIOUS
    <2>3. \A k \in 0 .. LastVer : v + d * k = v + k
      BY <2>2, VersAre
    <2>4. ASSUME NEW k \in 1 .. last
          PROVE  v + d * k \in Group(v) /\ v + d * k # v
      <3>1. v + k \in Vers /\ lo <= v + k /\ v + k <= hi /\ v + k # v /\ k \in 0 .. LastVer
        BY <1>1, <2>1, VersAre
      <3> QED
        BY <1>2, <2>3, <3>1
    <2>5. ASSUME NEW k \in last + 1 .. LastVer
          PROVE  v + d * k \notin Group(v)
      <3>1. ~(v + k <= hi) /\ k \in 0 .. LastVer
        BY <1>1, <2>1, VersAre
      <3>2. v + k \notin Group(v)
        BY <1>2, <3>1 DEF Group
      <3> QED
        BY <2>3, <3>1, <3>2
    <2>6. Walk(v, d) = IF last = 0 THEN v ELSE v + d * last
      BY <2>4, <2>5, WalkArrives
    <2> QED
      BY <1>1, <2>1, <2>2, <2>3, <2>6, VersAre
  <1> QED
    BY <1>1, <1>3, <1>4 DEF MinMerged, MaxMerged

LEMMA MaxInGroup ==
  ASSUME found \in Lines, MergesAreOwn, NEW v \in Vers
  PROVE  MaxMerged(v) \in Vers /\ First(MaxMerged(v)) = First(v)
  <1>1. PICK d \in Int : d = 1
    OBVIOUS
  <1>2. PICK f : WalkOf(f, v, d) /\ Walk(v, d) = f[LastVer].ver
    BY WalkIs
  <1>3. LastVer \in 0 .. LastVer
    BY VersAre
  <1>4. First(f[LastVer].ver) = First(v)
    BY <1>2, <1>3, WalkStays
  <1>5. f[LastVer].ver \in Vers
    BY <1>2, <1>3 DEF WalkOf, Walked
  <1> QED
    BY <1>1, <1>2, <1>4, <1>5 DEF MaxMerged

-----------------------------------------------------------------------------
\* When the logs have been read.
LEMMA AtTheEnd ==
  ASSUME XInv, AllRead, NEW n \in XNodes
  PROVE  /\ found.merged[n] = logs.merged[n]
         /\ \A w \in Vers : Copied(logs.started[n][w], found.started[n][w])
         /\ \A w \in Vers : Copied(logs.finished[n][w], found.finished[n][w])
  <1>1. reads >= 1 /\ reads >= 2 /\ reads >= 3
    BY DEF AllRead
  <1>2. Read(n)
    BY DEF XInv
  <1> QED
    BY <1>1, <1>2 DEF Read

\* A node has merged v into u.
HasMerged(n, u, v) == v <= at[n].ver /\ u = Entry(n, v) /\ u < v

LEMMA JoinsAre ==
  ASSUME XInv, AllRead, NEW n \in XNodes, NEW u \in Vers, NEW v \in Vers
  PROVE  <<u, v>> \in found.merged[n] <=> HasMerged(n, u, v)
  <1>1. found.merged[n] = {<<Entry(n, w), w>> : w \in {x \in Vers : x <= at[n].ver /\ Entry(n, x) < x}}
    BY AtTheEnd DEF XInv, Written
  <1>2. ASSUME <<u, v>> \in found.merged[n]
        PROVE  HasMerged(n, u, v)
    <2>1. PICK w \in {x \in Vers : x <= at[n].ver /\ Entry(n, x) < x} : <<u, v>> = <<Entry(n, w), w>>
      BY <1>1, <1>2
    <2>2. u = Entry(n, w) /\ v = w
      BY <2>1
    <2> QED
      BY <2>1, <2>2 DEF HasMerged
  <1>3. ASSUME HasMerged(n, u, v)
        PROVE  <<u, v>> \in found.merged[n]
    <2>1. v \in {x \in Vers : x <= at[n].ver /\ Entry(n, x) < x} /\ u = Entry(n, v)
      BY <1>3 DEF HasMerged
    <2>2. <<Entry(n, v), v>> \in found.merged[n]
      BY <1>1, <2>1
    <2> QED
      BY <2>1, <2>2
  <1> QED
    BY <1>2, <1>3

LEMMA MergesAre ==
  ASSUME XInv, AllRead
  PROVE  \A u, v : u \in MergedWith(v) <=>
           u \in Vers /\ v \in Vers /\ \E n \in XNodes : HasMerged(n, u, v) \/ HasMerged(n, v, u)
  <1>1. found \in Lines
    BY DEF XInv, XTyped
  <1> QED
    BY <1>1, MergedWithIs, JoinsAre

LEMMA InvMergesAreOwn ==
  ASSUME XInv, AllRead
  PROVE  MergesAreOwn
  <1>1. Grouped /\ Oldest
    BY DEF XInv
  <1>2. ASSUME NEW n \in XNodes, NEW u \in Vers, NEW v \in Vers, HasMerged(n, u, v)
        PROVE  First(u) = First(v) /\ u # v
    <2>1. u = Entry(n, v) /\ u < v /\ u \in Int /\ v \in Int
      BY <1>2, VersAre DEF HasMerged
    <2>2. ~(v < Entry(n, v)) /\ u # v
      BY <2>1
    <2>3. joinedAt[n] <= v
      BY <1>1, <2>2, EntryIs
    <2> QED
      BY <1>1, <2>1, <2>2, <2>3, EntryIs
  <1> SUFFICES ASSUME NEW w \in Vers, NEW u \in MergedWith(w)
               PROVE  u \in Vers /\ First(u) = First(w) /\ u # w
    BY DEF MergesAreOwn
  <1>3. PICK n \in XNodes : u \in Vers /\ (HasMerged(n, u, w) \/ HasMerged(n, w, u))
    BY MergesAre
  <1> QED
    BY <1>2, <1>3

LEMMA SeenIs ==
  ASSUME XInv, AllRead, NEW v \in Vers, NEW n \in XNodes
  PROVE  n \in Seen(v) <=> \/ StartedAt(n, v) # 0 \/ FinishedAt(n, v) # 0
                           \/ \E u \in Vers : HasMerged(n, u, v) \/ HasMerged(n, v, u)
  <1>1. PICK c \in SUBSET (Vers \X Vers) : c = found.merged[n]
    BY LinesAre DEF XInv, XTyped
  <1>2. \A u \in Vers : (<<u, v>> \in c <=> HasMerged(n, u, v)) /\ (<<v, u>> \in c <=> HasMerged(n, v, u))
    BY <1>1, JoinsAre
  <1>3. ASSUME NEW m \in c, v \in {m[1], m[2]}
        PROVE  \E u \in Vers : <<u, v>> \in c \/ <<v, u>> \in c
    <2>1. m[1] \in Vers /\ m[2] \in Vers /\ m = <<m[1], m[2]>> /\ (v = m[1] \/ v = m[2])
      BY <1>3
    <2> QED
      BY <2>1, <1>3
  <1>4. ASSUME NEW u \in Vers, <<u, v>> \in c \/ <<v, u>> \in c
        PROVE  \E m \in c : v \in {m[1], m[2]}
    <2>1. CASE <<u, v>> \in c
      <3>1. <<u, v>>[2] = v
        OBVIOUS
      <3> QED
        BY <2>1, <3>1
    <2>2. CASE <<v, u>> \in c
      <3>1. <<v, u>>[1] = v
        OBVIOUS
      <3> QED
        BY <2>2, <3>1
    <2> QED
      BY <1>4, <2>1, <2>2
  <1>5. (\E m \in c : v \in {m[1], m[2]}) <=> \E u \in Vers : HasMerged(n, u, v) \/ HasMerged(n, v, u)
    BY <1>2, <1>3, <1>4
  <1>6. n \in Seen(v) <=> \/ StartedAt(n, v) # 0 \/ FinishedAt(n, v) # 0
                          \/ \E m \in c : v \in {m[1], m[2]}
    BY <1>1 DEF Seen
  <1> QED
    BY <1>5, <1>6

LEMMA TimesAre ==
  ASSUME XInv, NEW n \in XNodes, NEW w \in Vers
  PROVE  /\ logs.started[n][w] \in 0 .. clock /\ logs.finished[n][w] \in 0 .. clock
         /\ found.started[n][w] \in 0 .. clock /\ found.finished[n][w] \in 0 .. clock
         /\ clock \in Nat /\ since \in 0 .. clock
         /\ at[n].ver \in 0 .. LastVer
  BY LinesAre DEF XInv, XTyped

\* What is found was written, and what was written before the first grep is found.
LEMMA FoundIs ==
  ASSUME XInv, AllRead, NEW n \in XNodes, NEW w \in Vers
  PROVE  /\ StartedAt(n, w) # 0 => StartedAt(n, w) = logs.started[n][w]
         /\ FinishedAt(n, w) # 0 => FinishedAt(n, w) = logs.finished[n][w]
         /\ logs.started[n][w] <= since => StartedAt(n, w) = logs.started[n][w]
         /\ logs.finished[n][w] <= since => FinishedAt(n, w) = logs.finished[n][w]
  <1>1. clock \in Nat /\ since \in 0 .. clock
    BY TimesAre
  <1>2. PICK s \in Nat : s = logs.started[n][w]
    BY <1>1, TimesAre
  <1>3. PICK s0 \in Nat : s0 = found.started[n][w]
    BY <1>1, TimesAre
  <1>4. PICK f \in Nat : f = logs.finished[n][w]
    BY <1>1, TimesAre
  <1>5. PICK f0 \in Nat : f0 = found.finished[n][w]
    BY <1>1, TimesAre
  <1>6. PICK c \in Nat : c = since
    BY <1>1
  <1>7. /\ s = logs.started[n][w] /\ s0 = found.started[n][w]
        /\ f = logs.finished[n][w] /\ f0 = found.finished[n][w] /\ c = since
    BY <1>2, <1>3, <1>4, <1>5, <1>6
  <1>8. Copied(s, s0) /\ Copied(f, f0)
    BY <1>7, AtTheEnd
  <1>9. (s <= c => s0 = s) /\ (s0 # 0 => s0 = s) /\ (f <= c => f0 = f) /\ (f0 # 0 => f0 = f)
    BY <1>7, <1>8 DEF Copied
  <1> QED
    BY <1>7, <1>9 DEF StartedAt, FinishedAt

\* A line that is found tells of the node that wrote it.
LEMMA WritersAre ==
  ASSUME XInv, AllRead, NEW n \in XNodes, NEW w \in Vers
  PROVE  /\ StartedAt(n, w) # 0 => w <= at[n].ver /\ Entry(n, w) = w /\ joinedAt[n] <= w
         /\ FinishedAt(n, w) # 0 => /\ w = Latest(w) /\ joinedAt[n] <= w /\ w <= at[n].ver
         /\ \A u \in Vers : HasMerged(n, u, w) => joinedAt[n] <= w
  <1>1. Grouped /\ Oldest /\ Written(n)
    BY DEF XInv
  <1>2. w \in Int /\ joinedAt[n] \in Int /\ Entry(n, w) \in Int
    BY <1>1, EntryIs, VersAre
  <1>3. ASSUME ~(w < Entry(n, w))
        PROVE  joinedAt[n] <= w
    BY <1>1, <1>3, EntryIs
  <1>4. ASSUME StartedAt(n, w) # 0
        PROVE  w <= at[n].ver /\ Entry(n, w) = w /\ joinedAt[n] <= w
    <2>1. logs.started[n][w] # 0
      BY <1>4, FoundIs
    <2>2. w <= at[n].ver /\ Entry(n, w) = w
      BY <1>1, <2>1 DEF Written
    <2> QED
      BY <1>2, <1>3, <2>2
  <1>5. ASSUME FinishedAt(n, w) # 0
        PROVE  w = Latest(w) /\ joinedAt[n] <= w /\ w <= at[n].ver
    <2>1. logs.finished[n][w] # 0
      BY <1>5, FoundIs
    <2> QED
      BY <1>1, <2>1 DEF Written
  <1>6. ASSUME NEW u \in Vers, HasMerged(n, u, w)
        PROVE  joinedAt[n] <= w
    <2>1. ~(w < Entry(n, w))
      BY <1>2, <1>6 DEF HasMerged
    <2> QED
      BY <1>3, <2>1
  <1> QED
    BY <1>4, <1>5, <1>6

\* A node that has finished a group before the logs were read is found to have entered and left it.
LEMMA ThroughIs ==
  ASSUME XInv, AllRead, NEW v \in Vers, NEW n \in XNodes, Through(n, v, since)
  PROVE  /\ Latest(v) <= at[n].ver
         /\ joinedAt[n] <= Latest(v)
         /\ FinishedAt(n, Latest(v)) # 0 /\ FinishedAt(n, Latest(v)) = logs.finished[n][Latest(v)]
         /\ StartedAt(n, Entry(n, v)) # 0 /\ StartedAt(n, Entry(n, v)) = logs.started[n][Entry(n, v)]
  <1>1. Grouped /\ Oldest /\ Written(n)
    BY DEF XInv
  <1>2. PICK last \in Vers : last = Latest(v) /\ First(last) = First(v)
    BY <1>1, LatestIs
  <1>3. PICK e \in Vers : e = Entry(n, v) /\ e = Entry(n, last)
    BY <1>1, <1>2, EntryIs
  <1>4. clock \in Nat /\ since \in 0 .. clock
    BY TimesAre
  <1>5. PICK f \in Nat : f = logs.finished[n][last]
    BY <1>4, TimesAre
  <1>6. PICK s \in Nat : s = logs.started[n][e]
    BY <1>4, TimesAre
  <1>7. PICK c \in Nat : c = since
    BY <1>4
  <1>8. f = logs.finished[n][last] /\ s = logs.started[n][e] /\ c = since
    BY <1>5, <1>6, <1>7
  <1>9. f <= c /\ f # 0
    BY <1>2, <1>8 DEF Through
  <1>10. last <= at[n].ver /\ joinedAt[n] <= last /\ s <= f
    BY <1>1, <1>3, <1>8, <1>9 DEF Written
  <1>11. e <= last /\ Entry(n, e) = e
    BY <1>1, <1>3, <1>10, EntryIs
  <1>12. e <= at[n].ver
    BY <1>10, <1>11, TimesAre, VersAre
  <1>13. s # 0
    BY <1>1, <1>8, <1>11, <1>12 DEF Written
  <1>14. s <= c
    BY <1>9, <1>10
  <1>15. FinishedAt(n, last) = f /\ StartedAt(n, e) = s
    BY <1>8, <1>9, <1>14, FoundIs
  <1> QED
    BY <1>2, <1>3, <1>8, <1>9, <1>10, <1>13, <1>15

\* The oldest node is in every topology, and enters every group with its first version.
LEMMA OldestIs ==
  ASSUME Grouped, Oldest, NEW v \in Vers
  PROVE  \E n \in XNodes : /\ n \in Members(v) /\ n \in Veterans(v)
                           /\ \A w \in Vers : Entry(n, w) = First(w)
  <1>1. PICK n \in XNodes : joinedAt[n] = 1
    BY DEF Oldest
  <1>2. \A w \in Vers : First(w) \in Vers /\ Latest(w) \in Vers
    BY GroupsAre, LatestIs
  <1>3. \A w \in Vers : 1 <= w
    BY VersAre
  <1> QED
    BY <1>1, <1>2, <1>3 DEF Members, Veterans, Entry

LEMMA TopologiesAre ==
  ASSUME XInv, NEW v \in Vers
  PROVE  /\ Veterans(v) \subseteq Members(v) /\ Members(v) \subseteq XNodes
         /\ Members(v) # {} /\ Veterans(v) # {}
         /\ \A n \in XNodes : \A w \in Vers : First(w) = First(v) /\ joinedAt[n] <= w => n \in Members(v)
  <1>1. Grouped /\ Oldest
    BY DEF XInv
  <1>2. /\ First(v) \in Int /\ Latest(v) \in Int /\ First(v) <= Latest(v)
    <2>1. First(v) \in Vers /\ Latest(v) \in Vers /\ v \in Vers /\ First(v) <= v /\ v <= Latest(v)
      BY <1>1, GroupsAre, LatestIs
    <2> QED
      BY <2>1, VersAre
  <1>3. \A n \in XNodes : joinedAt[n] \in Int
    BY <1>1, VersAre DEF Oldest
  <1>4. \A w \in Vers : First(w) = First(v) => w <= Latest(v) /\ w \in Int
    BY <1>1, LatestIs, VersAre
  <1> QED
    BY <1>1, <1>2, <1>3, <1>4, OldestIs DEF Members, Veterans

\* Of a group that is over all merges are found, and who entered it first and who left it.
LEMMA OverIs ==
  ASSUME XInv, AllRead, NEW v \in Vers, OverAt(v, since)
  PROVE  /\ AllKnown(v)
         /\ StartedIn(First(v)) = Veterans(v) /\ FinishedIn(Latest(v)) = Members(v)
         /\ \A n \in Veterans(v) : StartedAt(n, First(v)) = logs.started[n][First(v)]
         /\ \A n \in Members(v) : FinishedAt(n, Latest(v)) = logs.finished[n][Latest(v)]
  <1>1. Grouped /\ Oldest
    BY DEF XInv
  <1>2. \A n \in Members(v) : n \in XNodes /\ Through(n, v, since)
    BY DEF OverAt, Members
  <1>3. PICK lo \in Vers, hi \in Vers : /\ lo = First(v) /\ hi = Latest(v)
                                        /\ First(lo) = First(v) /\ First(hi) = First(v)
    BY <1>1, GroupsAre, LatestIs
  <1>4. PICK o \in XNodes : o \in Members(v) /\ \A w \in Vers : Entry(o, w) = First(w)
    BY <1>1, OldestIs
  <1>5. ASSUME NEW w \in Group(v), w # First(v)
        PROVE  HasMerged(o, First(v), w)
    <2>1. w \in Vers /\ First(w) = First(v) /\ First(w) <= w /\ w <= Latest(v) /\ Latest(v) <= at[o].ver
      BY <1>1, <1>2, <1>4, ThroughIs, GroupsAre, LatestIs DEF Group
    <2>2. w <= at[o].ver /\ First(v) < w
      BY <1>3, <1>5, <2>1, VersAre, TimesAre
    <2> QED
      BY <1>4, <2>1, <2>2 DEF HasMerged
  <1>6. AllKnown(v)
    <2> SUFFICES ASSUME NEW w \in Group(v)
                 PROVE  w \in Known /\ (w # First(v) => First(v) \in MergedWith(w) /\ w \in MergedWith(First(v)))
      BY DEF AllKnown
    <2>1. w \in Vers
      BY DEF Group
    <2>2. CASE w # First(v)
      <3>1. o \in Seen(w)
        BY <1>3, <1>5, <2>1, <2>2, SeenIs
      <3> QED
        BY <1>3, <1>5, <2>1, <2>2, <3>1, MergesAre DEF Known
    <2>3. CASE w = First(v)
      <3>1. StartedAt(o, w) # 0
        BY <1>2, <1>4, <2>3, ThroughIs
      <3>2. o \in Seen(w)
        BY <2>1, <3>1, SeenIs
      <3> QED
        BY <2>1, <2>3, <3>2 DEF Known
    <2> QED
      BY <2>2, <2>3
  <1>7. ASSUME NEW n \in Veterans(v)
        PROVE  n \in StartedIn(lo) /\ StartedAt(n, lo) = logs.started[n][lo]
    <2>1. n \in XNodes /\ n \in Members(v) /\ Entry(n, v) = lo
      BY <1>3, TopologiesAre DEF Veterans, Entry
    <2>2. StartedAt(n, lo) # 0 /\ StartedAt(n, lo) = logs.started[n][lo]
      BY <1>2, <2>1, ThroughIs
    <2> QED
      BY <2>1, <2>2 DEF StartedIn
  <1>8. ASSUME NEW n \in StartedIn(lo)
        PROVE  n \in Veterans(v)
    <2>1. n \in XNodes /\ StartedAt(n, lo) # 0
      BY DEF StartedIn
    <2>2. joinedAt[n] <= lo
      BY <2>1, WritersAre
    <2> QED
      BY <1>3, <2>1, <2>2 DEF Veterans
  <1>9. ASSUME NEW n \in Members(v)
        PROVE  n \in FinishedIn(hi) /\ FinishedAt(n, hi) = logs.finished[n][hi]
    BY <1>2, <1>3, ThroughIs DEF FinishedIn
  <1>10. ASSUME NEW n \in FinishedIn(hi)
         PROVE  n \in Members(v)
    <2>1. n \in XNodes /\ FinishedAt(n, hi) # 0
      BY DEF FinishedIn
    <2>2. joinedAt[n] <= hi
      BY <2>1, WritersAre
    <2> QED
      BY <1>3, <2>1, <2>2 DEF Members
  <1>11. StartedIn(lo) = Veterans(v)
    BY <1>7, <1>8
  <1>12. FinishedIn(hi) = Members(v)
    BY <1>9, <1>10
  <1> QED
    BY <1>3, <1>6, <1>7, <1>9, <1>11, <1>12

LEMMA SameSize ==
  ASSUME NEW S \in SUBSET XNodes, NEW T \in SUBSET S, Cardinality(T) = Cardinality(S)
  PROVE  T = S
  <1>1. IsFiniteSet(S)
    BY ExchangesAssumption, FS_Subset
  <1> QED
    BY <1>1, FS_Subset

\* What no merge is known of is the only version of its group, if the group is over.
LEMMA AloneIs ==
  ASSUME XInv, AllRead, NEW v \in Vers, AllKnown(v), ~IsMerged(v)
  PROVE  First(v) = v /\ Latest(v) = v
  <1>1. Grouped
    BY DEF XInv
  <1>2. PICK hi \in Vers : hi = Latest(v) /\ First(hi) = First(v)
    BY <1>1, LatestIs
  <1>3. v \in Group(v) /\ hi \in Group(v)
    BY <1>2 DEF Group
  <1>4. MergedWith(v) = {}
    BY DEF IsMerged
  <1>5. First(v) = v
    BY <1>3, <1>4 DEF AllKnown
  <1>6. hi = v
    BY <1>3, <1>4, <1>5 DEF AllKnown
  <1> QED
    BY <1>2, <1>5, <1>6

\* All nodes that are seen of a version are of its topology.
LEMMA SeenAreMembers ==
  ASSUME XInv, AllRead, NEW v \in Vers, ~IsMerged(v)
  PROVE  /\ Seen(v) \subseteq Members(v) /\ Seen(v) = StartedIn(v) \cup FinishedIn(v)
         /\ clock = since => FinishedIn(v) \subseteq StartedIn(v)
  <1>1. Grouped /\ Oldest
    BY DEF XInv
  <1>2. \A n \in XNodes, u \in Vers : ~HasMerged(n, u, v) /\ ~HasMerged(n, v, u)
    BY MergesAre DEF IsMerged
  <1>3. \A n \in XNodes : n \in Seen(v) <=> StartedAt(n, v) # 0 \/ FinishedAt(n, v) # 0
    BY <1>2, SeenIs
  <1>4. Seen(v) \subseteq XNodes
    BY DEF Seen
  <1>5. Seen(v) = StartedIn(v) \cup FinishedIn(v)
    BY <1>3, <1>4 DEF StartedIn, FinishedIn
  <1>6. \A n \in XNodes : StartedAt(n, v) # 0 \/ FinishedAt(n, v) # 0 => joinedAt[n] <= v
    BY WritersAre
  <1>7. Seen(v) \subseteq Members(v)
    BY <1>3, <1>4, <1>6, TopologiesAre
  <1>8. ASSUME clock = since, NEW n \in FinishedIn(v)
        PROVE  n \in StartedIn(v)
    <2>1. n \in XNodes /\ FinishedAt(n, v) # 0
      BY DEF FinishedIn
    <2>2. joinedAt[n] <= v /\ v <= at[n].ver
      BY <2>1, WritersAre
    <2>3. PICK e \in Vers : e = Entry(n, v) /\ e <= v
      BY <1>1, <2>1, <2>2, EntryIs
    <2>4. e = v
      <3>1. ~(e < v)
        BY <1>2, <2>1, <2>2, <2>3 DEF HasMerged
      <3> QED
        BY <2>3, <3>1, VersAre
    <2>5. logs.started[n][v] # 0
      BY <2>1, <2>2, <2>3, <2>4 DEF XInv, Written
    <2>6. logs.started[n][v] <= since
      BY <1>8, <2>1, TimesAre
    <2>7. StartedAt(n, v) # 0
      BY <2>1, <2>5, <2>6, FoundIs
    <2> QED
      BY <2>1, <2>7 DEF StartedIn
  <1> QED
    BY <1>5, <1>7, <1>8

LEMMA KnownIs ==
  ASSUME NEW v \in Vers, AllKnown(v)
  PROVE  v \in Known
  BY DEF AllKnown, Group

LEMMA FinishedIsSaid ==
  ASSUME XInv, AllRead, NEW v \in Vers, OverAt(v, since)
  PROVE  IsExchangeFinished(v, Cardinality(Members(v)))
  <1>1. Grouped /\ found \in Lines /\ MergesAreOwn
    BY InvMergesAreOwn DEF XInv, XTyped
  <1>2. AllKnown(v) /\ v \in Known
    BY OverIs, KnownIs
  <1>3. FinishedIn(Latest(v)) = Members(v) /\ StartedIn(First(v)) = Veterans(v)
    BY OverIs
  <1>4. CASE IsMerged(v)
    <2>1. MaxMerged(v) = Latest(v)
      BY <1>1, <1>2, MinAndMaxAre
    <2> QED
      BY <1>2, <1>3, <1>4, <2>1 DEF IsExchangeFinished
  <1>5. CASE ~IsMerged(v)
    <2>1. First(v) = v /\ Latest(v) = v
      BY <1>2, <1>5, AloneIs
    <2>2. FinishedIn(v) = Members(v) /\ StartedIn(v) = Veterans(v)
      BY <1>3, <2>1
    <2>3. Veterans(v) = Members(v)
      BY <2>1 DEF Veterans, Members
    <2>4. Seen(v) = Members(v) /\ StartedIn(v) = FinishedIn(v)
      BY <1>5, <2>2, <2>3, SeenAreMembers
    <2> QED
      BY <1>2, <1>5, <2>4 DEF IsExchangeFinished
  <1> QED
    BY <1>4, <1>5

LEMMA SaidIsFinished ==
  ASSUME XInv, AllRead, clock = since, NEW v \in Vers, IsExchangeFinished(v, Cardinality(Members(v)))
  PROVE  OverAt(v, clock)
  <1>1. Grouped /\ found \in Lines /\ MergesAreOwn
    BY InvMergesAreOwn DEF XInv, XTyped
  <1>2. Members(v) # {} /\ Members(v) \in SUBSET XNodes
    BY TopologiesAre
  <1>3. PICK hi \in Vers : hi = Latest(v)
    BY <1>1, LatestIs
  <1>4. Members(v) \subseteq FinishedIn(hi)
    <2>1. CASE IsMerged(v)
      <3>1. PICK m \in Vers : m = MaxMerged(v) /\ First(m) = First(v)
        BY <1>1, MaxInGroup
      <3>2. Cardinality(FinishedIn(m)) = Cardinality(Members(v))
        BY <2>1, <3>1 DEF IsExchangeFinished
      <3>3. \A n \in FinishedIn(m) : n \in Members(v) /\ m = Latest(m)
        <4>1. \A n \in FinishedIn(m) : n \in XNodes /\ FinishedAt(n, m) # 0
          BY DEF FinishedIn
        <4>2. \A n \in FinishedIn(m) : joinedAt[n] <= m /\ m = Latest(m)
          BY <4>1, WritersAre
        <4> QED
          BY <3>1, <4>1, <4>2, TopologiesAre
      <3>4. FinishedIn(m) = Members(v)
        BY <1>2, <3>2, <3>3, SameSize
      <3>5. m = hi
        BY <1>1, <1>2, <1>3, <3>1, <3>3, <3>4, SameLatest
      <3> QED
        BY <3>4, <3>5
    <2>2. CASE ~IsMerged(v)
      <3>1. Cardinality(Seen(v)) = Cardinality(Members(v)) /\ Cardinality(StartedIn(v)) = Cardinality(FinishedIn(v))
        BY <2>2 DEF IsExchangeFinished
      <3>2. Seen(v) = Members(v)
        BY <1>2, <2>2, <3>1, SeenAreMembers, SameSize
      <3>3. FinishedIn(v) = StartedIn(v)
        <4>1. StartedIn(v) \in SUBSET XNodes
          BY DEF StartedIn
        <4> QED
          BY <2>2, <3>1, <4>1, SeenAreMembers, SameSize
      <3>4. FinishedIn(v) = Members(v)
        BY <2>2, <3>2, <3>3, SeenAreMembers
      <3>5. \A n \in FinishedIn(v) : n \in XNodes /\ FinishedAt(n, v) # 0
        BY DEF FinishedIn
      <3>6. v = hi
        BY <1>2, <1>3, <3>4, <3>5, WritersAre
      <3> QED
        BY <3>4, <3>6
    <2> QED
      BY <2>1, <2>2
  <1> SUFFICES ASSUME NEW n \in Members(v)
               PROVE  Through(n, v, clock)
    BY DEF OverAt
  <1>5. n \in XNodes /\ FinishedAt(n, hi) # 0
    BY <1>4 DEF FinishedIn
  <1>6. logs.finished[n][hi] # 0 /\ logs.finished[n][hi] \in 0 .. clock /\ clock \in Nat
    BY <1>5, FoundIs, TimesAre
  <1> QED
    BY <1>3, <1>6 DEF Through

LEMMA XInvFinished == XInv => FinishedIsFinished
  <1> SUFFICES ASSUME XInv, AllRead, NEW v \in Vers
               PROVE  /\ OverAt(v, since) => IsExchangeFinished(v, Cardinality(Members(v)))
                      /\ clock = since /\ IsExchangeFinished(v, Cardinality(Members(v))) => OverAt(v, clock)
    BY DEF FinishedIsFinished
  <1> QED
    BY FinishedIsSaid, SaidIsFinished

LEMMA XInvTimes == XInv => TimesAreTrue
  <1> SUFFICES ASSUME XInv, AllRead, NEW v \in Vers, OverAt(v, since)
               PROVE  /\ X2(v) = Max({logs.finished[n][Latest(v)] : n \in Members(v)})
                                   - Min({logs.started[n][First(v)] : n \in Veterans(v)})
                      /\ X1(v) = Max({logs.finished[n][Latest(v)] - logs.started[n][First(v)] : n \in Veterans(v)})
    BY DEF TimesAreTrue
  <1>1. Grouped /\ found \in Lines /\ MergesAreOwn
    BY InvMergesAreOwn DEF XInv, XTyped
  <1>2. AllKnown(v) /\ v \in Known
    BY OverIs, KnownIs
  <1>3. PICK lo \in Vers, hi \in Vers : lo = First(v) /\ hi = Latest(v)
    BY <1>1, GroupsAre, LatestIs
  <1>4. MinMerged(v) = lo /\ MaxMerged(v) = hi
    BY <1>1, <1>2, <1>3, MinAndMaxAre
  <1>5. PICK M, V : M = Members(v) /\ V = Veterans(v)
    OBVIOUS
  <1>6. StartedIn(lo) = V /\ FinishedIn(hi) = M /\ V \subseteq M /\ V # {} /\ M # {}
    BY <1>3, <1>5, OverIs, TopologiesAre
  <1>7. (\A n \in V : StartedAt(n, lo) = logs.started[n][lo]) /\ (\A n \in M : FinishedAt(n, hi) = logs.finished[n][hi])
    BY <1>3, <1>5, OverIs
  <1>8. X2(v) = Max({logs.finished[n][hi] : n \in M}) - Min({logs.started[n][lo] : n \in V})
    <2>1. {FinishedAt(n, hi) : n \in M} = {logs.finished[n][hi] : n \in M}
      BY <1>7
    <2>2. {StartedAt(n, lo) : n \in V} = {logs.started[n][lo] : n \in V}
      BY <1>7
    <2>3. X2(v) = Max({FinishedAt(n, hi) : n \in M}) - Min({StartedAt(n, lo) : n \in V})
      BY <1>2, <1>4, <1>6 DEF X2
    <2> QED
      BY <2>1, <2>2, <2>3
  <1>9. X1(v) = Max({logs.finished[n][hi] - logs.started[n][lo] : n \in V})
    <2>1. StartedIn(lo) \cap FinishedIn(hi) = V
      BY <1>6
    <2>2. X1(v) = Max({FinishedAt(n, hi) - StartedAt(n, lo) : n \in V})
      BY <1>2, <1>4, <1>6, <2>1 DEF X1
    <2>3. {FinishedAt(n, hi) - StartedAt(n, lo) : n \in V} = {logs.finished[n][hi] - logs.started[n][lo] : n \in V}
      BY <1>6, <1>7
    <2> QED
      BY <2>2, <2>3
  <1> QED
    BY <1>3, <1>5, <1>8, <1>9

\* is_exchange_finished says True of every exchange that all nodes of its topology had finished
\* before the logs were read, and of no other if nothing was written meanwhile.
THEOREM FinishedExchangesAreFinished == Spec => []FinishedIsFinished
  <1>1. Init => XInv
    BY XInvInit
  <1>2. XInv /\ [Next]_vars => XInv'
    BY XInvNext
  <1>3. XInv => FinishedIsFinished
    BY XInvFinished
  <1> QED
    BY <1>1, <1>2, <1>3, PTL DEF Spec

\* Of an exchange that was over before the logs were read get_exchange_x2_time is the time from
\* the first start of its group to the last finish, and get_exchange_x1_time that of the slowest
\* of the nodes that were there from the start.
THEOREM ExchangeTimesAreTrue == Spec => []TimesAreTrue
  <1>1. Init => XInv
    BY XInvInit
  <1>2. XInv /\ [Next]_vars => XInv'
    BY XInvNext
  <1>3. XInv => TimesAreTrue
    BY XInvTimes
  <1> QED
    BY <1>1, <1>2, <1>3, PTL DEF Spec
=============================================================================
