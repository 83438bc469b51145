------------------------------- MODULE Tools -------------------------------
(***************************************************************************)
(* Five parts of Tiden that share no state with each other: the collection *)
(* of the tests, the analysis of the exchanges, the search for failures in *)
(* a log, the steps of the report and the plugin that kills Java           *)
(* processes.  A behaviour is one of one of them; the others stay in an    *)
(* initial state.                                                          *)
(***************************************************************************)
EXTENDS Collection, Exchanges, LogFailures, ReportSteps, JavaKiller

VARIABLE part

vars == <<part, collectionVars, exchangesVars, failuresVars, reportVars, killerVars>>

Parts == {"collection", "exchanges", "failures", "report", "killer"}

TypeOK ==
  /\ part \in Parts
  /\ CollectionTypeOK /\ ExchangesTypeOK /\ FailuresTypeOK /\ ReportTypeOK /\ KillerTypeOK

\* The collection is one of its initial states while it does not matter.
SameForAll ==
  /\ \A s, t \in CTests : says[s] = says[t]
  /\ says[CHOOSE t \in CTests : TRUE] = CHOOSE m \in MarksOf : TRUE
  /\ given = CHOOSE g \in Givens : TRUE
  /\ filter.passed = (CHOOSE p \in Passed : TRUE) /\ filter.match = "any"

Init ==
  /\ part \in Parts
  /\ CollectionInit /\ (part # "collection" => SameForAll)
  /\ ExchangesInit
  /\ part # "exchanges" => groupOf = [v \in Vers |-> v] /\ joinedAt = [n \in XNodes |-> 1]
  /\ FailuresInit /\ ReportInit /\ KillerInit
  /\ part # "killer" => before = {} /\ ~force


-----------------------------------------------------------------------------
OfCollection(A) == part = "collection" /\ A /\ UNCHANGED <<part, exchangesVars, failuresVars, reportVars, killerVars>>
OfExchanges(A) == part = "exchanges" /\ A /\ UNCHANGED <<part, collectionVars, failuresVars, reportVars, killerVars>>
OfFailures(A)  == part = "failures" /\ A /\ UNCHANGED <<part, collectionVars, exchangesVars, reportVars, killerVars>>
OfReport(A)    == part = "report" /\ A /\ UNCHANGED <<part, collectionVars, exchangesVars, failuresVars, killerVars>>
OfKiller(A)    == part = "killer" /\ A /\ UNCHANGED <<part, collectionVars, exchangesVars, failuresVars, reportVars>>

Collecting ==
  \/ OfCollection(CollectConfiguration) \/ OfCollection(CollectNext)
  \/ OfCollection(RunSession) \/ OfCollection(PlanModule)

Analysis ==
  \/ OfExchanges(Grep)
  \/ \E n \in XNodes :
       \/ OfExchanges(StartExchange(n)) \/ OfExchanges(MergeExchange(n))
       \/ OfExchanges(FinishExchange(n))

Scanning ==
  \/ \E kind \in LineKinds :
       OfFailures(LineInside(kind)) \/ OfFailures(LineStarts(kind)) \/ OfFailures(LineBetween(kind))
  \/ OfFailures(EndOfFile)

Reporting ==
  \/ OfReport(StartTest)
  \/ \E name \in Phases : OfReport(EnterPhase(name))
  \/ \E linked \in BOOLEAN : OfReport(Call(linked))
  \/ OfReport(AddAttachment)
  \/ \E outcome \in Outcomes : OfReport(Return(outcome))
  \/ \E how \in {"returns", "raises", "hook raises"}, hosts \in 0 .. MaxLogHosts, fails \in BOOLEAN :
       OfReport(EndBody(how, hosts, fails))
  \/ OfReport(StepBetween) \/ OfReport(NextTest)

Killing ==
  \/ \E h \in KHosts : OfKiller(Answer(h)) \/ OfKiller(KillAll(h))
  \/ OfKiller(NoAnswer) \/ OfKiller(OwnersKnown) \/ OfKiller(FirstKnown)
  \/ OfKiller(AllSignalled) \/ OfKiller(Looked)
  \/ \E p \in Procs : OfKiller(ProcStarts(p)) \/ OfKiller(ProcEnds(p))

Next == Collecting \/ Analysis \/ Scanning \/ Reporting \/ Killing

Spec == Init /\ [][Next]_vars
=============================================================================
