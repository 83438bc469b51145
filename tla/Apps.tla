-------------------------------- MODULE Apps --------------------------------
(***************************************************************************)
(* A test class with two applications, ZooKeeper and a Java application:   *)
(* the runner's calls (AppsContainer), the calls its tests make one after  *)
(* the other (Zookeeper, JavaApp), the restarting thread, and processes    *)
(* that end by themselves.                                                 *)
(*                                                                         *)
(* A new instance of an application begins with an empty table, while the  *)
(* processes an old one has started go on running.                         *)
(***************************************************************************)
EXTENDS Zookeeper, JavaApp, AppsContainer

CONSTANTS
  JavaName, ZkName   \* the two applications

ASSUME AppsAssumption == Names = {JavaName, ZkName} /\ JavaName # ZkName

vars == <<zkVars, javaVars, containerVars, events>>

TypeOK ==
  /\ ZkTypeOK /\ JavaTypeOK /\ ContainerTypeOK
  /\ events \in 0 .. MaxEvents

Init == ZkInit /\ JavaInit /\ ContainerInit /\ events = 0

-----------------------------------------------------------------------------
MainFree == ZkIdle("main") /\ within # "exit" /\ JavaIdle

\* The constructors: the table of ZooKeeper has its nodes, that of the Java application none.
Construct ==
  /\ zk' = IF ZkName \in Replaced THEN NewZk ELSE zk
  /\ java' = IF JavaName \in Replaced THEN << >> ELSE java
  /\ launchOf' = IF JavaName \in Replaced THEN << >> ELSE launchOf
  /\ javaCall' = IF JavaName \in Replaced THEN JavaEnd("none", << >>) ELSE javaCall
  /\ abandoned' = IF JavaName \in Replaced THEN {} ELSE abandoned
  /\ UNCHANGED <<pidFile, zkAlive, zooCfg, act, todo, thread, running, within, zkCall,
                 mixed, procs>>

Requirements == CheckRequirements /\ Construct

\* setup() of the Java application adds nodes, that of ZooKeeper changes files only.
Setup ==
  /\ \E k \in 0 .. Len(Configured) :
       /\ SetUp(k)
       /\ IF JavaName \in Upto(k) THEN JavaSetup ELSE UNCHANGED javaVars
  /\ UNCHANGED zkVars

Teardown == MainFree /\ within = "out" /\ TearDown /\ UNCHANGED <<zkVars, javaVars>>

\* A call that a test makes, and the steps of what goes on.
Test == /\ phase = "ready" /\ MainFree
        /\ UNCHANGED containerVars

ZkTest(A)   == Test /\ A /\ UNCHANGED javaVars
JavaTest(A) == Test /\ A /\ UNCHANGED zkVars

ZkStep(A)   == A /\ UNCHANGED <<javaVars, containerVars>>
JavaStep(A) == A /\ UNCHANGED <<zkVars, containerVars>>

Done == /\ MainFree /\ within = "out"
        /\ phases = MaxPhases \/ events = MaxEvents
        /\ UNCHANGED vars

Next ==
  \/ Requirements \/ Setup \/ Teardown
  \/ ZkTest(ZkStart) \/ ZkTest(ZkStop) \/ ZkTest(InheritedKill)
  \/ ZkTest(EnterWith) \/ ZkStep(ExitWith)
  \/ \E n \in ZkNodes : \/ \E op \in {"start", "kill", "stop"} : ZkTest(ZkNodeCall(op, n))
                        \/ \E flush \in BOOLEAN : ZkTest(UpdateConfig(n, flush))
                        \/ \E p \in Pids : ZkStep(ZkDies(n, p))
  \/ \E a \in Actors :
       \/ \E n \in ZkNodes : \/ ZkStep(StartNode(a, n))
                             \/ ZkStep(KillNode(a, n))
                             \/ ZkStep(StopNode(a, n))
       \/ ZkStep(Launch(a)) \/ ZkStep(ReadPid(a)) \/ ZkStep(Record(a))
       \/ ZkStep(Signal(a)) \/ ZkStep(StopCommand(a)) \/ ZkStep(Mark(a))
  \/ ZkStep(Run) \/ ZkStep(Join)
  \/ JavaTest(StartNodes)
  \/ \E i \in JNodes : JavaTest(StartJavaNode(i))
  \/ \E ids \in {JNodes} \cup {{i} : i \in JNodes}, sigkill \in BOOLEAN :
       JavaTest(JavaKill(ids, sigkill))
  \/ JavaStep(CheckStarted)
  \/ \E p \in Procs : JavaStep(JavaDies(p))
  \/ Done

\* The threads run and the hosts answer; the tests need not call, nothing need fail.
Fairness == /\ \A a \in Actors : WF_vars(ZkStep(Operation(a)))
            /\ WF_vars(ZkStep(Run)) /\ WF_vars(ZkStep(Join))
            /\ WF_vars(JavaStep(CheckStarted))

Spec == Init /\ [][Next]_vars /\ Fairness
=============================================================================
