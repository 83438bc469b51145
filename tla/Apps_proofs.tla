----------------------------- MODULE Apps_proofs -----------------------------
(***************************************************************************)
(* Proofs about the ZooKeeper nodes and the thread that restarts them, for *)
(* any number of nodes, while the runner sets its test class up and takes  *)
(* it down and processes end by themselves.                                *)
(*                                                                         *)
(* A process that runs is the one of the PID file of its node (AliveOK).   *)
(* Of a node no two actors have worked on at a time the table is true      *)
(* between the operations, and what each operation relies on in between is *)
(* stated at the place where it waits (SoundAt).  The thread kills a node  *)
(* only if the next thing it does is to start it (RoundOK, BackOK).  stop()*)
(* ends the process of each node that still has one (StopOK): no other     *)
(* actor is there at that time.                                            *)
(*                                                                         *)
(* The second part is about the nodes of the Java application, for any     *)
(* hosts and any number of nodes.  If there is an output that is a PID at  *)
(* the position of each node, no output is missing (AllAnswered), for the  *)
(* last command of a host is that of one of its nodes.  A start that has   *)
(* not raised has therefore launched a process for each of its nodes and   *)
(* found the PID of each (CallOwn), and the row of a node has the process  *)
(* that runs, if the node is not abandoned (KnownProcs).                   *)
(***************************************************************************)
EXTENDS Apps, TLAPS, SequenceTheorems, WellFoundedInduction

-----------------------------------------------------------------------------
ZTyped ==
  /\ DOMAIN zk = ZkNodes
  /\ \A n \in ZkNodes : DOMAIN zk[n] = {"state", "killer", "pid", "config"}
  /\ DOMAIN pidFile = ZkNodes
  /\ DOMAIN act = Actors
  /\ \A a \in Actors :
       /\ act[a].pc \in {"idle", "launch", "read", "record", "signal", "stop", "mark"}
       /\ act[a].node \in ZkNodes
  /\ todo \in [Actors -> Seq({"start", "kill", "stop"} \X ZkNodes)]

AliveOK == zkAlive \subseteq {<<n, pidFile[n]>> : n \in ZkNodes}

Runs(n)     == Lives(n, pidFile[n])
Works(a, n) == act[a].pc # "idle" /\ act[a].node = n

\* Where an operation on a node waits, and what it relies on there.
SoundAt(n) ==
  /\ ~(Works("main", n) /\ Works("restarter", n))
  /\ ~Works("main", n) /\ ~Works("restarter", n) =>
       IF zk[n].state = "STARTED" THEN Runs(n) /\ zk[n].pid = pidFile[n] ELSE ~Runs(n)
  /\ \A a \in Actors : Works(a, n) =>
       /\ act[a].pc \in {"launch", "read", "record"} => zk[n].state # "STARTED"
       /\ act[a].pc \in {"launch", "mark"} => ~Runs(n)
       /\ act[a].pc \in {"read", "record"} => Runs(n)
       /\ act[a].pc = "record" => act[a].pid = pidFile[n]
       /\ act[a].pc = "signal" /\ Runs(n) => act[a].pid = pidFile[n]

TableOK == \A n \in ZkNodes \ mixed : SoundAt(n)

\* The thread starts the node, or is about to.
Restarting(n) ==
  \/ act["restarter"].pc \in {"launch", "read", "record"} /\ act["restarter"].node = n
  \/ act["restarter"].pc = "idle" /\ todo["restarter"] # << >> /\ Head(todo["restarter"]) = <<"start", n>>

BackOK ==
  \A n \in ZkNodes \ mixed : zk[n].state = "KILLED" /\ zk[n].killer # "main" => Restarting(n)

\* Every kill is followed by a start of the same node.
Paired(ops) ==
  \A i \in 1 .. Len(ops) :
    /\ ops[i][1] # "stop"
    /\ ops[i][1] = "kill" => i < Len(ops) /\ ops[i + 1] = <<"start", ops[i][2]>>

RoundOK ==
  /\ Paired(todo["restarter"])
  /\ act["restarter"].pc # "stop"
  /\ act["restarter"].pc \in {"signal", "mark"} =>
       todo["restarter"] # << >> /\ Head(todo["restarter"]) = <<"start", act["restarter"].node>>

ThreadOK ==
  /\ thread # "running" => ZkIdle("restarter")
  /\ within = "out" => thread # "running"

\* While stop() goes on outside of a `with` block, each node that runs is still to be stopped.
StopOK ==
  zkCall = "stop" =>
    /\ within = "out"
    /\ act["main"].pc \in {"idle", "stop", "mark"}
    /\ \A i \in 1 .. Len(todo["main"]) : todo["main"][i][1] = "stop"
    /\ \A n \in ZkNodes : Runs(n) =>
         \/ \E i \in 1 .. Len(todo["main"]) : todo["main"][i] = <<"stop", n>>
         \/ act["main"].pc = "stop" /\ act["main"].node = n

\* Before all the applications are created no test runs.
CreatedOK ==
  /\ phase \in {"checked", "ready", "failed"} => appsCreated
  /\ ~appsCreated => /\ zk = NewZk /\ zkAlive = {} /\ within = "out"
                     /\ ZkIdle("main") /\ ZkIdle("restarter")

ZInv == ZTyped /\ AliveOK /\ TableOK /\ BackOK /\ RoundOK /\ ThreadOK /\ StopOK /\ CreatedOK

ZPart == ZTyped /\ AliveOK /\ TableOK /\ BackOK /\ RoundOK /\ ThreadOK /\ StopOK

-----------------------------------------------------------------------------
Ops == {"start", "kill", "stop"} \X ZkNodes

ActTyped ==
  /\ DOMAIN act = Actors
  /\ \A a \in Actors :
       /\ act[a].pc \in {"idle", "launch", "read", "record", "signal", "stop", "mark"}
       /\ act[a].node \in ZkNodes
TodoTyped == todo \in [Actors -> Seq(Ops)]
RowsTyped == /\ DOMAIN zk = ZkNodes
             /\ \A n \in ZkNodes : DOMAIN zk[n] = {"state", "killer", "pid", "config"}

LEMMA TypeParts ==
  /\ ZTyped <=> ActTyped /\ TodoTyped /\ RowsTyped /\ DOMAIN pidFile = ZkNodes
  /\ ZTyped' <=> ActTyped' /\ TodoTyped' /\ RowsTyped' /\ DOMAIN pidFile' = ZkNodes
  BY DEF ZTyped, ActTyped, TodoTyped, RowsTyped, Ops

LEMMA TwoActors ==
  ASSUME NEW a \in Actors
  PROVE  Other(a) \in Actors /\ Other(a) # a /\ Actors = {a, Other(a)}
  BY DEF Other, Actors

LEMMA GoesOn ==
  ASSUME ActTyped, NEW a \in Actors, NEW n \in ZkNodes, NEW p,
         NEW pc \in {"launch", "read", "record", "signal", "stop", "mark"},
         Goes(a, pc, n, p)
  PROVE  /\ ActTyped' /\ UNCHANGED <<thread, zkCall>>
         /\ act'[a].pc = pc /\ act'[a].node = n /\ act'[a].pid = p
         /\ \A b \in Actors : b # a => act'[b] = act[b]
  BY DEF ActTyped, Goes

LEMMA EndsOK ==
  ASSUME ActTyped, NEW a \in Actors, Ended(a, TRUE)
  PROVE  /\ ActTyped' /\ UNCHANGED <<todo, thread, zkCall>>
         /\ act'[a].pc = "idle"
         /\ \A b \in Actors : b # a => act'[b] = act[b]
  BY ZkAssumption DEF ActTyped, Ended, Idle, ZkNodes

LEMMA Raises ==
  ASSUME ActTyped, TodoTyped, NEW a \in Actors, Ended(a, FALSE)
  PROVE  /\ ActTyped' /\ TodoTyped'
         /\ act'[a].pc = "idle" /\ todo'[a] = << >>
         /\ \A b \in Actors : b # a => act'[b] = act[b] /\ todo'[b] = todo[b]
         /\ thread' = IF a = "restarter" THEN "raised" ELSE thread
         /\ zkCall' = IF a = "main" THEN "raised" ELSE zkCall
  BY ZkAssumption DEF ActTyped, TodoTyped, Ended, Idle, ZkNodes

LEMMA TakesNext ==
  ASSUME TodoTyped, NEW a \in Actors, NEW op, NEW n, Begins(a, op, n)
  PROVE  /\ n \in ZkNodes /\ Len(todo[a]) > 0 /\ todo[a][1] = <<op, n>>
         /\ act[a].pc = "idle" /\ mixed \subseteq mixed'
         /\ n \notin mixed' => ~Works(Other(a), n)
  <1>1. todo[a] \in Seq(Ops) /\ todo[a] # << >> /\ Head(todo[a]) = <<op, n>>
    BY DEF TodoTyped, Begins
  <1>2. Len(todo[a]) > 0 /\ todo[a][1] = <<op, n>> /\ todo[a][1] \in Ops
    BY <1>1
  <1> QED
    BY <1>2 DEF Begins, Works, Ops

LEMMA TakenTyped ==
  ASSUME TodoTyped, NEW a \in Actors, todo[a] # << >>, Taken(a)
  PROVE  /\ TodoTyped' /\ todo'[a] = Tail(todo[a])
         /\ \A b \in Actors : b # a => todo'[b] = todo[b]
  BY DEF TodoTyped, Taken

LEMMA SecondIsNext ==
  ASSUME NEW s \in Seq(Ops), s # << >>, 1 < Len(s)
  PROVE  Tail(s) # << >> /\ Head(Tail(s)) = s[2]
  <1>1. /\ Tail(s) \in Seq(Ops) /\ Len(Tail(s)) = Len(s) - 1 /\ Len(s) \in Nat \ {0}
        /\ \A i \in 1 .. Len(s) - 1 : Tail(s)[i] = s[i + 1]
    OBVIOUS
  <1>2. Len(Tail(s)) > 0 /\ Tail(s)[1] = s[2]
    BY <1>1
  <1>3. PICK t \in Seq(Ops) : t = Tail(s) /\ Len(t) > 0 /\ t[1] = s[2]
    BY <1>1, <1>2
  <1>4. t # << >>
    <2>1. Len(<< >>) = 0
      OBVIOUS
    <2>2. Len(t) # 0
      BY <1>3
    <2> QED
      BY <2>1, <2>2, Zenon
  <1>5. Head(t) = t[1]
    BY <1>4
  <1> QED
    BY <1>3, <1>4, <1>5

LEMMA PairedTail ==
  ASSUME NEW s \in Seq(Ops), s # << >>, Paired(s)
  PROVE  Paired(Tail(s))
  <1>1. /\ Tail(s) \in Seq(Ops) /\ Len(Tail(s)) = Len(s) - 1 /\ Len(s) \in Nat \ {0}
        /\ \A i \in 1 .. Len(s) - 1 : Tail(s)[i] = s[i + 1]
    OBVIOUS
  <1> SUFFICES ASSUME NEW i \in 1 .. Len(s) - 1
               PROVE  /\ Tail(s)[i][1] # "stop"
                      /\ Tail(s)[i][1] = "kill" =>
                           i < Len(s) - 1 /\ Tail(s)[i + 1] = <<"start", Tail(s)[i][2]>>
    BY <1>1 DEF Paired
  <1>2. i + 1 \in 1 .. Len(s) /\ Tail(s)[i] = s[i + 1]
    BY <1>1
  <1>3. s[i + 1][1] # "stop"
    BY <1>2 DEF Paired
  <1>4. ASSUME s[i + 1][1] = "kill"
        PROVE  i < Len(s) - 1 /\ Tail(s)[i + 1] = <<"start", s[i + 1][2]>>
    <2>1. i + 1 < Len(s) /\ s[(i + 1) + 1] = <<"start", s[i + 1][2]>>
      BY <1>2, <1>4 DEF Paired
    <2>2. i + 1 \in 1 .. Len(s) - 1
      BY <2>1, <1>1
    <2> QED
      BY <2>1, <2>2, <1>1
  <1> QED
    BY <1>2, <1>3, <1>4

\* While stop() goes on the thread has nothing to do.
LEMMA StopsAlone ==
  ASSUME ThreadOK, StopOK, zkCall = "stop"
  PROVE  /\ act["restarter"].pc = "idle" /\ todo["restarter"] = << >> /\ thread # "running"
         /\ act["main"].pc \in {"idle", "stop", "mark"}
  BY DEF ThreadOK, StopOK, ZkIdle

\* What concerns a node is as before.
SameAt(n) ==
  /\ zk'[n].state = zk[n].state /\ zk'[n].pid = zk[n].pid
  /\ pidFile'[n] = pidFile[n] /\ (Runs(n)' <=> Runs(n))
  /\ \A a \in Actors : (Works(a, n)' <=> Works(a, n)) /\ (Works(a, n) => act'[a] = act[a])

LEMMA SoundStays ==
  ASSUME NEW n \in ZkNodes, SoundAt(n), SameAt(n)
  PROVE  SoundAt(n)'
  BY DEF SoundAt, SameAt, Actors

\* An actor works on one node only.
LEMMA OthersAreSame ==
  ASSUME NEW a \in Actors, NEW n \in ZkNodes, NEW m \in ZkNodes, m # n,
         zk'[m].state = zk[m].state, zk'[m].pid = zk[m].pid,
         pidFile'[m] = pidFile[m], Runs(m)' <=> Runs(m),
         ~Works(a, m), ~Works(a, m)',
         \A b \in Actors : b # a => act'[b] = act[b]
  PROVE  SameAt(m)
  BY DEF SameAt, Works

LEMMA RowsKept ==
  ASSUME ZTyped, AliveOK, ActTyped', TodoTyped', UNCHANGED <<zk, pidFile>>, zkAlive' \subseteq zkAlive
  PROVE  ZTyped' /\ AliveOK'
  <1>1. RowsTyped' /\ DOMAIN pidFile' = ZkNodes
    BY DEF ZTyped, RowsTyped
  <1>2. AliveOK'
    BY DEF AliveOK
  <1> QED
    BY <1>1, <1>2, TypeParts

\* An actor has worked on one node: it is enough that this one is sound.
LEMMA OneIsEnough ==
  ASSUME TableOK, NEW a \in Actors, NEW n \in ZkNodes, mixed \subseteq mixed',
         act[a].pc = "idle" \/ act[a].node = n,
         act'[a].pc = "idle" \/ act'[a].node = n,
         \A b \in Actors : b # a => act'[b] = act[b],
         \A m \in ZkNodes : m # n =>
           /\ zk'[m].state = zk[m].state /\ zk'[m].pid = zk[m].pid
           /\ pidFile'[m] = pidFile[m] /\ (Runs(m)' <=> Runs(m)),
         n \notin mixed' => SoundAt(n)'
  PROVE  TableOK'
  <1> SUFFICES ASSUME NEW m \in ZkNodes, m \notin mixed', m # n
               PROVE  SoundAt(m)'
    BY DEF TableOK
  <1>1. SoundAt(m)
    BY DEF TableOK
  <1>2. ~Works(a, m) /\ ~Works(a, m)'
    BY DEF Works
  <1>3. SameAt(m)
    BY <1>2, OthersAreSame
  <1> QED
    BY <1>1, <1>3, SoundStays

\* What the test does leaves the thread where it is.
LEMMA ThreadStays ==
  ASSUME BackOK, RoundOK, ThreadOK, UNCHANGED <<thread, within>>,
         \A m \in ZkNodes : m \in mixed => m \in mixed',
         act'["restarter"] = act["restarter"], todo'["restarter"] = todo["restarter"],
         \A m \in ZkNodes : m \notin mixed' /\ zk'[m].state = "KILLED" /\ zk'[m].killer # "main" =>
           zk[m].state = "KILLED" /\ zk[m].killer # "main"
  PROVE  BackOK' /\ RoundOK' /\ ThreadOK'
  BY DEF BackOK, RoundOK, ThreadOK, ZkIdle, Paired, Restarting

\* What the thread does happens while stop() does not.
LEMMA ThreadWorks ==
  ASSUME ThreadOK, StopOK, act["restarter"].pc # "idle" \/ todo["restarter"] # << >>,
         UNCHANGED within, zkCall' = zkCall
  PROVE  thread = "running" /\ StopOK'
  BY StopsAlone DEF StopOK, ThreadOK, ZkIdle

-----------------------------------------------------------------------------
\* The operations.
LEMMA StartNodeKeeps ==
  ASSUME ZPart, NEW a \in Actors, NEW n \in ZkNodes, StartNode(a, n)
  PROVE  ZPart'
  <1>0. ZTyped /\ AliveOK /\ TableOK /\ BackOK /\ RoundOK /\ ThreadOK /\ StopOK
    BY DEF ZPart
  <1>1. ActTyped /\ TodoTyped /\ RowsTyped /\ DOMAIN pidFile = ZkNodes
    BY <1>0, TypeParts
  <1>2. /\ Begins(a, "start", n) /\ Taken(a)
        /\ UNCHANGED <<zk, pidFile, zkAlive, zooCfg, running, within, events>>
    BY DEF StartNode
  <1>3. /\ Len(todo[a]) > 0 /\ todo[a][1] = <<"start", n>> /\ todo[a] # << >>
        /\ Head(todo[a]) = <<"start", n>> /\ act[a].pc = "idle"
        /\ mixed \subseteq mixed' /\ (n \notin mixed' => ~Works(Other(a), n))
    BY <1>1, <1>2, TakesNext DEF Begins
  <1>4. /\ TodoTyped' /\ todo'[a] = Tail(todo[a]) /\ \A b \in Actors : b # a => todo'[b] = todo[b]
    BY <1>1, <1>2, <1>3, TakenTyped
  <1>5. \/ zk[n].state = "STARTED" /\ UNCHANGED <<act, thread, zkCall>>
        \/ /\ zk[n].state # "STARTED" /\ UNCHANGED <<thread, zkCall>>
           /\ act'[a].pc = "launch" /\ act'[a].node = n
           /\ \A b \in Actors : b # a => act'[b] = act[b]
    BY <1>1, GoesOn DEF StartNode
  <1>6. ActTyped'
    <2>1. CASE UNCHANGED act
      BY <2>1, <1>1 DEF ActTyped
    <2>2. CASE Goes(a, "launch", n, NonePid)
      BY <2>2, <1>1, GoesOn
    <2> QED
      BY <2>1, <2>2 DEF StartNode
  <1>7. ZTyped' /\ AliveOK'
    BY <1>0, <1>2, <1>4, <1>6, RowsKept
  <1>8. thread' = thread /\ zkCall' = zkCall /\ \A b \in Actors : b # a => act'[b] = act[b]
    BY <1>5
  <1>9. TableOK'
    <2> SUFFICES ASSUME NEW m \in ZkNodes, m \notin mixed'
                 PROVE  SoundAt(m)'
      BY DEF TableOK
    <2>1. SoundAt(m)
      BY <1>0, <1>3 DEF TableOK
    <2>2. Runs(m)' <=> Runs(m)
      BY <1>2 DEF Runs, Lives
    <2>3. CASE m # n
      <3>1. ~Works(a, m) /\ ~Works(a, m)'
        BY <2>3, <1>3, <1>5 DEF Works
      <3>2. SameAt(m)
        BY <2>2, <2>3, <3>1, <1>2, <1>8, OthersAreSame
      <3> QED
        BY <2>1, <3>2, SoundStays
    <2>4. CASE m = n /\ UNCHANGED act
      <3>1. SameAt(m)
        BY <2>2, <2>4, <1>2 DEF SameAt, Works
      <3> QED
        BY <2>1, <3>1, SoundStays
    <2>5. CASE m = n /\ zk[n].state # "STARTED" /\ act'[a].pc = "launch"
      <3>1. ~Works("main", n) /\ ~Works("restarter", n)
        BY <2>5, <1>3, TwoActors DEF Works, Actors
      <3>2. ~Runs(n)'
        BY <3>1, <2>1, <2>2, <2>5 DEF SoundAt
      <3>3. \A b \in Actors : b # a => ~Works(b, n)'
        BY <3>1, <1>8 DEF Works, Actors
      <3> QED
        BY <3>2, <3>3, <2>5, <1>2 DEF SoundAt, Actors, Works
    <2> QED
      BY <2>3, <2>4, <2>5, <1>5
  <1>10. CASE a = "restarter"
    <2>1. thread = "running"
      BY <1>10, <1>0, <1>3 DEF ThreadOK, ZkIdle
    <2>2. BackOK'
      <3> SUFFICES ASSUME NEW m \in ZkNodes, m \notin mixed', zk[m].state = "KILLED",
                          zk[m].killer # "main"
                   PROVE  Restarting(m)'
        BY <1>2 DEF BackOK
      <3>1. Restarting(m)
        BY <1>0, <1>3 DEF BackOK
      <3>2. m = n
        BY <3>1, <1>3, <1>10 DEF Restarting
      <3> QED
        BY <3>2, <1>5, <1>10 DEF Restarting
    <2>3. RoundOK'
      <3>1. todo["restarter"] \in Seq(Ops)
        BY <1>1 DEF TodoTyped, Actors
      <3>2. Paired(todo'["restarter"])
        BY <3>1, <1>0, <1>3, <1>4, <1>10, PairedTail DEF RoundOK
      <3> QED
        BY <3>2, <1>3, <1>5, <1>10 DEF RoundOK
    <2>4. ThreadOK' /\ StopOK'
      BY <2>1, <1>0, <1>2, <1>8, StopsAlone DEF ThreadOK, StopOK
    <2> QED
      BY <2>2, <2>3, <2>4, <1>7, <1>9 DEF ZPart
  <1>11. CASE a = "main"
    <2>1. act'["restarter"] = act["restarter"] /\ todo'["restarter"] = todo["restarter"]
      BY <1>11, <1>4, <1>8 DEF Actors
    <2>2. BackOK'
      BY <2>1, <1>0, <1>2, <1>3 DEF BackOK, Restarting
    <2>3. RoundOK' /\ ThreadOK'
      BY <2>1, <1>0, <1>2, <1>8 DEF RoundOK, ThreadOK, ZkIdle, Paired
    <2>4. zkCall # "stop"
      BY <1>11, <1>0, <1>1, <1>3 DEF StopOK, TodoTyped, Actors
    <2> QED
      BY <2>2, <2>3, <2>4, <1>7, <1>8, <1>9 DEF ZPart, StopOK
  <1> QED
    BY <1>10, <1>11 DEF Actors

LEMMA KillNodeKeeps ==
  ASSUME ZPart, NEW a \in Actors, NEW n \in ZkNodes, KillNode(a, n)
  PROVE  ZPart'
  <1>0. ZTyped /\ AliveOK /\ TableOK /\ BackOK /\ RoundOK /\ ThreadOK /\ StopOK
    BY DEF ZPart
  <1>1. ActTyped /\ TodoTyped /\ RowsTyped /\ DOMAIN pidFile = ZkNodes
    BY <1>0, TypeParts
  <1>2. /\ Begins(a, "kill", n) /\ UNCHANGED <<zk, pidFile, zkAlive, zooCfg, running, within, events>>
        /\ \/ Ended(a, FALSE)
           \/ Taken(a) /\ Goes(a, "signal", n, zk[n].pid)
    BY DEF KillNode
  <1>3. /\ Len(todo[a]) > 0 /\ todo[a][1] = <<"kill", n>> /\ todo[a] # << >>
        /\ Head(todo[a]) = <<"kill", n>> /\ act[a].pc = "idle"
        /\ mixed \subseteq mixed' /\ (n \notin mixed' => ~Works(Other(a), n))
    BY <1>1, <1>2, TakesNext DEF Begins
  <1>4. \A m \in ZkNodes : Runs(m)' <=> Runs(m)
    BY <1>2 DEF Runs, Lives
  <1>5. a = "main" => zkCall # "stop"
    BY <1>0, <1>1, <1>3 DEF StopOK, TodoTyped, Actors
  <1>6. a = "restarter" => \A m \in ZkNodes \ mixed : ~(zk[m].state = "KILLED" /\ zk[m].killer # "main")
    BY <1>0, <1>3 DEF BackOK, Restarting
  <1>7. CASE Ended(a, FALSE)
    <2>1. /\ ActTyped' /\ TodoTyped' /\ act'[a].pc = "idle" /\ todo'[a] = << >>
          /\ \A b \in Actors : b # a => act'[b] = act[b] /\ todo'[b] = todo[b]
          /\ thread' = IF a = "restarter" THEN "raised" ELSE thread
          /\ zkCall' = IF a = "main" THEN "raised" ELSE zkCall
      BY <1>1, <1>7, Raises
    <2>2. ZTyped' /\ AliveOK'
      BY <2>1, <1>0, <1>2, RowsKept
    <2>3. n \notin mixed' => SoundAt(n)'
      <3>1. SameAt(n)
        BY <2>1, <1>2, <1>3, <1>4, TwoActors DEF SameAt, Works
      <3> QED
        BY <3>1, <1>0, <1>3, SoundStays DEF TableOK
    <2>4. TableOK'
      BY <2>1, <2>3, <1>0, <1>2, <1>3, <1>4, OneIsEnough
    <2>5. CASE a = "main"
      BY <2>1, <2>2, <2>4, <2>5, <1>0, <1>2, <1>3, ThreadStays DEF ZPart, StopOK, Actors
    <2>6. CASE a = "restarter"
      <3>1. BackOK' /\ RoundOK' /\ ThreadOK'
        BY <2>1, <2>6, <1>2, <1>3, <1>6 DEF BackOK, RoundOK, ThreadOK, ZkIdle, Paired
      <3>2. StopOK'
        BY <2>1, <2>6, <1>0, <1>2, <1>3, ThreadWorks
      <3> QED
        BY <2>2, <2>4, <3>1, <3>2 DEF ZPart
    <2> QED
      BY <2>5, <2>6 DEF Actors
  <1>8. CASE Taken(a) /\ Goes(a, "signal", n, zk[n].pid)
    <2>1. /\ ActTyped' /\ UNCHANGED <<thread, zkCall>>
          /\ act'[a].pc = "signal" /\ act'[a].node = n /\ act'[a].pid = zk[n].pid
          /\ \A b \in Actors : b # a => act'[b] = act[b]
      BY <1>1, <1>8, GoesOn
    <2>2. TodoTyped' /\ todo'[a] = Tail(todo[a]) /\ \A b \in Actors : b # a => todo'[b] = todo[b]
      BY <1>1, <1>3, <1>8, TakenTyped
    <2>3. ZTyped' /\ AliveOK'
      BY <2>1, <2>2, <1>0, <1>2, RowsKept
    <2>4. n \notin mixed' => SoundAt(n)'
      <3> SUFFICES ASSUME n \notin mixed' PROVE SoundAt(n)'
        OBVIOUS
      <3>1. SoundAt(n) /\ ~Works("main", n) /\ ~Works("restarter", n)
        BY <1>0, <1>3, TwoActors DEF TableOK, Works, Actors
      <3>2. Runs(n) => zk[n].pid = pidFile[n]
        BY <3>1 DEF SoundAt
      <3>3. \A b \in Actors : b # a => ~Works(b, n)'
        BY <3>1, <2>1 DEF Works, Actors
      <3> QED
        BY <3>2, <3>3, <2>1, <1>2, <1>4 DEF SoundAt, Actors, Works
    <2>5. TableOK'
      BY <2>1, <2>4, <1>0, <1>2, <1>3, <1>4, OneIsEnough
    <2>6. CASE a = "main"
      BY <2>1, <2>2, <2>3, <2>5, <2>6, <1>0, <1>2, <1>3, <1>5, ThreadStays DEF ZPart, StopOK, Actors
    <2>7. CASE a = "restarter"
      <3>1. StopOK' /\ thread = "running"
        BY <2>1, <2>7, <1>0, <1>2, <1>3, ThreadWorks
      <3>2. BackOK' /\ ThreadOK'
        BY <3>1, <2>1, <2>7, <1>0, <1>2, <1>3, <1>6 DEF BackOK, ThreadOK
      <3>3. RoundOK'
        <4>1. PICK s \in Seq(Ops) : s = todo["restarter"]
          BY <1>1 DEF TodoTyped, Actors
        <4>2. Paired(s) /\ Len(s) > 0 /\ s[1] = <<"kill", n>> /\ s # << >>
          BY <4>1, <2>7, <1>0, <1>3 DEF RoundOK
        <4>3. 1 < Len(s) /\ s[2] = <<"start", n>>
          BY <4>2 DEF Paired
        <4>4. Tail(s) # << >> /\ Head(Tail(s)) = <<"start", n>>
          BY <4>2, <4>3, SecondIsNext
        <4>5. Paired(Tail(s)) /\ todo'["restarter"] = Tail(s)
          BY <4>1, <4>2, <2>2, <2>7, PairedTail
        <4> QED
          BY <4>4, <4>5, <2>1, <2>7 DEF RoundOK
      <3> QED
        BY <2>3, <2>5, <3>1, <3>2, <3>3 DEF ZPart
    <2> QED
      BY <2>6, <2>7 DEF Actors
  <1> QED
    BY <1>2, <1>7, <1>8

LEMMA StopNodeKeeps ==
  ASSUME ZPart, NEW a \in Actors, NEW n \in ZkNodes, StopNode(a, n)
  PROVE  ZPart'
  <1>0. ZTyped /\ AliveOK /\ TableOK /\ BackOK /\ RoundOK /\ ThreadOK /\ StopOK
    BY DEF ZPart
  <1>1. ActTyped /\ TodoTyped /\ RowsTyped /\ DOMAIN pidFile = ZkNodes
    BY <1>0, TypeParts
  <1>2. /\ Begins(a, "stop", n) /\ Taken(a) /\ Goes(a, "stop", n, NonePid)
        /\ UNCHANGED <<zk, pidFile, zkAlive, zooCfg, running, within, events>>
    BY DEF StopNode
  <1>3. /\ Len(todo[a]) > 0 /\ todo[a][1] = <<"stop", n>> /\ todo[a] # << >> /\ act[a].pc = "idle"
        /\ mixed \subseteq mixed' /\ (n \notin mixed' => ~Works(Other(a), n))
    BY <1>1, <1>2, TakesNext DEF Begins
  <1>4. a = "main"
    <2>1. PICK s \in Seq(Ops) : s = todo[a]
      BY <1>1 DEF TodoTyped
    <2>2. 1 \in 1 .. Len(s) /\ s[1][1] = "stop"
      BY <2>1, <1>3
    <2>3. a # "restarter"
      BY <2>1, <2>2, <1>0 DEF RoundOK, Paired
    <2> QED
      BY <2>3 DEF Actors
  <1>5. /\ ActTyped' /\ UNCHANGED <<thread, zkCall>>
        /\ act'[a].pc = "stop" /\ act'[a].node = n
        /\ \A b \in Actors : b # a => act'[b] = act[b]
    BY <1>1, <1>2, GoesOn
  <1>6. TodoTyped' /\ todo'[a] = Tail(todo[a]) /\ \A b \in Actors : b # a => todo'[b] = todo[b]
    BY <1>1, <1>2, <1>3, TakenTyped
  <1>7. ZTyped' /\ AliveOK'
    BY <1>0, <1>2, <1>5, <1>6, RowsKept
  <1>8. \A m \in ZkNodes : Runs(m)' <=> Runs(m)
    BY <1>2 DEF Runs, Lives
  <1>9. n \notin mixed' => SoundAt(n)'
    <2> SUFFICES ASSUME n \notin mixed' PROVE SoundAt(n)'
      OBVIOUS
    <2>1. ~Works("main", n) /\ ~Works("restarter", n)
      BY <1>3, TwoActors DEF Works, Actors
    <2>2. \A b \in Actors : b # a => ~Works(b, n)'
      BY <2>1, <1>5 DEF Works, Actors
    <2> QED
      BY <2>2, <1>5 DEF SoundAt, Actors, Works
  <1>10. TableOK'
    BY <1>0, <1>2, <1>3, <1>5, <1>8, <1>9, OneIsEnough
  <1>11. BackOK' /\ RoundOK' /\ ThreadOK'
    BY <1>0, <1>2, <1>3, <1>4, <1>5, <1>6, ThreadStays DEF Actors
  <1>12. StopOK'
    <2> SUFFICES ASSUME zkCall = "stop" PROVE StopOK'
      BY <1>5 DEF StopOK
    <2>1. PICK s \in Seq(Ops) : s = todo["main"]
      BY <1>1, <1>4 DEF TodoTyped
    <2>2. /\ s # << >> /\ s[1] = <<"stop", n>> /\ todo'["main"] = Tail(s)
          /\ \A i \in 1 .. Len(s) : s[i][1] = "stop"
          /\ \A m \in ZkNodes : Runs(m) => \E i \in 1 .. Len(s) : s[i] = <<"stop", m>>
      BY <2>1, <1>0, <1>3, <1>4, <1>6 DEF StopOK
    <2>3. /\ Len(Tail(s)) = Len(s) - 1 /\ Len(s) \in Nat \ {0}
          /\ \A i \in 1 .. Len(s) - 1 : i + 1 \in 1 .. Len(s) /\ Tail(s)[i] = s[i + 1]
      BY <2>2
    <2>4. \A i \in 1 .. Len(Tail(s)) : Tail(s)[i][1] = "stop"
      BY <2>2, <2>3
    <2>5. ASSUME NEW m \in ZkNodes, Runs(m), m # n
          PROVE  \E i \in 1 .. Len(Tail(s)) : Tail(s)[i] = <<"stop", m>>
      <3>1. PICK i \in 1 .. Len(s) : s[i] = <<"stop", m>>
        BY <2>2, <2>5
      <3>2. i # 1
        BY <3>1, <2>2, <2>5
      <3>3. i - 1 \in 1 .. Len(Tail(s)) /\ Tail(s)[i - 1] = s[i]
        BY <3>2, <2>3
      <3> QED
        BY <3>1, <3>3
    <2>6. within' = "out"
      BY <1>0, <1>2 DEF StopOK
    <2> QED
      BY <2>2, <2>4, <2>5, <2>6, <1>4, <1>5, <1>8 DEF StopOK
  <1> QED
    BY <1>7, <1>10, <1>11, <1>12 DEF ZPart

LEMMA LaunchKeeps ==
  ASSUME ZPart, NEW a \in Actors, NEW n \in ZkNodes, n = act[a].node, Launch(a)
  PROVE  ZPart'
  <1>0. ZTyped /\ AliveOK /\ TableOK /\ BackOK /\ RoundOK /\ ThreadOK /\ StopOK
    BY DEF ZPart
  <1>1. ActTyped /\ TodoTyped /\ RowsTyped /\ DOMAIN pidFile = ZkNodes
    BY <1>0, TypeParts
  <1>2. /\ act[a].pc = "launch" /\ UNCHANGED <<zk, zooCfg, running, within>>
        /\ mixed \subseteq mixed' /\ Works(a, n)
    BY DEF Launch, Works
  <1>3. a = "main" => zkCall # "stop"
    BY <1>0, <1>2 DEF StopOK
  <1>4. n \notin mixed => SoundAt(n) /\ zk[n].state # "STARTED" /\ ~Runs(n)
    BY <1>0, <1>2 DEF TableOK, SoundAt
  <1>5. a = "restarter" => \A m \in ZkNodes \ mixed :
          zk[m].state = "KILLED" /\ zk[m].killer # "main" => m = n
    BY <1>0, <1>2 DEF BackOK, Restarting
  <1>6. CASE /\ ~Lives(n, pidFile[n])
             /\ zkAlive' = zkAlive \cup {<<n, NewPid>>}
             /\ pidFile' = [pidFile EXCEPT ![n] = NewPid]
             /\ Goes(a, "read", n, NonePid)
             /\ UNCHANGED <<todo, mixed>>
    <2>1. /\ ActTyped' /\ UNCHANGED <<thread, zkCall>>
          /\ act'[a].pc = "read" /\ act'[a].node = n
          /\ \A b \in Actors : b # a => act'[b] = act[b]
      BY <1>1, <1>6, GoesOn
    <2>2. PICK p : p = NewPid
      OBVIOUS
    <2>3. /\ zkAlive' = zkAlive \cup {<<n, p>>}
          /\ DOMAIN pidFile' = ZkNodes /\ pidFile'[n] = p
          /\ \A m \in ZkNodes : m # n => pidFile'[m] = pidFile[m]
      BY <2>2, <1>1, <1>6
    <2>4. ZTyped'
      BY <2>1, <2>3, <1>1, <1>2, <1>6, TypeParts DEF RowsTyped, TodoTyped
    <2>5. AliveOK'
      <3> SUFFICES ASSUME NEW x \in zkAlive'
                   PROVE  \E m \in ZkNodes : x = <<m, pidFile'[m]>>
        BY DEF AliveOK
      <3>1. CASE x = <<n, p>>
        BY <3>1, <2>3
      <3>2. CASE x \in zkAlive
        <4>1. PICK m \in ZkNodes : x = <<m, pidFile[m]>>
          BY <3>2, <1>0 DEF AliveOK
        <4>2. m # n
          BY <4>1, <3>2, <1>6 DEF Lives
        <4> QED
          BY <4>1, <4>2, <2>3
      <3> QED
        BY <3>1, <3>2, <2>3
    <2>6. Runs(n)' /\ \A m \in ZkNodes : m # n => (Runs(m)' <=> Runs(m))
      BY <2>3 DEF Runs, Lives
    <2>7. n \notin mixed' => SoundAt(n)'
      <3> SUFFICES ASSUME n \notin mixed' PROVE SoundAt(n)'
        OBVIOUS
      <3>1. SoundAt(n) /\ zk[n].state # "STARTED"
        BY <1>2, <1>4
      <3>2. \A b \in Actors : b # a => ~Works(b, n)
        BY <3>1, <1>2 DEF SoundAt, Actors
      <3>3. \A b \in Actors : b # a => ~Works(b, n)'
        BY <3>2, <2>1 DEF Works
      <3> QED
        BY <3>1, <3>3, <2>1, <2>6, <1>2 DEF SoundAt, Works, Actors
    <2>8. TableOK'
      BY <2>1, <2>3, <2>6, <2>7, <1>0, <1>2, OneIsEnough
    <2>9. CASE a = "main"
      BY <2>1, <2>4, <2>5, <2>8, <2>9, <1>0, <1>2, <1>3, <1>6, ThreadStays DEF ZPart, StopOK, Actors
    <2>10. CASE a = "restarter"
      <3>1. thread = "running"
        BY <2>10, <1>0, <1>2 DEF ThreadOK, ZkIdle
      <3>2. zkCall' # "stop"
        BY <3>1, <2>1, <1>0 DEF StopOK, ThreadOK
      <3>3. BackOK' /\ RoundOK' /\ ThreadOK'
        BY <3>1, <2>1, <2>10, <1>0, <1>2, <1>5, <1>6 DEF BackOK, Restarting, RoundOK, ThreadOK, Paired
      <3> QED
        BY <3>2, <3>3, <2>4, <2>5, <2>8 DEF ZPart, StopOK
    <2> QED
      BY <2>9, <2>10 DEF Actors
  <1>7. CASE Ended(a, FALSE) /\ n \in mixed' /\ UNCHANGED <<zkAlive, pidFile>>
    <2>1. /\ ActTyped' /\ TodoTyped' /\ act'[a].pc = "idle" /\ todo'[a] = << >>
          /\ \A b \in Actors : b # a => act'[b] = act[b] /\ todo'[b] = todo[b]
          /\ thread' = IF a = "restarter" THEN "raised" ELSE thread
          /\ zkCall' = IF a = "main" THEN "raised" ELSE zkCall
      BY <1>1, <1>7, Raises
    <2>2. ZTyped' /\ AliveOK'
      BY <2>1, <1>0, <1>2, <1>7, RowsKept
    <2>3. \A m \in ZkNodes : Runs(m)' <=> Runs(m)
      BY <1>7 DEF Runs, Lives
    <2>4. TableOK'
      BY <2>1, <2>3, <1>0, <1>2, <1>7, OneIsEnough
    <2>5. CASE a = "main"
      BY <2>1, <2>2, <2>4, <2>5, <1>0, <1>2, ThreadStays DEF ZPart, StopOK, Actors
    <2>6. CASE a = "restarter"
      <3>1. BackOK' /\ RoundOK' /\ ThreadOK'
        BY <2>1, <2>6, <1>2, <1>5, <1>7 DEF BackOK, RoundOK, ThreadOK, ZkIdle, Paired
      <3>2. zkCall' # "stop"
        BY <2>1, <2>6, <1>0, <1>2, StopsAlone
      <3> QED
        BY <2>2, <2>4, <3>1, <3>2 DEF ZPart, StopOK
    <2> QED
      BY <2>5, <2>6 DEF Actors
  <1>8. CASE Lives(n, pidFile[n]) /\ Ended(a, FALSE) /\ UNCHANGED <<zkAlive, pidFile, mixed>>
    BY <1>4, <1>7, <1>8 DEF Runs
  <1>9. CASE mixed' = mixed \cup {n} /\ Ended(a, FALSE) /\ UNCHANGED <<zkAlive, pidFile>>
    BY <1>7, <1>9
  <1> QED
    BY <1>6, <1>8, <1>9 DEF Launch

LEMMA ReadPidKeeps ==
  ASSUME ZPart, NEW a \in Actors, NEW n \in ZkNodes, n = act[a].node, ReadPid(a)
  PROVE  ZPart'
  <1>0. ZTyped /\ AliveOK /\ TableOK /\ BackOK /\ RoundOK /\ ThreadOK /\ StopOK
    BY DEF ZPart
  <1>1. ActTyped /\ TodoTyped /\ RowsTyped /\ DOMAIN pidFile = ZkNodes
    BY <1>0, TypeParts
  <1>2. /\ act[a].pc = "read" /\ Goes(a, "record", n, pidFile[n]) /\ Works(a, n)
        /\ UNCHANGED <<zk, pidFile, zkAlive, zooCfg, todo, running, within, events, mixed>>
    BY DEF ReadPid, Works
  <1>3. /\ ActTyped' /\ UNCHANGED <<thread, zkCall>>
        /\ act'[a].pc = "record" /\ act'[a].node = n /\ act'[a].pid = pidFile[n]
        /\ \A b \in Actors : b # a => act'[b] = act[b]
    BY <1>1, <1>2, GoesOn
  <1>4. ZTyped' /\ AliveOK'
    BY <1>0, <1>1, <1>2, <1>3, RowsKept DEF TodoTyped
  <1>5. \A m \in ZkNodes : Runs(m)' <=> Runs(m)
    BY <1>2 DEF Runs, Lives
  <1>6. n \notin mixed' => SoundAt(n)'
    <2> SUFFICES ASSUME n \notin mixed' PROVE SoundAt(n)'
      OBVIOUS
    <2>1. SoundAt(n) /\ zk[n].state # "STARTED" /\ Runs(n)
      BY <1>0, <1>2 DEF TableOK, SoundAt
    <2>2. \A b \in Actors : b # a => ~Works(b, n)
      BY <2>1, <1>2 DEF SoundAt, Actors
    <2>3. \A b \in Actors : b # a => ~Works(b, n)'
      BY <2>2, <1>3 DEF Works
    <2> QED
      BY <2>1, <2>3, <1>2, <1>3, <1>5 DEF SoundAt, Works, Actors
  <1>7. TableOK'
    BY <1>0, <1>2, <1>3, <1>5, <1>6, OneIsEnough
  <1>8. CASE a = "main"
    BY <1>0, <1>2, <1>3, <1>4, <1>7, <1>8, ThreadStays DEF ZPart, StopOK, Actors
  <1>9. CASE a = "restarter"
    <2>1. StopOK' /\ thread = "running"
      <3>1. zkCall # "stop"
        BY <1>0, <1>2, <1>9, StopsAlone
      <3> QED
        BY <3>1, <1>0, <1>2, <1>3, <1>9 DEF ThreadOK, ZkIdle, StopOK
    <2>2. BackOK' /\ RoundOK' /\ ThreadOK'
      BY <2>1, <1>0, <1>2, <1>3, <1>9 DEF BackOK, Restarting, RoundOK, ThreadOK, Paired
    <2> QED
      BY <2>1, <2>2, <1>4, <1>7 DEF ZPart
  <1> QED
    BY <1>8, <1>9 DEF Actors

LEMMA RecordKeeps ==
  ASSUME ZPart, NEW a \in Actors, NEW n \in ZkNodes, n = act[a].node, Record(a)
  PROVE  ZPart'
  <1>0. ZTyped /\ AliveOK /\ TableOK /\ BackOK /\ RoundOK /\ ThreadOK /\ StopOK
    BY DEF ZPart
  <1>1. ActTyped /\ TodoTyped /\ RowsTyped /\ DOMAIN pidFile = ZkNodes
    BY <1>0, TypeParts
  <1>2. /\ act[a].pc = "record" /\ Ended(a, TRUE) /\ Works(a, n)
        /\ zk' = [zk EXCEPT ![n].pid = act[a].pid, ![n].state = "STARTED"]
        /\ UNCHANGED <<pidFile, zkAlive, zooCfg, running, within, events, mixed>>
    BY DEF Record, Works
  <1>3. /\ ActTyped' /\ UNCHANGED <<todo, thread, zkCall>> /\ act'[a].pc = "idle"
        /\ \A b \in Actors : b # a => act'[b] = act[b]
    BY <1>1, <1>2, EndsOK
  <1>4. /\ RowsTyped' /\ zk'[n].state = "STARTED" /\ zk'[n].pid = act[a].pid
        /\ \A m \in ZkNodes : m # n => zk'[m] = zk[m]
    BY <1>1, <1>2 DEF RowsTyped
  <1>5. ZTyped' /\ AliveOK'
    BY <1>0, <1>1, <1>2, <1>3, <1>4, TypeParts DEF TodoTyped, AliveOK
  <1>6. \A m \in ZkNodes : Runs(m)' <=> Runs(m)
    BY <1>2 DEF Runs, Lives
  <1>7. n \notin mixed' => SoundAt(n)'
    <2> SUFFICES ASSUME n \notin mixed' PROVE SoundAt(n)'
      OBVIOUS
    <2>1. SoundAt(n) /\ Runs(n) /\ act[a].pid = pidFile[n]
      BY <1>0, <1>2 DEF TableOK, SoundAt
    <2>2. \A b \in Actors : b # a => ~Works(b, n)
      BY <2>1, <1>2 DEF SoundAt, Actors
    <2>3. \A b \in Actors : ~Works(b, n)'
      BY <2>2, <1>3 DEF Works
    <2> QED
      BY <2>1, <2>3, <1>2, <1>4, <1>6 DEF SoundAt, Actors
  <1>8. TableOK'
    BY <1>0, <1>2, <1>3, <1>4, <1>6, <1>7, OneIsEnough
  <1>9. CASE a = "main"
    <2>1. \A m \in ZkNodes : zk'[m].state = "KILLED" => zk'[m] = zk[m]
      BY <1>4
    <2>2. BackOK' /\ RoundOK' /\ ThreadOK'
      BY <2>1, <1>0, <1>2, <1>3, <1>9, ThreadStays DEF Actors
    <2> QED
      BY <2>2, <1>0, <1>2, <1>3, <1>5, <1>8, <1>9 DEF ZPart, StopOK
  <1>10. CASE a = "restarter"
    <2>1. StopOK' /\ thread = "running"
      <3>1. zkCall # "stop"
        BY <1>0, <1>2, <1>10, StopsAlone
      <3> QED
        BY <3>1, <1>0, <1>2, <1>3, <1>10 DEF ThreadOK, ZkIdle, StopOK
    <2>2. \A m \in ZkNodes \ mixed : zk[m].state = "KILLED" /\ zk[m].killer # "main" => m = n
      BY <1>0, <1>2, <1>10 DEF BackOK, Restarting
    <2>3. BackOK'
      BY <2>2, <1>2, <1>4 DEF BackOK
    <2>4. RoundOK' /\ ThreadOK'
      BY <2>1, <1>0, <1>2, <1>3, <1>10 DEF RoundOK, ThreadOK, Paired
    <2> QED
      BY <2>1, <2>3, <2>4, <1>5, <1>8 DEF ZPart
  <1> QED
    BY <1>9, <1>10 DEF Actors

LEMMA SignalKeeps ==
  ASSUME ZPart, NEW a \in Actors, NEW n \in ZkNodes, n = act[a].node, Signal(a)
  PROVE  ZPart'
  <1>0. ZTyped /\ AliveOK /\ TableOK /\ BackOK /\ RoundOK /\ ThreadOK /\ StopOK
    BY DEF ZPart
  <1>1. ActTyped /\ TodoTyped /\ RowsTyped /\ DOMAIN pidFile = ZkNodes
    BY <1>0, TypeParts
  <1>2. /\ act[a].pc = "signal" /\ Works(a, n) /\ zkAlive' = zkAlive \ {<<n, act[a].pid>>}
        /\ Goes(a, "mark", n, NonePid)
        /\ UNCHANGED <<zk, pidFile, zooCfg, todo, running, within, events, mixed>>
    BY DEF Signal, Works
  <1>3. /\ ActTyped' /\ UNCHANGED <<thread, zkCall>>
        /\ act'[a].pc = "mark" /\ act'[a].node = n
        /\ \A b \in Actors : b # a => act'[b] = act[b]
    BY <1>1, <1>2, GoesOn
  <1>4. ZTyped' /\ AliveOK'
    BY <1>0, <1>1, <1>2, <1>3, RowsKept DEF TodoTyped
  <1>5. \A m \in ZkNodes : m # n => (Runs(m)' <=> Runs(m))
    BY <1>2 DEF Runs, Lives
  <1>6. n \notin mixed' => SoundAt(n)'
    <2> SUFFICES ASSUME n \notin mixed' PROVE SoundAt(n)'
      OBVIOUS
    <2>1. SoundAt(n) /\ (Runs(n) => act[a].pid = pidFile[n])
      BY <1>0, <1>2 DEF TableOK, SoundAt
    <2>2. \A b \in Actors : b # a => ~Works(b, n)
      BY <2>1, <1>2 DEF SoundAt, Actors
    <2>3. \A b \in Actors : b # a => ~Works(b, n)'
      BY <2>2, <1>3 DEF Works
    <2>4. ~Runs(n)'
      BY <2>1, <1>2 DEF Runs, Lives
    <2> QED
      BY <2>3, <2>4, <1>3 DEF SoundAt, Works, Actors
  <1>7. TableOK'
    BY <1>0, <1>2, <1>3, <1>5, <1>6, OneIsEnough
  <1>8. CASE a = "main"
    BY <1>0, <1>2, <1>3, <1>4, <1>7, <1>8, ThreadStays DEF ZPart, StopOK, Actors
  <1>9. CASE a = "restarter"
    <2>1. StopOK' /\ thread = "running"
      <3>1. zkCall # "stop"
        BY <1>0, <1>2, <1>9, StopsAlone
      <3> QED
        BY <3>1, <1>0, <1>2, <1>3, <1>9 DEF ThreadOK, ZkIdle, StopOK
    <2>2. BackOK' /\ RoundOK' /\ ThreadOK'
      BY <2>1, <1>0, <1>2, <1>3, <1>9 DEF BackOK, Restarting, RoundOK, ThreadOK, Paired
    <2> QED
      BY <2>1, <2>2, <1>4, <1>7 DEF ZPart
  <1> QED
    BY <1>8, <1>9 DEF Actors

LEMMA StopCommandKeeps ==
  ASSUME ZPart, NEW a \in Actors, NEW n \in ZkNodes, n = act[a].node, StopCommand(a)
  PROVE  ZPart'
  <1>0. ZTyped /\ AliveOK /\ TableOK /\ BackOK /\ RoundOK /\ ThreadOK /\ StopOK
    BY DEF ZPart
  <1>1. ActTyped /\ TodoTyped /\ RowsTyped /\ DOMAIN pidFile = ZkNodes
    BY <1>0, TypeParts
  <1>2. /\ act[a].pc = "stop" /\ Works(a, n) /\ zkAlive' = zkAlive \ {<<n, pidFile[n]>>}
        /\ pidFile' = [pidFile EXCEPT ![n] = NonePid]
        /\ Goes(a, "mark", n, NonePid)
        /\ UNCHANGED <<zk, zooCfg, todo, running, within, events, mixed>>
    BY DEF StopCommand, Works
  <1>3. /\ ActTyped' /\ UNCHANGED <<thread, zkCall>>
        /\ act'[a].pc = "mark" /\ act'[a].node = n
        /\ \A b \in Actors : b # a => act'[b] = act[b]
    BY <1>1, <1>2, GoesOn
  <1>4. a = "main"
    BY <1>0, <1>2 DEF RoundOK, Actors
  <1>5. DOMAIN pidFile' = ZkNodes /\ \A m \in ZkNodes : m # n => pidFile'[m] = pidFile[m]
    BY <1>1, <1>2
  <1>6. ZTyped'
    BY <1>1, <1>2, <1>3, <1>5, TypeParts DEF RowsTyped, TodoTyped
  <1>7. \A x \in zkAlive' : \E m \in ZkNodes : m # n /\ x = <<m, pidFile[m]>>
    BY <1>0, <1>2 DEF AliveOK
  <1>8. AliveOK' /\ ~Runs(n)'
    BY <1>5, <1>7 DEF AliveOK, Runs, Lives
  <1>9. \A m \in ZkNodes : m # n => (Runs(m)' <=> Runs(m))
    BY <1>2, <1>5 DEF Runs, Lives
  <1>10. n \notin mixed' => SoundAt(n)'
    <2> SUFFICES ASSUME n \notin mixed' PROVE SoundAt(n)'
      OBVIOUS
    <2>1. \A b \in Actors : b # a => ~Works(b, n)
      BY <1>0, <1>2 DEF TableOK, SoundAt, Actors
    <2>2. \A b \in Actors : b # a => ~Works(b, n)'
      BY <2>1, <1>3 DEF Works
    <2> QED
      BY <2>2, <1>3, <1>8 DEF SoundAt, Works, Actors
  <1>11. TableOK'
    BY <1>0, <1>2, <1>3, <1>5, <1>9, <1>10, OneIsEnough
  <1>12. BackOK' /\ RoundOK' /\ ThreadOK'
    BY <1>0, <1>2, <1>3, <1>4, ThreadStays DEF Actors
  <1>13. StopOK'
    BY <1>0, <1>2, <1>3, <1>4, <1>8, <1>9 DEF StopOK
  <1> QED
    BY <1>6, <1>8, <1>11, <1>12, <1>13 DEF ZPart

LEMMA MarkKeeps ==
  ASSUME ZPart, NEW a \in Actors, NEW n \in ZkNodes, n = act[a].node, Mark(a)
  PROVE  ZPart'
  <1>0. ZTyped /\ AliveOK /\ TableOK /\ BackOK /\ RoundOK /\ ThreadOK /\ StopOK
    BY DEF ZPart
  <1>1. ActTyped /\ TodoTyped /\ RowsTyped /\ DOMAIN pidFile = ZkNodes
    BY <1>0, TypeParts
  <1>2. /\ act[a].pc = "mark" /\ Ended(a, TRUE) /\ Works(a, n)
        /\ zk' = [zk EXCEPT ![n].state = "KILLED", ![n].killer = a]
        /\ UNCHANGED <<pidFile, zkAlive, zooCfg, running, within, events, mixed>>
    BY DEF Mark, Works
  <1>3. /\ ActTyped' /\ UNCHANGED <<todo, thread, zkCall>> /\ act'[a].pc = "idle"
        /\ \A b \in Actors : b # a => act'[b] = act[b]
    BY <1>1, <1>2, EndsOK
  <1>4. /\ RowsTyped' /\ zk'[n].state = "KILLED" /\ zk'[n].killer = a
        /\ \A m \in ZkNodes : m # n => zk'[m] = zk[m]
    BY <1>1, <1>2 DEF RowsTyped
  <1>5. ZTyped' /\ AliveOK'
    BY <1>0, <1>1, <1>2, <1>3, <1>4, TypeParts DEF TodoTyped, AliveOK
  <1>6. \A m \in ZkNodes : Runs(m)' <=> Runs(m)
    BY <1>2 DEF Runs, Lives
  <1>7. n \notin mixed' => SoundAt(n)'
    <2> SUFFICES ASSUME n \notin mixed' PROVE SoundAt(n)'
      OBVIOUS
    <2>1. SoundAt(n) /\ ~Runs(n)
      BY <1>0, <1>2 DEF TableOK, SoundAt
    <2>2. \A b \in Actors : b # a => ~Works(b, n)
      BY <2>1, <1>2 DEF SoundAt, Actors
    <2>3. \A b \in Actors : ~Works(b, n)'
      BY <2>2, <1>3 DEF Works
    <2> QED
      BY <2>1, <2>3, <1>4, <1>6 DEF SoundAt, Actors
  <1>8. TableOK'
    BY <1>0, <1>2, <1>3, <1>4, <1>6, <1>7, OneIsEnough
  <1>9. CASE a = "main"
    <2>1. \A m \in ZkNodes : zk'[m].killer # "main" => zk'[m] = zk[m]
      BY <1>4, <1>9
    <2>2. BackOK' /\ RoundOK' /\ ThreadOK'
      BY <2>1, <1>0, <1>2, <1>3, <1>9, ThreadStays DEF Actors
    <2>3. StopOK'
      BY <1>0, <1>2, <1>3, <1>6, <1>9 DEF StopOK
    <2> QED
      BY <2>2, <2>3, <1>5, <1>8 DEF ZPart
  <1>10. CASE a = "restarter"
    <2>1. StopOK' /\ thread = "running"
      <3>1. zkCall # "stop"
        BY <1>0, <1>2, <1>10, StopsAlone
      <3> QED
        BY <3>1, <1>0, <1>2, <1>3, <1>10 DEF ThreadOK, ZkIdle, StopOK
    <2>2. \A m \in ZkNodes \ mixed : ~(zk[m].state = "KILLED" /\ zk[m].killer # "main")
      BY <1>0, <1>2, <1>10 DEF BackOK, Restarting
    <2>3. Restarting(n)'
      BY <1>0, <1>2, <1>3, <1>10 DEF RoundOK, Restarting
    <2>4. BackOK'
      BY <2>2, <2>3, <1>2, <1>4 DEF BackOK
    <2>5. RoundOK' /\ ThreadOK'
      BY <2>1, <1>0, <1>2, <1>3, <1>10 DEF RoundOK, ThreadOK, Paired
    <2> QED
      BY <2>1, <2>4, <2>5, <1>5, <1>8 DEF ZPart
  <1> QED
    BY <1>9, <1>10 DEF Actors

LEMMA ZkDiesKeeps ==
  ASSUME ZPart, NEW n \in ZkNodes, NEW p, ZkDies(n, p)
  PROVE  ZPart'
  <1>0. ZTyped /\ AliveOK /\ TableOK /\ BackOK /\ RoundOK /\ ThreadOK /\ StopOK
    BY DEF ZPart
  <1>1. /\ zkAlive' = zkAlive \ {<<n, p>>} /\ mixed' = mixed \cup {n}
        /\ UNCHANGED <<zk, pidFile, zooCfg, act, todo, thread, running, within, zkCall>>
    BY DEF ZkDies
  <1>2. ZTyped' /\ AliveOK'
    BY <1>0, <1>1 DEF ZTyped, AliveOK
  <1>3. \A m \in ZkNodes : /\ m # n => (Runs(m)' <=> Runs(m))
                           /\ Runs(m)' => Runs(m)
    BY <1>1 DEF Runs, Lives
  <1>4. mixed \subseteq mixed' /\ zk' = zk /\ act' = act /\ todo' = todo
    BY <1>1
  <1>5. TableOK'
    <2> SUFFICES ASSUME NEW m \in ZkNodes, m \notin mixed, m # n
                 PROVE  SoundAt(m)'
      BY <1>1 DEF TableOK
    <2>1. (Runs(m)' <=> Runs(m)) /\ \A a \in Actors : Works(a, m)' <=> Works(a, m)
      BY <1>3, <1>4 DEF Works
    <2>2. SameAt(m)
      BY <1>1, <2>1 DEF SameAt
    <2> QED
      BY <2>2, <1>0, SoundStays DEF TableOK
  <1>6. BackOK' /\ RoundOK' /\ ThreadOK'
    BY <1>0, <1>1, <1>4, ThreadStays
  <1>7. StopOK'
    BY <1>0, <1>1, <1>3 DEF StopOK
  <1> QED
    BY <1>2, <1>5, <1>6, <1>7 DEF ZPart

-----------------------------------------------------------------------------
\* The methods a test calls.
LEMMA CallKeeps ==
  ASSUME ZPart, NEW name, NEW ops \in Seq(Ops), ZkCalls(name, ops), name # "stop",
         UNCHANGED <<pidFile, act, thread, within>>, RowsTyped',
         \A m \in ZkNodes : /\ zk'[m].state = zk[m].state /\ zk'[m].pid = zk[m].pid
                             /\ zk'[m].killer = zk[m].killer,
         zkAlive' \subseteq zkAlive, \A m \in ZkNodes : m \in mixed => m \in mixed',
         zkAlive' = zkAlive \/ mixed' = ZkNodes
  PROVE  ZPart'
  <1>0. ZTyped /\ AliveOK /\ TableOK /\ BackOK /\ RoundOK /\ ThreadOK /\ StopOK
    BY DEF ZPart
  <1>1. ActTyped /\ TodoTyped /\ RowsTyped /\ DOMAIN pidFile = ZkNodes
    BY <1>0, TypeParts
  <1>2. ZkIdle("main") /\ zkCall' = name /\ todo' = [todo EXCEPT !["main"] = ops]
    BY DEF ZkCalls
  <1>3. TodoTyped' /\ todo'["restarter"] = todo["restarter"]
    BY <1>1, <1>2 DEF TodoTyped, Actors
  <1>4. ZTyped' /\ AliveOK'
    BY <1>0, <1>1, <1>3, TypeParts DEF ActTyped, AliveOK
  <1>5. TableOK'
    <2> SUFFICES ASSUME NEW m \in ZkNodes, m \notin mixed'
                 PROVE  SoundAt(m)'
      BY DEF TableOK
    <2>1. SameAt(m)
      BY DEF SameAt, Works, Runs, Lives
    <2> QED
      BY <2>1, <1>0, SoundStays DEF TableOK
  <1>6. BackOK' /\ RoundOK' /\ ThreadOK'
    BY <1>0, <1>3, ThreadStays
  <1> QED
    BY <1>2, <1>4, <1>5, <1>6 DEF ZPart, StopOK

LEMMA OpsInOrder ==
  ASSUME NEW op \in {"start", "kill", "stop"}
  PROVE  /\ InOrder(op) \in Seq(Ops) /\ Len(InOrder(op)) = ZkTotal
         /\ \A n \in ZkNodes : InOrder(op)[n] = <<op, n>>
  <1>1. \A n \in ZkNodes : <<op, n>> \in Ops
    BY DEF Ops
  <1> QED
    BY <1>1, ZkAssumption DEF InOrder, ZkNodes

LEMMA ZkStartKeeps == ZPart /\ ZkStart => ZPart'
  <1> SUFFICES ASSUME ZPart, ZkStart PROVE ZPart'
    OBVIOUS
  <1>1. RowsTyped
    BY TypeParts DEF ZPart
  <1> DEFINE written == [n \in ZkNodes |-> AddTo(Defaults, "servers")]
  <1>2. /\ ZkCalls("start", InOrder("start"))
        /\ zk' = [n \in ZkNodes |-> [zk[n] EXCEPT !.config = written[n]]]
        /\ UNCHANGED <<pidFile, zkAlive, act, thread, running, within, mixed>>
    BY DEF ZkStart, Prepare
  <1> HIDE DEF written
  <1>3. /\ RowsTyped'
        /\ \A m \in ZkNodes : /\ zk'[m].state = zk[m].state /\ zk'[m].pid = zk[m].pid
                               /\ zk'[m].killer = zk[m].killer
    BY <1>1, <1>2 DEF RowsTyped
  <1>4. InOrder("start") \in Seq(Ops)
    BY OpsInOrder
  <1> QED
    BY <1>2, <1>3, <1>4, CallKeeps

LEMMA OtherCallsKeep ==
  ASSUME ZPart,
         \/ InheritedKill
         \/ \E n \in ZkNodes, op \in {"start", "kill", "stop"} : ZkNodeCall(op, n)
         \/ \E n \in ZkNodes, flush \in BOOLEAN : UpdateConfig(n, flush)
  PROVE  ZPart'
  <1>1. RowsTyped /\ << >> \in Seq(Ops)
    BY TypeParts DEF ZPart
  <1>2. CASE InheritedKill
    <2>1. /\ ZkCalls("other", << >>) /\ mixed' = ZkNodes /\ zkAlive' \subseteq zkAlive
          /\ UNCHANGED <<zk, pidFile, act, thread, within>>
      <3>1. zkAlive' = zkAlive \ {<<n, zk[n].pid>> : n \in ZkNodes}
        BY <1>2 DEF InheritedKill
      <3>2. zkAlive' \subseteq zkAlive
        BY <3>1
      <3> QED
        BY <3>2, <1>2 DEF InheritedKill
    <2>2. (\A m \in ZkNodes : m \in mixed => m \in mixed') /\ RowsTyped'
      BY <2>1, <1>1 DEF RowsTyped
    <2> QED
      BY <2>1, <2>2, <1>1, CallKeeps
  <1>3. CASE \E n \in ZkNodes, op \in {"start", "kill", "stop"} : ZkNodeCall(op, n)
    <2>1. PICK n \in ZkNodes, op \in {"start", "kill", "stop"} : ZkNodeCall(op, n)
      BY <1>3
    <2>2. /\ ZkCalls("other", << <<op, n>> >>)
          /\ UNCHANGED <<zk, zkAlive, pidFile, act, thread, within, mixed>>
      BY <2>1 DEF ZkNodeCall
    <2>3. << <<op, n>> >> \in Seq(Ops) /\ RowsTyped'
      BY <2>2, <1>1 DEF Ops, RowsTyped
    <2> QED
      BY <2>2, <2>3, CallKeeps
  <1>4. CASE \E n \in ZkNodes, flush \in BOOLEAN : UpdateConfig(n, flush)
    <2>1. /\ ZkCalls("other", << >>)
          /\ UNCHANGED <<pidFile, zkAlive, act, thread, running, within, mixed>>
          /\ \E n \in ZkNodes : \E c : zk' = [zk EXCEPT ![n].config = c]
      BY <1>4 DEF UpdateConfig
    <2>2. /\ RowsTyped'
          /\ \A m \in ZkNodes : /\ zk'[m].state = zk[m].state /\ zk'[m].pid = zk[m].pid
                                 /\ zk'[m].killer = zk[m].killer
      BY <2>1, <1>1 DEF RowsTyped
    <2> QED
      BY <2>1, <2>2, <1>1, CallKeeps
  <1> QED
    BY <1>2, <1>3, <1>4

LEMMA ZkStopKeeps == ZPart /\ ZkStop => ZPart'
  <1> SUFFICES ASSUME ZPart, ZkStop PROVE ZPart'
    OBVIOUS
  <1>0. ZTyped /\ AliveOK /\ TableOK /\ BackOK /\ RoundOK /\ ThreadOK /\ StopOK
    BY DEF ZPart
  <1>1. ActTyped /\ TodoTyped /\ RowsTyped /\ DOMAIN pidFile = ZkNodes
    BY <1>0, TypeParts
  <1>2. /\ ZkCalls(StopName, InOrder("stop"))
        /\ UNCHANGED <<zk, zooCfg, pidFile, zkAlive, act, thread, running, within, mixed>>
    BY DEF ZkStop
  <1>3. /\ InOrder("stop") \in Seq(Ops) /\ Len(InOrder("stop")) = ZkTotal
        /\ \A n \in ZkNodes : InOrder("stop")[n] = <<"stop", n>>
    BY OpsInOrder
  <1>4. RowsTyped'
    BY <1>1, <1>2 DEF RowsTyped
  <1>5. CASE within # "out"
    <2>1. ZkCalls("other", InOrder("stop"))
      BY <1>2, <1>5 DEF StopName
    <2> QED
      BY <2>1, <1>2, <1>3, <1>4, CallKeeps
  <1>6. CASE within = "out"
    <2>1. ZkIdle("main") /\ todo' = [todo EXCEPT !["main"] = InOrder("stop")]
      BY <1>2 DEF ZkCalls
    <2>2. /\ TodoTyped' /\ todo'["restarter"] = todo["restarter"] /\ todo'["main"] = InOrder("stop")
      BY <2>1, <1>1, <1>3 DEF TodoTyped, Actors
    <2>3. ZTyped' /\ AliveOK'
      BY <2>2, <1>0, <1>1, <1>2, <1>4, TypeParts DEF ActTyped, AliveOK
    <2>4. TableOK'
      <3> SUFFICES ASSUME NEW m \in ZkNodes, m \notin mixed'
                   PROVE  SoundAt(m)'
        BY DEF TableOK
      <3>1. SameAt(m)
        BY <1>2 DEF SameAt, Works, Runs, Lives
      <3> QED
        BY <3>1, <1>0, <1>2, SoundStays DEF TableOK
    <2>5. BackOK' /\ RoundOK' /\ ThreadOK'
      BY <2>2, <1>0, <1>2, ThreadStays
    <2>6. StopOK'
      <3>1. 1 .. Len(InOrder("stop")) = ZkNodes
        BY <1>3 DEF ZkNodes
      <3>2. within' = "out" /\ act'["main"].pc = "idle"
        BY <2>1, <1>2, <1>6 DEF ZkIdle
      <3>3. \A i \in 1 .. Len(todo'["main"]) : todo'["main"][i][1] = "stop"
        BY <3>1, <2>2, <1>3
      <3>4. \A n \in ZkNodes : \E i \in 1 .. Len(todo'["main"]) : todo'["main"][i] = <<"stop", n>>
        BY <3>1, <2>2, <1>3
      <3> QED
        BY <3>2, <3>3, <3>4 DEF StopOK
    <2> QED
      BY <2>3, <2>4, <2>5, <2>6 DEF ZPart
  <1> QED
    BY <1>5, <1>6

-----------------------------------------------------------------------------
\* The thread.
LEMMA RoundIsPaired ==
  ASSUME TRUE
  PROVE  Round \in Seq(Ops) /\ Paired(Round)
  <1>1. 2 * NodesAmount \in Nat /\ NodesAmount \in 1 .. ZkTotal /\ ZkTotal \in Nat
    BY ZkAssumption
  <1>2. \A i \in 1 .. 2 * NodesAmount : (i + 1) \div 2 \in ZkNodes
    BY <1>1 DEF ZkNodes
  <1>3. /\ Len(Round) = 2 * NodesAmount
        /\ \A i \in 1 .. 2 * NodesAmount : Round[i] = <<IF i % 2 = 1 THEN "kill" ELSE "start", (i + 1) \div 2>>
    BY <1>1 DEF Round
  <1>4. Round \in Seq(Ops)
    <2>1. \A i \in 1 .. 2 * NodesAmount : <<IF i % 2 = 1 THEN "kill" ELSE "start", (i + 1) \div 2>> \in Ops
      BY <1>2 DEF Ops
    <2> QED
      BY <2>1, <1>1 DEF Round
  <1>5. ASSUME NEW i \in 1 .. 2 * NodesAmount, i % 2 = 1
        PROVE  i < 2 * NodesAmount /\ (i + 1) % 2 # 1 /\ ((i + 1) + 1) \div 2 = (i + 1) \div 2
    BY <1>1, <1>5
  <1>6. Paired(Round)
    <2> SUFFICES ASSUME NEW i \in 1 .. 2 * NodesAmount
                 PROVE  /\ Round[i][1] # "stop"
                        /\ Round[i][1] = "kill" => i < 2 * NodesAmount /\ Round[i + 1] = <<"start", Round[i][2]>>
      BY <1>3 DEF Paired
    <2>1. Round[i] = <<IF i % 2 = 1 THEN "kill" ELSE "start", (i + 1) \div 2>>
      BY <1>3
    <2>2. Round[i][1] # "stop" /\ (Round[i][1] = "kill" => i % 2 = 1) /\ Round[i][2] = (i + 1) \div 2
      BY <2>1
    <2>3. ASSUME i % 2 = 1
          PROVE  i < 2 * NodesAmount /\ Round[i + 1] = <<"start", (i + 1) \div 2>>
      <3>1. i < 2 * NodesAmount /\ (i + 1) % 2 # 1 /\ ((i + 1) + 1) \div 2 = (i + 1) \div 2
        BY <1>5, <2>3
      <3>2. i + 1 \in 1 .. 2 * NodesAmount
        BY <3>1, <1>1
      <3>3. Round[i + 1] = <<IF (i + 1) % 2 = 1 THEN "kill" ELSE "start", ((i + 1) + 1) \div 2>>
        BY <3>2, <1>3
      <3> QED
        BY <3>1, <3>3
    <2> QED
      BY <2>2, <2>3
  <1> QED
    BY <1>4, <1>6

LEMMA WithKeeps ==
  ASSUME ZPart, EnterWith \/ ExitWith \/ Join
  PROVE  ZPart'
  <1>0. ZTyped /\ AliveOK /\ TableOK /\ BackOK /\ RoundOK /\ ThreadOK /\ StopOK
    BY DEF ZPart
  <1>1. UNCHANGED <<zk, pidFile, zkAlive, act, todo, mixed>>
    BY DEF EnterWith, ExitWith, Join
  <1>2. ZTyped' /\ AliveOK' /\ RoundOK' /\ BackOK'
    BY <1>0, <1>1 DEF ZTyped, AliveOK, RoundOK, BackOK, Restarting, Paired
  <1>3. TableOK'
    BY <1>0, <1>1 DEF TableOK, SoundAt, Works, Runs, Lives
  <1>4. ThreadOK' /\ StopOK'
    <2>1. CASE EnterWith
      BY <2>1 DEF EnterWith, ThreadOK, StopOK
    <2>2. CASE ExitWith
      BY <2>2, <1>0, <1>1 DEF ExitWith, ThreadOK, StopOK, ZkIdle
    <2>3. CASE Join
      BY <2>3, <1>0, <1>1 DEF Join, ThreadOK, StopOK, ZkIdle
    <2> QED
      BY <2>1, <2>2, <2>3
  <1> QED
    BY <1>2, <1>3, <1>4 DEF ZPart

LEMMA RunKeeps == ZPart /\ Run => ZPart'
  <1> SUFFICES ASSUME ZPart, Run PROVE ZPart'
    OBVIOUS
  <1>0. ZTyped /\ AliveOK /\ TableOK /\ BackOK /\ RoundOK /\ ThreadOK /\ StopOK
    BY DEF ZPart
  <1>1. ActTyped /\ TodoTyped /\ RowsTyped /\ DOMAIN pidFile = ZkNodes
    BY <1>0, TypeParts
  <1>2. /\ thread = "running" /\ ZkIdle("restarter")
        /\ UNCHANGED <<zk, pidFile, zkAlive, act, within, zkCall, mixed>>
        /\ \/ todo' = [todo EXCEPT !["restarter"] = Round] /\ thread' = thread
           \/ thread' = "ended" /\ todo' = todo
    BY DEF Run
  <1>3. TodoTyped' /\ todo'["main"] = todo["main"] /\ todo'["restarter"] \in {<< >>, Round}
    BY <1>1, <1>2, RoundIsPaired DEF TodoTyped, Actors, ZkIdle
  <1>4. ZTyped' /\ AliveOK'
    BY <1>0, <1>1, <1>2, <1>3, TypeParts DEF ActTyped, RowsTyped, AliveOK
  <1>5. TableOK'
    BY <1>0, <1>2 DEF TableOK, SoundAt, Works, Runs, Lives
  <1>6. BackOK'
    BY <1>0, <1>2 DEF BackOK, Restarting, ZkIdle
  <1>7. RoundOK'
    <2>1. Paired(todo'["restarter"])
      BY <1>3, RoundIsPaired DEF Paired
    <2> QED
      BY <2>1, <1>2 DEF RoundOK, ZkIdle
  <1>8. ThreadOK'
    BY <1>0, <1>2 DEF ThreadOK, ZkIdle
  <1>9. StopOK'
    BY <1>0, <1>2 DEF StopOK, ThreadOK
  <1> QED
    BY <1>4, <1>5, <1>6, <1>7, <1>8, <1>9 DEF ZPart

LEMMA OperationKeeps ==
  ASSUME ZPart, NEW a \in Actors, Operation(a)
  PROVE  ZPart' /\ ~ZkIdle(a)
  <1>1. act[a].node \in ZkNodes
    BY DEF ZPart, ZTyped
  <1>2. ~ZkIdle(a)
    BY DEF Operation, StartNode, KillNode, StopNode, Begins, Launch, ReadPid, Record, Signal,
           StopCommand, Mark, ZkIdle
  <1> QED
    BY <1>1, <1>2, StartNodeKeeps, KillNodeKeeps, StopNodeKeeps, LaunchKeeps, ReadPidKeeps,
       RecordKeeps, SignalKeeps, StopCommandKeeps, MarkKeeps DEF Operation

-----------------------------------------------------------------------------
\* The test class.
LEMMA ZkVarsKept ==
  ASSUME ZPart, UNCHANGED zkVars
  PROVE  ZPart'
  <1>1. UNCHANGED <<zk, pidFile, zkAlive, act, todo, thread, within, zkCall, mixed>>
    BY DEF zkVars
  <1>2. ZTyped' /\ AliveOK' /\ RoundOK' /\ BackOK'
    BY <1>1 DEF ZPart, ZTyped, AliveOK, RoundOK, BackOK, Restarting, Paired
  <1>3. TableOK'
    BY <1>1 DEF ZPart, TableOK, SoundAt, Works, Runs, Lives
  <1>4. ThreadOK' /\ StopOK'
    BY <1>1 DEF ZPart, ThreadOK, StopOK, ZkIdle, Runs, Lives
  <1> QED
    BY <1>2, <1>3, <1>4 DEF ZPart

LEMMA SomeConfigured == Len(Configured) \in Nat
  BY ContainerAssumption

\* Applications are created anew only before a test has run.
LEMMA RequirementsKeep ==
  ASSUME CreatedOK, Requirements
  PROVE  CreatedOK' /\ UNCHANGED zkVars
  <1>1. /\ CheckRequirements
        /\ zk' = (IF ZkName \in Replaced THEN NewZk ELSE zk)
        /\ UNCHANGED <<pidFile, zkAlive, zooCfg, act, todo, thread, running, within, zkCall, mixed>>
    BY DEF Requirements, Construct
  <1>2. PICK k \in 0 .. Len(Configured), missed \in BOOLEAN :
          /\ Create(k)
          /\ phase' = IF k < Len(Configured) \/ missed THEN "down" ELSE "checked"
    BY <1>1 DEF CheckRequirements
  <1>3. CASE appsCreated
    <2>1. k = Len(Configured) /\ UNCHANGED <<instance, created, appsCreated>>
      BY <1>2, <1>3 DEF Create
    <2>2. Replaced = {}
      BY <2>1 DEF Replaced
    <2> QED
      BY <2>1, <2>2, <1>1, <1>3 DEF CreatedOK, zkVars
  <1>4. CASE ~appsCreated
    <2>1. appsCreated' = (k = Len(Configured))
      BY <1>2, <1>4 DEF Create
    <2>2. zk' = zk
      BY <1>1, <1>4 DEF CreatedOK
    <2>3. phase' \in {"checked", "ready", "failed"} => ~(k < Len(Configured))
      BY <1>2
    <2>4. ~(k < Len(Configured)) => k = Len(Configured)
      BY SomeConfigured
    <2>5. phase' \in {"checked", "ready", "failed"} => appsCreated'
      BY <2>1, <2>3, <2>4
    <2> QED
      BY <2>2, <2>5, <1>1, <1>4 DEF CreatedOK, ZkIdle, zkVars
  <1> QED
    BY <1>3, <1>4

LEMMA SetupKeeps ==
  ASSUME CreatedOK, Setup
  PROVE  CreatedOK' /\ UNCHANGED zkVars
  <1>1. PICK k : SetUp(k)
    BY DEF Setup
  <1>2. UNCHANGED zkVars /\ appsCreated /\ Create(Len(Configured))
    BY <1>1 DEF Setup, SetUp, Phase, CreatedOK
  <1> QED
    BY <1>2 DEF Create, CreatedOK

LEMMA CreatedStays ==
  ASSUME CreatedOK, UNCHANGED containerVars, appsCreated \/ UNCHANGED zkVars
  PROVE  CreatedOK'
  BY DEF CreatedOK, containerVars, zkVars, ZkIdle

-----------------------------------------------------------------------------
LEMMA Begin ==
  ASSUME Init
  PROVE  ZInv
  <1>1. /\ zk = NewZk /\ pidFile = [n \in ZkNodes |-> NonePid] /\ zkAlive = {}
        /\ act = [a \in Actors |-> Idle] /\ todo = [a \in Actors |-> << >>]
        /\ thread = "none" /\ within = "out" /\ zkCall = "none"
        /\ appsCreated = FALSE /\ phase = "new"
    BY DEF Init, ZkInit, ContainerInit
  <1>2. \A n \in ZkNodes : zk[n] = [state |-> "NEW", killer |-> "none", pid |-> NoKey, config |-> Defaults]
    BY <1>1 DEF NewZk
  <1>3. \A a \in Actors : act[a].pc = "idle" /\ act[a].node = 1 /\ todo[a] = << >>
    BY <1>1 DEF Idle
  <1>4. ZTyped
    <2>1. 1 \in ZkNodes
      BY ZkAssumption DEF ZkNodes
    <2> QED
      BY <2>1, <1>1, <1>2, <1>3 DEF ZTyped, NewZk
  <1>5. TableOK /\ BackOK
    BY <1>1, <1>2, <1>3 DEF TableOK, BackOK, SoundAt, Works, Runs, Lives, Actors
  <1>6. RoundOK
    <2>1. Len(<< >>) = 0
      OBVIOUS
    <2>2. Paired(<< >>)
      BY <2>1 DEF Paired
    <2> QED
      BY <2>2, <1>3 DEF RoundOK, Actors
  <1>7. ThreadOK /\ CreatedOK
    BY <1>1, <1>3 DEF ThreadOK, CreatedOK, ZkIdle, Actors
  <1> QED
    BY <1>1, <1>4, <1>5, <1>6, <1>7 DEF ZInv, AliveOK, StopOK

LEMMA Step ==
  ASSUME ZInv, [Next]_vars
  PROVE  ZInv'
  <1>0. ZPart /\ CreatedOK
    BY DEF ZInv, ZPart
  <1> SUFFICES ZPart' /\ CreatedOK'
    BY DEF ZInv, ZPart
  <1>1. CASE Requirements \/ Setup
    BY <1>1, <1>0, RequirementsKeep, SetupKeeps, ZkVarsKept
  <1>2. CASE Teardown
    <2>1. UNCHANGED zkVars /\ appsCreated' = appsCreated /\ phase' = "down"
      BY <1>2 DEF Teardown, TearDown
    <2>2. CreatedOK'
      BY <2>1, <1>0 DEF CreatedOK, zkVars, ZkIdle
    <2> QED
      BY <2>1, <2>2, <1>0, ZkVarsKept
  <1>3. CASE UNCHANGED zkVars /\ UNCHANGED containerVars
    BY <1>3, <1>0, ZkVarsKept, CreatedStays
  <1>4. CASE ZPart' /\ UNCHANGED containerVars /\ appsCreated
    BY <1>4, <1>0, CreatedStays
  <1>5. CASE Test /\ \/ ZkStart \/ ZkStop \/ InheritedKill \/ EnterWith
                     \/ \E n \in ZkNodes, op \in {"start", "kill", "stop"} : ZkNodeCall(op, n)
                     \/ \E n \in ZkNodes, flush \in BOOLEAN : UpdateConfig(n, flush)
    <2>1. UNCHANGED containerVars /\ appsCreated
      BY <1>5, <1>0 DEF Test, CreatedOK
    <2>2. ZPart'
      BY <1>5, <1>0, ZkStartKeeps, ZkStopKeeps, OtherCallsKeep, WithKeeps
    <2> QED
      BY <2>1, <2>2, <1>4
  <1>6. CASE (ExitWith \/ Join \/ Run) /\ UNCHANGED containerVars
    <2>1. appsCreated
      BY <1>6, <1>0 DEF ExitWith, Join, Run, CreatedOK, ZPart, ThreadOK
    <2>2. ZPart'
      BY <1>6, <1>0, WithKeeps, RunKeeps
    <2> QED
      BY <2>1, <2>2, <1>4, <1>6
  <1>7. CASE (\E a \in Actors : Operation(a)) /\ UNCHANGED containerVars
    <2>1. PICK a \in Actors : Operation(a)
      BY <1>7
    <2>2. ZPart' /\ ~ZkIdle(a)
      BY <2>1, <1>0, OperationKeeps
    <2>3. appsCreated
      BY <2>2, <1>0 DEF CreatedOK, Actors
    <2> QED
      BY <2>2, <2>3, <1>4, <1>7
  <1>8. CASE (\E n \in ZkNodes, p \in Pids : ZkDies(n, p)) /\ UNCHANGED containerVars
    <2>1. PICK n \in ZkNodes, p \in Pids : ZkDies(n, p)
      BY <1>8
    <2>2. zkAlive # {}
      BY <2>1 DEF ZkDies, Lives
    <2>3. ZPart' /\ appsCreated
      BY <2>1, <2>2, <1>0, ZkDiesKeeps DEF CreatedOK
    <2> QED
      BY <2>3, <1>4, <1>8
  <1>9. CASE UNCHANGED vars
    BY <1>9, <1>3 DEF vars
  <1>10. CASE Next
    BY <1>10, <1>1, <1>2, <1>3, <1>5, <1>6, <1>7, <1>8, <1>9
       DEF Next, ZkTest, ZkStep, JavaTest, JavaStep, Test, Done, Operation
  <1> QED
    BY <1>9, <1>10

LEMMA Always == Spec => []ZInv
  BY Begin, Step, PTL DEF Spec

\* A node no two actors have worked on at a time, and without a mishap, is in the table what it
\* is at its host (Zookeeper.start_node, stop_node, kill_node and the thread ZkNodesRestart).
THEOREM TheTableIsTrue == Spec => []TableIsTrue
  <1>1. ASSUME ZInv
        PROVE  TableIsTrue
    <2> SUFFICES ASSUME ZkQuiet, NEW n \in ZkNodes \ mixed
                 PROVE  IF zk[n].state = "STARTED"
                        THEN \A p \in Pids : Lives(n, p) <=> p = zk[n].pid
                        ELSE \A p \in Pids : ~Lives(n, p)
      BY DEF TableIsTrue
    <2>1. ~Works("main", n) /\ ~Works("restarter", n)
      BY <1>1 DEF ZInv, ThreadOK, ZkQuiet, ZkIdle, Works
    <2>2. IF zk[n].state = "STARTED" THEN Runs(n) /\ zk[n].pid = pidFile[n] ELSE ~Runs(n)
      BY <2>1, <1>1 DEF ZInv, TableOK, SoundAt
    <2>3. \A p : Lives(n, p) => p = pidFile[n]
      BY <1>1 DEF ZInv, AliveOK, Lives
    <2> QED
      BY <2>2, <2>3 DEF Runs
  <1> QED
    BY <1>1, Always, PTL

\* A thread that has ended without an exception has started again what it killed
\* (ZkNodesRestart.run).
THEOREM TheKilledAreBack == Spec => []KilledAreBack
  <1>1. ASSUME ZInv
        PROVE  KilledAreBack
    <2> SUFFICES ASSUME thread = "ended", NEW n \in ZkNodes \ mixed, zk[n].state = "KILLED"
                 PROVE  zk[n].killer = "main"
      BY DEF KilledAreBack
    <2> QED
      BY <1>1 DEF ZInv, BackOK, Restarting, ThreadOK, ZkIdle
  <1> QED
    BY <1>1, Always, PTL

\* After a stop() outside of a restarting thread no node runs (Zookeeper.stop).
THEOREM StoppedIsStopped == Spec => []StopStopsAll
  <1>1. ASSUME ZInv
        PROVE  StopStopsAll
    <2> SUFFICES ASSUME ZkQuiet, zkCall = "stop", NEW x \in zkAlive
                 PROVE  FALSE
      BY DEF StopStopsAll
    <2>1. PICK n \in ZkNodes : x = <<n, pidFile[n]>>
      BY <1>1 DEF ZInv, AliveOK
    <2>2. Runs(n)
      BY <2>1 DEF Runs, Lives
    <2>3. Len(todo["main"]) = 0 /\ act["main"].pc = "idle"
      BY DEF ZkQuiet, ZkIdle
    <2> QED
      BY <2>2, <2>3, <1>1 DEF ZInv, StopOK
  <1> QED
    BY <1>1, Always, PTL

-----------------------------------------------------------------------------
\* Induction up to n, for a set instead of a formula.
Less == {ss \in Nat \X Nat : ss[1] < ss[2]}

LEMMA UpTo ==
  ASSUME NEW n \in Nat, NEW T, 0 \in T, \A k \in 1 .. n : k - 1 \in T => k \in T
  PROVE  \A k \in 0 .. n : k \in T
  <1> DEFINE S == {k \in 0 .. n : k \notin T}
  <1> SUFFICES ASSUME S # {} PROVE FALSE
    OBVIOUS
  <1>1. IsWellFoundedOn(Less, Nat)
    BY NatLessThanWellFounded DEF OpToRel, Less
  <1>2. S \subseteq Nat
    OBVIOUS
  <1>3. PICK x \in S : \A y \in S : ~(<<y, x>> \in Less)
    BY <1>1, <1>2, WFMin, Zenon
  <1>4. x \in 1 .. n /\ x - 1 \in 0 .. n
    OBVIOUS
  <1>5. <<x - 1, x>> \in Nat \X Nat /\ <<x - 1, x>>[1] < <<x - 1, x>>[2]
    BY <1>4
  <1>6. <<x - 1, x>> \in Less
    BY <1>5 DEF Less
  <1>7. x - 1 \in T
    BY <1>3, <1>4, <1>6
  <1> QED
    BY <1>4, <1>7

\* A function that is defined by recursion over a range of numbers exists.
Recursive(f, n, X, first, step) ==
  f \in [0 .. n -> X] /\ f[0] = first /\ \A k \in 1 .. n : f[k] = step[<<k, f[k - 1]>>]

LEMMA Recursion ==
  ASSUME NEW n \in Nat, NEW X, NEW first \in X, NEW step \in [(1 .. n) \X X -> X]
  PROVE  \E f : Recursive(f, n, X, first, step)
  <1> DEFINE Follows(f, k) == f[0] = first /\ \A j \in 1 .. k : f[j] = step[<<j, f[j - 1]>>]
             Exists(k) == \E f \in [0 .. k -> X] : Follows(f, k)
             T == {k \in 0 .. n : Exists(k)}
  <1>1. Exists(0)
    <2>1. PICK f : f = [j \in 0 .. 0 |-> first]
      OBVIOUS
    <2>2. f \in [0 .. 0 -> X] /\ Follows(f, 0)
      BY <2>1
    <2> QED
      BY <2>2
  <1>2. ASSUME NEW k \in 1 .. n, Exists(k - 1)
        PROVE  Exists(k)
    <2>1. PICK f \in [0 .. k - 1 -> X] : Follows(f, k - 1)
      BY <1>2
    <2>2. PICK y \in X : y = step[<<k, f[k - 1]>>]
      <3>1. f[k - 1] \in X
        OBVIOUS
      <3> QED
        BY <3>1
    <2>3. PICK g : g = [j \in 0 .. k |-> IF j = k THEN y ELSE f[j]]
      OBVIOUS
    <2>4. g \in [0 .. k -> X] /\ g[k] = y /\ \A j \in 0 .. k - 1 : g[j] = f[j]
      BY <2>3
    <2>5. g[0] = first
      BY <2>1, <2>4
    <2>6. ASSUME NEW j \in 1 .. k
          PROVE  g[j] = step[<<j, g[j - 1]>>]
      <3>1. g[j - 1] = f[j - 1]
        BY <2>4
      <3>2. CASE j = k
        BY <3>1, <3>2, <2>2, <2>4
      <3>3. CASE j # k
        <4>1. j \in 1 .. k - 1 /\ j \in 0 .. k - 1
          BY <3>3
        <4> QED
          BY <4>1, <3>1, <2>1, <2>4
      <3> QED
        BY <3>2, <3>3
    <2> QED
      BY <2>4, <2>5, <2>6
  <1> HIDE DEF Exists
  <1>3. 0 \in T
    BY <1>1
  <1>4. \A k \in 1 .. n : k - 1 \in T => k \in T
    BY <1>2
  <1> HIDE DEF T
  <1>5. n \in T
    BY <1>3, <1>4, UpTo
  <1> QED
    BY <1>5 DEF T, Exists, Recursive

\* What is left of the first members of a sequence, for more and more of them.
Leaves(upTo, s, R) ==
  /\ upTo[0] = << >>
  /\ \A k \in 1 .. Len(s) : upTo[k] = upTo[k - 1] \o (IF s[k] \in R THEN << >> ELSE <<s[k]>>)

LeftOver(o, s, R) ==
  LET n == Len(s) IN
  /\ Len(o) <= n
  /\ \A j \in 1 .. Len(o) : \E l \in 1 .. n : o[j] = s[l] /\ s[l] \notin R
  /\ \A l \in 1 .. n : s[l] \notin R => \E j \in 1 .. Len(o) : o[j] = s[l]
  /\ (Len(o) = n \/ \A l \in 1 .. n : s[l] \notin R)
       => Len(o) = n /\ \A l \in 1 .. n : o[l] = s[l] /\ s[l] \notin R

LEMMA Leaving ==
  ASSUME NEW S, NEW s \in Seq(S), NEW R, NEW n, n = Len(s), NEW upTo, Leaves(upTo, s, R)
  PROVE  upTo[n] \in Seq(S) /\ LeftOver(upTo[n], s, R)
  <1> DEFINE Good(o, k) == /\ o \in Seq(S) /\ Len(o) <= k
                           /\ \A j \in 1 .. Len(o) : \E l \in 1 .. k : o[j] = s[l] /\ s[l] \notin R
                           /\ \A l \in 1 .. k : s[l] \notin R => \E j \in 1 .. Len(o) : o[j] = s[l]
                           /\ (Len(o) = k \/ \A l \in 1 .. k : s[l] \notin R)
                                => Len(o) = k /\ \A l \in 1 .. k : o[l] = s[l] /\ s[l] \notin R
             Here(k) == Good(upTo[k], k)
             T == {k \in 0 .. n : Here(k)}
  <1>1. n \in Nat /\ \A k \in 1 .. n : s[k] \in S
    OBVIOUS
  <1>2. Good(upTo[0], 0)
    BY DEF Leaves
  <1>3. ASSUME NEW k \in 1 .. n, Good(upTo[k - 1], k - 1)
        PROVE  Good(upTo[k], k)
    <2>1. PICK o \in Seq(S) : o = upTo[k - 1] /\ Good(o, k - 1)
      BY <1>3
    <2>2. PICK x \in S : x = s[k]
      BY <1>1
    <2>3. CASE x \in R
      <3>1. upTo[k] = o \o << >>
        BY <2>1, <2>2, <2>3 DEF Leaves
      <3>2. upTo[k] = o
        BY <3>1
      <3>3. Len(o) <= k - 1 /\ Len(o) \in Nat
        BY <2>1
      <3>4. k \in 1 .. k /\ \A l \in 1 .. k - 1 : l \in 1 .. k
        OBVIOUS
      <3>9. \A l \in 1 .. k : s[l] \notin R => l \in 1 .. k - 1
        BY <2>2, <2>3
      <3>5. Good(o, k)
        <4>1. k \in 1 .. k /\ s[k] \in R
          BY <2>2, <2>3
        <4>2. ~(Len(o) = k \/ \A l \in 1 .. k : s[l] \notin R)
          BY <3>3, <4>1
        <4>3. \A j \in 1 .. Len(o) : \E l \in 1 .. k : o[j] = s[l] /\ s[l] \notin R
          BY <2>1, <3>4
        <4>4. \A l \in 1 .. k : s[l] \notin R => \E j \in 1 .. Len(o) : o[j] = s[l]
          BY <2>1, <3>9
        <4>5. Len(o) <= k
          BY <3>3
        <4> QED
          BY <4>2, <4>3, <4>4, <4>5
      <3> QED
        BY <3>2, <3>5
    <2>4. CASE x \notin R
      <3>1. upTo[k] = o \o <<x>>
        BY <2>1, <2>2, <2>4 DEF Leaves
      <3>2. PICK q : q = Append(o, x)
        OBVIOUS
      <3>3. upTo[k] = q
        BY <3>1, <3>2
      <3>4. /\ q \in Seq(S) /\ Len(q) = Len(o) + 1 /\ q[Len(o) + 1] = x
            /\ \A j \in 1 .. Len(o) : q[j] = o[j]
        BY <3>2
      <3>5. Len(o) \in Nat /\ Len(o) <= k - 1
        BY <2>1
      <3>6. \A j \in 1 .. Len(q) : \E l \in 1 .. k : q[j] = s[l] /\ s[l] \notin R
        <4> SUFFICES ASSUME NEW j \in 1 .. Len(q)
                     PROVE  \E l \in 1 .. k : q[j] = s[l] /\ s[l] \notin R
          OBVIOUS
        <4>1. CASE j = Len(q)
          BY <4>1, <3>4, <2>2, <2>4
        <4>2. CASE j # Len(q)
          <5>1. j \in 1 .. Len(o) /\ q[j] = o[j]
            BY <4>2, <3>4, <3>5
          <5>2. PICK l \in 1 .. k - 1 : o[j] = s[l] /\ s[l] \notin R
            BY <5>1, <2>1
          <5> QED
            BY <5>1, <5>2
        <4> QED
          BY <4>1, <4>2
      <3>7. ASSUME Len(q) = k \/ \A l \in 1 .. k : s[l] \notin R
            PROVE  Len(q) = k /\ \A l \in 1 .. k : q[l] = s[l] /\ s[l] \notin R
        <4>1. Len(o) = k - 1 \/ \A l \in 1 .. k - 1 : s[l] \notin R
          BY <3>7, <3>4, <3>5
        <4>2. Len(o) = k - 1 /\ \A l \in 1 .. k - 1 : o[l] = s[l] /\ s[l] \notin R
          BY <4>1, <2>1
        <4> QED
          BY <4>2, <3>4, <2>2, <2>4
      <3>8. Len(q) <= k
        BY <3>4, <3>5
      <3>9. ASSUME NEW l \in 1 .. k, s[l] \notin R
            PROVE  \E j \in 1 .. Len(q) : q[j] = s[l]
        <4>1. CASE l = k
          BY <4>1, <3>4, <3>5, <2>2
        <4>2. CASE l # k
          <5>1. PICK j \in 1 .. Len(o) : o[j] = s[l]
            BY <4>2, <3>9, <2>1
          <5> QED
            BY <5>1, <3>4, <3>5
        <4> QED
          BY <4>1, <4>2
      <3> QED
        BY <3>3, <3>4, <3>6, <3>7, <3>8, <3>9
    <2> QED
      BY <2>3, <2>4
  <1> HIDE DEF Good
  <1>0. Here(0) /\ n \in Nat
    BY <1>1, <1>2
  <1>4. 0 \in T
    BY <1>0
  <1>5. \A k \in 1 .. n : Here(k - 1) => Here(k)
    BY <1>3
  <1> HIDE DEF Here
  <1>6. \A k \in 1 .. n : k - 1 \in T => k \in T
    BY <1>0, <1>5
  <1> HIDE DEF T
  <1>9. \A k \in 0 .. n : k \in T
    BY <1>0, <1>4, <1>6, UpTo, Zenon
  <1>7. n \in T
    BY <1>0, <1>9
  <1>8. Good(upTo[n], n)
    BY <1>7 DEF T, Here
  <1> QED
    BY <1>8 DEF Good, LeftOver

\* Without is what its recursion says.
LEMMA WithoutDef ==
  ASSUME NEW S, NEW s \in Seq(S), NEW R, NEW n, n = Len(s)
  PROVE  \E upTo : Leaves(upTo, s, R) /\ Without(s, R) = upTo[n]
  <1> DEFINE More(k) == IF s[k] \in R THEN << >> ELSE <<s[k]>>
             Def(f) == f = [k \in 0 .. n |-> IF k = 0 THEN << >> ELSE f[k - 1] \o More(k)]
  <1>1. PICK upTo : upTo = (CHOOSE f : Def(f)) /\ Without(s, R) = upTo[n]
    BY DEF Without
  <1>2. n \in Nat /\ \A k \in 1 .. n : s[k] \in S
    OBVIOUS
  <1>3. \A k \in 1 .. n : More(k) \in Seq(S)
    BY <1>2
  <1>4. PICK step : step = [p \in (1 .. n) \X Seq(S) |-> p[2] \o More(p[1])]
    OBVIOUS
  <1> HIDE DEF More
  <1>5. step \in [(1 .. n) \X Seq(S) -> Seq(S)]
    <2>1. \A p \in (1 .. n) \X Seq(S) : p[1] \in 1 .. n /\ p[2] \in Seq(S) /\ p[2] \o More(p[1]) \in Seq(S)
      BY <1>3
    <2> QED
      BY <1>4, <2>1 DEF More
  <1>6. << >> \in Seq(S)
    OBVIOUS
  <1>7. PICK f : Recursive(f, n, Seq(S), << >>, step)
    BY <1>2, <1>5, <1>6, Recursion
  <1>8. ASSUME NEW k \in 1 .. n PROVE f[k] = f[k - 1] \o More(k)
    <2>1. k - 1 \in 0 .. n
      BY <1>2
    <2>2. <<k, f[k - 1]>> \in (1 .. n) \X Seq(S)
      BY <1>7, <2>1 DEF Recursive
    <2> QED
      BY <1>4, <1>7, <2>2 DEF More, Recursive
  <1>9. \A k \in 0 .. n : f[k] = IF k = 0 THEN << >> ELSE f[k - 1] \o More(k)
    BY <1>7, <1>8, <1>2 DEF Recursive
  <1>10. Def(f)
    BY <1>7, <1>9 DEF Recursive
  <1> HIDE DEF Def
  <1>11. Def(upTo)
    BY <1>1, <1>10
  <1>12. \A k \in 0 .. n : upTo[k] = IF k = 0 THEN << >> ELSE upTo[k - 1] \o More(k)
    BY <1>11, Zenon DEF Def
  <1>13. upTo[0] = << >> /\ \A k \in 1 .. n : upTo[k] = upTo[k - 1] \o More(k)
    <2>1. 0 \in 0 .. n /\ \A k \in 1 .. n : k \in 0 .. n /\ k # 0
      BY <1>2
    <2> HIDE DEF More
    <2> QED
      BY <1>12, <2>1
  <1> QED
    BY <1>1, <1>13 DEF More, Leaves

IsLeft(o, s, R) ==
  /\ Len(o) <= Len(s)
  /\ \A k \in DOMAIN o : \E l \in DOMAIN s : o[k] = s[l] /\ s[l] \notin R
  /\ \A l \in DOMAIN s : s[l] \notin R => \E k \in DOMAIN o : o[k] = s[l]
  /\ (Len(o) = Len(s) \/ \A k \in DOMAIN s : s[k] \notin R) => o = s /\ \A k \in DOMAIN s : s[k] \notin R

LEMMA WithoutSome ==
  ASSUME NEW S, NEW s \in Seq(S), NEW R
  PROVE  Without(s, R) \in Seq(S) /\ IsLeft(Without(s, R), s, R)
  <1>1. PICK n : n = Len(s)
    OBVIOUS
  <1>2. PICK upTo : Leaves(upTo, s, R) /\ Without(s, R) = upTo[n]
    BY <1>1, WithoutDef
  <1>4. upTo[n] \in Seq(S) /\ LeftOver(upTo[n], s, R)
    BY <1>1, <1>2, Leaving
  <1>5. PICK o : o = Without(s, R)
    OBVIOUS
  <1>6. o \in Seq(S) /\ LeftOver(o, s, R)
    BY <1>2, <1>4, <1>5
  <1>7. DOMAIN o = 1 .. Len(o) /\ DOMAIN s = 1 .. n
    BY <1>1, <1>6
  <1>8. Len(o) = n /\ (\A l \in 1 .. n : o[l] = s[l]) => o = s
    BY <1>1, <1>6
  <1> QED
    BY <1>1, <1>5, <1>6, <1>7, <1>8 DEF LeftOver, IsLeft

\* The commands of a host.
Lines(ids) == {"mkdir", "java"} \X Range(ids)
Of(ids, h, k) == IF java[ids[k]].host = h THEN Commands(ids[k]) ELSE << >>

LEMMA SentIs ==
  ASSUME NEW ids \in Seq(JNodes), NEW h
  PROVE  /\ Sent(ids, h)[0] = << >>
         /\ \A k \in 1 .. Len(ids) : Sent(ids, h)[k] = Sent(ids, h)[k - 1] \o Of(ids, h, k)
  <1>1. PICK n \in Nat : n = Len(ids)
    OBVIOUS
  <1> DEFINE Def(f) == f = [k \in 0 .. n |-> IF k = 0 THEN << >> ELSE f[k - 1] \o Of(ids, h, k)]
  <1>2. PICK upTo : upTo = (CHOOSE f : Def(f)) /\ Sent(ids, h) = upTo
    BY <1>1 DEF Sent, Of
  <1>3. \A k \in 1 .. n : Of(ids, h, k) \in Seq(Lines(ids))
    <2> SUFFICES ASSUME NEW k \in 1 .. n PROVE Of(ids, h, k) \in Seq(Lines(ids))
      OBVIOUS
    <2>1. PICK i \in Range(ids) : i = ids[k]
      BY <1>1 DEF Range
    <2>2. <<"mkdir", i>> \in Lines(ids) /\ <<"java", i>> \in Lines(ids)
      BY DEF Lines
    <2>3. Commands(i) \in Seq(Lines(ids)) /\ << >> \in Seq(Lines(ids))
      BY <2>2 DEF Commands
    <2> QED
      BY <2>1, <2>3 DEF Of
  <1>4. PICK step : step = [p \in (1 .. n) \X Seq(Lines(ids)) |-> p[2] \o Of(ids, h, p[1])]
    OBVIOUS
  <1>5. step \in [(1 .. n) \X Seq(Lines(ids)) -> Seq(Lines(ids))]
    <2>1. \A p \in (1 .. n) \X Seq(Lines(ids)) :
             p[1] \in 1 .. n /\ p[2] \in Seq(Lines(ids)) /\ p[2] \o Of(ids, h, p[1]) \in Seq(Lines(ids))
      BY <1>3
    <2> QED
      BY <1>4, <2>1
  <1>6. << >> \in Seq(Lines(ids))
    OBVIOUS
  <1>7. PICK f : Recursive(f, n, Seq(Lines(ids)), << >>, step)
    BY <1>5, <1>6, Recursion
  <1>8. ASSUME NEW k \in 1 .. n PROVE f[k] = f[k - 1] \o Of(ids, h, k)
    <2>1. <<k, f[k - 1]>> \in (1 .. n) \X Seq(Lines(ids))
      BY <1>7 DEF Recursive
    <2> QED
      BY <1>4, <1>7, <2>1 DEF Recursive
  <1>9. \A k \in 0 .. n : f[k] = IF k = 0 THEN << >> ELSE f[k - 1] \o Of(ids, h, k)
    <2>1. \A k \in 0 .. n : k # 0 => k \in 1 .. n
      OBVIOUS
    <2>2. f[0] = << >>
      BY <1>7 DEF Recursive
    <2> QED
      BY <1>8, <2>1, <2>2
  <1>10. Def(f)
    BY <1>7, <1>9 DEF Recursive
  <1> HIDE DEF Def
  <1>11. Def(upTo)
    BY <1>2, <1>10
  <1>12. \A k \in 0 .. n : upTo[k] = IF k = 0 THEN << >> ELSE upTo[k - 1] \o Of(ids, h, k)
    BY <1>11, Zenon DEF Def
  <1>13. 0 \in 0 .. n /\ \A k \in 1 .. n : k \in 0 .. n /\ k # 0
    OBVIOUS
  <1> QED
    BY <1>1, <1>2, <1>12, <1>13

\* The last command of a node of the host is at the place of its position, and the last
\* command of all is one of these.
SentSound(q, ids, h, k) ==
  /\ q[k] \in Seq(Lines(ids))
  /\ \A l \in 1 .. k : java[ids[l]].host = h =>
       Len(q[l]) \in 1 .. Len(q[k]) /\ q[k][Len(q[l])] = <<"java", ids[l]>>
  /\ q[k] = << >> \/ \E l \in 1 .. k : java[ids[l]].host = h /\ Len(q[l]) = Len(q[k])

LEMMA SentFacts ==
  ASSUME NEW ids \in Seq(JNodes), NEW h
  PROVE  SentSound(Sent(ids, h), ids, h, Len(ids))
  <1>1. PICK n \in Nat : n = Len(ids) /\ \A k \in 1 .. n : ids[k] \in JNodes
    OBVIOUS
  <1>2. PICK q : /\ q = Sent(ids, h) /\ q[0] = << >>
                 /\ \A k \in 1 .. n : q[k] = q[k - 1] \o Of(ids, h, k)
    BY <1>1, SentIs
  <1> DEFINE Here(k) == SentSound(q, ids, h, k)
             T == {k \in 0 .. n : Here(k)}
  <1>3. Here(0)
    BY <1>2 DEF SentSound
  <1>4. ASSUME NEW k \in 1 .. n, SentSound(q, ids, h, k - 1)
        PROVE  SentSound(q, ids, h, k)
    <2>1. PICK o \in Seq(Lines(ids)) : o = q[k - 1]
      BY <1>4 DEF SentSound
    <2>2. PICK i \in Range(ids) : i = ids[k]
      BY <1>1 DEF Range
    <2>3. CASE java[i].host = h
      <3>1. q[k] = o \o << <<"mkdir", i>>, <<"java", i>> >>
        BY <1>2, <2>1, <2>2, <2>3 DEF Of, Commands
      <3>2. <<"mkdir", i>> \in Lines(ids) /\ <<"java", i>> \in Lines(ids)
        BY DEF Lines
      <3>3. PICK two \in Seq(Lines(ids)) : /\ two = << <<"mkdir", i>>, <<"java", i>> >>
                                      /\ Len(two) = 2 /\ two[2] = <<"java", i>>
        <4>1. PICK a \in Lines(ids) : a = <<"mkdir", i>>
          BY <3>2
        <4>2. PICK b \in Lines(ids) : b = <<"java", i>>
          BY <3>2
        <4>3. PICK two : two = <<a, b>>
          OBVIOUS
        <4>4. two \in Seq(Lines(ids)) /\ Len(two) = 2 /\ two[2] = b
          BY <4>3
        <4> QED
          BY <4>1, <4>2, <4>3, <4>4
      <3>4. PICK r : r = o \o two
        OBVIOUS
      <3>5. /\ r \in Seq(Lines(ids)) /\ Len(r) = Len(o) + 2 /\ r[Len(o) + 2] = two[2]
            /\ \A j \in 1 .. Len(o) : r[j] = o[j]
        BY <3>3, <3>4
      <3>6. q[k] = r /\ Len(o) \in Nat
        BY <3>1, <3>3, <3>4
      <3>7. ASSUME NEW l \in 1 .. k, java[ids[l]].host = h
            PROVE  Len(q[l]) \in 1 .. Len(r) /\ r[Len(q[l])] = <<"java", ids[l]>>
        <4>1. CASE l = k
          BY <4>1, <3>3, <3>5, <3>6, <2>2
        <4>2. CASE l # k
          <5>1. l \in 1 .. k - 1
            BY <4>2
          <5>2. Len(q[l]) \in 1 .. Len(o) /\ o[Len(q[l])] = <<"java", ids[l]>>
            BY <5>1, <3>7, <1>4, <2>1 DEF SentSound
          <5> QED
            BY <5>2, <3>5, <3>6
        <4> QED
          BY <4>1, <4>2
      <3>8. k \in 1 .. k /\ java[ids[k]].host = h
        BY <2>2, <2>3
      <3> QED
        BY <3>5, <3>6, <3>7, <3>8 DEF SentSound
    <2>4. CASE java[i].host # h
      <3>1. q[k] = o
        <4>1. Of(ids, h, k) = << >>
          BY <2>2, <2>4 DEF Of
        <4>2. q[k] = o \o << >>
          BY <1>2, <2>1, <4>1
        <4> QED
          BY <4>2
      <3>2. \A l \in 1 .. k : java[ids[l]].host = h => l \in 1 .. k - 1
        BY <2>2, <2>4
      <3>3. \A l \in 1 .. k - 1 : l \in 1 .. k
        OBVIOUS
      <3> QED
        BY <3>1, <3>2, <3>3, <2>1, <1>4 DEF SentSound
    <2> QED
      BY <2>3, <2>4
  <1> HIDE DEF Here
  <1>5. \A k \in 1 .. n : Here(k - 1) => Here(k)
    BY <1>4 DEF Here
  <1>6. 0 \in T
    BY <1>3
  <1>7. \A k \in 1 .. n : k - 1 \in T => k \in T
    BY <1>5
  <1> HIDE DEF T
  <1>8. \A k \in 0 .. n : k \in T
    BY <1>6, <1>7, UpTo
  <1>9. n \in T
    BY <1>8
  <1> QED
    BY <1>1, <1>2, <1>9 DEF T, Here

\* If there is an output that is a PID at the position of every node, none is missing.
LEMMA AllAnswered ==
  ASSUME NEW ids \in Seq(JNodes), IsInjective(ids), NEW R,
         \A k \in DOMAIN ids : \E c \in Answered(ids, R, ids[k]) : c[1] = "java"
  PROVE  \A k \in DOMAIN ids : /\ Place(ids, ids[k]) = k
                               /\ Answered(ids, R, ids[k]) = {<<"java", ids[k]>>}
                               /\ <<"java", ids[k]>> \notin R
  <1>1. PICK n \in Nat : n = Len(ids) /\ DOMAIN ids = 1 .. n /\ \A k \in 1 .. n : ids[k] \in JNodes
    OBVIOUS
  <1>2. \A k \in 1 .. n : Place(ids, ids[k]) = k
    BY <1>1 DEF Place, IsInjective
  <1>3. ASSUME NEW h, NEW k \in 1 .. n, java[ids[k]].host = h
        PROVE  /\ Answered(ids, R, ids[k]) = {<<"java", ids[k]>>}
               /\ <<"java", ids[k]>> \notin R
    <2>1. PICK q : q = Sent(ids, h) /\ SentSound(q, ids, h, n)
      BY <1>1, SentFacts
    <2>2. PICK s \in Seq(Lines(ids)) : s = q[n]
      BY <2>1 DEF SentSound
    <2>3. PICK o : o = Without(s, R)
      OBVIOUS
    <2>4. /\ o \in Seq(Lines(ids)) /\ Len(o) <= Len(s) /\ Len(s) \in Nat /\ DOMAIN o = 1 .. Len(o)
          /\ (Len(o) = Len(s) => o = s /\ \A j \in DOMAIN s : s[j] \notin R)
      <3>1. o \in Seq(Lines(ids)) /\ IsLeft(o, s, R)
        BY <2>2, <2>3, WithoutSome
      <3> QED
        BY <3>1 DEF IsLeft
    <2>5. \A l \in 1 .. n : java[ids[l]].host = h =>
             Answered(ids, R, ids[l]) = IF Len(q[l]) \in DOMAIN o THEN {o[Len(q[l])]} ELSE {}
      BY <1>1, <1>2, <2>1, <2>2, <2>3 DEF Answered, Outputs, Position
    <2>6. \A l \in 1 .. n : java[ids[l]].host = h => Len(q[l]) \in 1 .. Len(o)
      BY <1>1, <2>4, <2>5
    <2>7. Len(q[k]) \in 1 .. Len(s) /\ s[Len(q[k])] = <<"java", ids[k]>>
      BY <1>3, <2>1, <2>2 DEF SentSound
    <2>8. PICK l \in 1 .. n : java[ids[l]].host = h /\ Len(q[l]) = Len(s)
      BY <2>1, <2>2, <2>7 DEF SentSound
    <2>9. Len(o) = Len(s)
      BY <2>4, <2>6, <2>8
    <2>10. o = s /\ \A j \in 1 .. Len(s) : s[j] \notin R
      BY <2>4, <2>9
    <2>11. Answered(ids, R, ids[k]) = {o[Len(q[k])]}
      BY <1>3, <2>4, <2>5, <2>6
    <2> QED
      BY <2>7, <2>10, <2>11
  <1> QED
    BY <1>1, <1>2, <1>3

\* What is found for a node is a command of one of the nodes, which was executed.
LEMMA AnswersTyped ==
  ASSUME NEW ids \in Seq(JNodes), NEW R, NEW i, NEW c \in Answered(ids, R, i)
  PROVE  c \in Lines(ids) /\ c \notin R
  <1>1. PICK L : L = Lines(ids)
    OBVIOUS
  <1>2. PICK s : s = Sent(ids, java[i].host)[Len(ids)]
    OBVIOUS
  <1>3. s \in Seq(L)
    BY <1>1, <1>2, SentFacts DEF SentSound
  <1>4. PICK o : o = Without(s, R)
    OBVIOUS
  <1>5. /\ o \in Seq(L) /\ \A k \in DOMAIN o : \E l \in DOMAIN s : o[k] = s[l] /\ s[l] \notin R
    BY <1>3, <1>4, WithoutSome DEF IsLeft
  <1>6. \E k \in DOMAIN o : c = o[k]
    BY <1>2, <1>4 DEF Answered, Outputs
  <1> QED
    BY <1>1, <1>5, <1>6

-----------------------------------------------------------------------------
JRow == [host : Range(JavaHosts), status : {"NEW", "STARTING", "STARTED", "KILLING", "KILLED"},
         pid : Nat, counter : Nat]
JProc == [node : Nat, log : Nat, alive : BOOLEAN]
JCall == [how : {"none", "all", "one", "started", "raised", "other"}, ids : Seq(JNodes)]

JTyped ==
  /\ java \in Seq(JRow) /\ procs \in Seq(JProc)
  /\ launchOf \in Seq(Nat) /\ Len(launchOf) = Len(java)
  /\ javaCall \in JCall
  /\ JavaTypeOK

\* The table has the process that the last start of each node launched, from when the PIDs are
\* found on.
CallOwn ==
  javaCall.how \in {"all", "one", "started"} =>
    \A i \in Range(javaCall.ids) : java[i].pid = launchOf[i]

\* A process that runs is in the row of its node, unless that was abandoned.
KnownProcs ==
  \A p \in Procs : procs[p].alive /\ procs[p].node \notin abandoned => java[procs[p].node].pid = p

\* Before all the applications are created there are no nodes.
NoneCreated == ~appsCreated => java = << >> /\ procs = << >> /\ javaCall.how = "none"

JInv == JTyped /\ CallOwn /\ KnownProcs /\ NoneCreated

\* The names of Start.
Ran(ids, R)       == Without(ids, {i \in JNodes : <<"java", i>> \in R})
PidOf(ids, R, i)  == Len(procs) + Place(Ran(ids, R), i)
Found(ids, R, raises, i) == ~raises /\ \E c \in Answered(ids, R, i) : c[1] = "java"
GoodAt(ids, R, raises) == {k \in DOMAIN ids : \A l \in 1 .. k : Found(ids, R, raises, ids[l])}
PidAt(ids, R, i)  == PidOf(ids, R, (CHOOSE c \in Answered(ids, R, i) : TRUE)[2])
Rotated(ids) == [i \in JNodes |-> IF i \in Range(ids) THEN RotateLog(java[i]) ELSE java[i]]
AllFound(ids, R, raises) == GoodAt(ids, R, raises) = DOMAIN ids

Launching(ran, rotated) ==
  procs' = procs \o [k \in DOMAIN ran |-> [node  |-> ran[k], log |-> rotated[ran[k]].counter,
                                           alive |-> TRUE]]

\* What a start makes of the tables.
Relaunched(ids, R) ==
  launchOf' = [i \in JNodes |-> IF i \in Range(Ran(ids, R)) THEN PidOf(ids, R, i) ELSE launchOf[i]]

Restarted(ids, R, raises) ==
  java' = [i \in JNodes |->
            IF i \notin Range(ids) THEN java[i]
            ELSE [Rotated(ids)[i] EXCEPT !.status = "STARTING",
                                         !.pid = IF \E k \in GoodAt(ids, R, raises) : ids[k] = i
                                                 THEN PidAt(ids, R, i) ELSE @]]

Called(ids, R, raises, how) ==
  /\ javaCall' = JavaEnd(IF AllFound(ids, R, raises) THEN how ELSE "raised", ids)
  /\ abandoned' = abandoned \cup {i \in Range(ids) : \E p \in Procs : procs[p].alive /\ procs[p].node = i}
                            \cup (IF AllFound(ids, R, raises) THEN {} ELSE Range(ids))

LEMMA StartIs ==
  ASSUME NEW how, NEW ids, NEW R, NEW raises, Start(how, ids, R, raises)
  PROVE  /\ Launching(Ran(ids, R), Rotated(ids))
         /\ Relaunched(ids, R) /\ Restarted(ids, R, raises) /\ Called(ids, R, raises, how)
  BY DEF Start, Ran, PidOf, Found, GoodAt, PidAt, Rotated, AllFound, Launching, Relaunched,
         Restarted, Called

\* The processes that a start launches.
LEMMA Launched ==
  ASSUME JTyped, NEW ids \in Seq(JNodes), NEW R
  PROVE  /\ Ran(ids, R) \in Seq(Range(ids)) /\ Len(Ran(ids, R)) \in Nat
         /\ Range(Ran(ids, R)) = {i \in Range(ids) : <<"java", i>> \notin R}
         /\ \A i \in Range(Ran(ids, R)) : /\ Place(Ran(ids, R), i) \in DOMAIN Ran(ids, R)
                                          /\ Ran(ids, R)[Place(Ran(ids, R), i)] = i
         /\ (\A i \in Range(ids) : <<"java", i>> \notin R) => Ran(ids, R) = ids
  <1>1. PICK S : S = Range(ids)
    OBVIOUS
  <1>2. ids \in Seq(S) /\ S \subseteq JNodes /\ \A i \in S : \E k \in DOMAIN ids : ids[k] = i
    BY <1>1 DEF Range
  <1>3. PICK K : K = {i \in JNodes : <<"java", i>> \in R}
    OBVIOUS
  <1>4. PICK o : o = Without(ids, K) /\ o = Ran(ids, R)
    BY <1>3 DEF Ran
  <1>5. /\ o \in Seq(S)
        /\ \A k \in DOMAIN o : \E l \in DOMAIN ids : o[k] = ids[l] /\ ids[l] \notin K
        /\ \A l \in DOMAIN ids : ids[l] \notin K => \E k \in DOMAIN o : o[k] = ids[l]
        /\ (\A k \in DOMAIN ids : ids[k] \notin K) => o = ids
    <2>1. o \in Seq(S) /\ IsLeft(o, ids, K)
      BY <1>2, <1>4, WithoutSome
    <2> QED
      BY <2>1 DEF IsLeft
  <1>6. \A k \in DOMAIN ids : ids[k] \in S
    BY <1>2
  <1>7. Range(o) = {i \in S : <<"java", i>> \notin R}
    <2>1. \A k \in DOMAIN o : o[k] \in S /\ <<"java", o[k]>> \notin R
      BY <1>2, <1>3, <1>5, <1>6
    <2>2. \A i \in S : <<"java", i>> \notin R => \E k \in DOMAIN o : o[k] = i
      BY <1>2, <1>3, <1>5
    <2> QED
      BY <2>1, <2>2 DEF Range
  <1>8. \A i \in Range(o) : Place(o, i) \in DOMAIN o /\ o[Place(o, i)] = i
    BY DEF Range, Place
  <1>9. (\A i \in S : <<"java", i>> \notin R) => o = ids
    BY <1>3, <1>5, <1>6
  <1> QED
    BY <1>1, <1>4, <1>5, <1>7, <1>8, <1>9

IsJoined(q, s, t) ==
  /\ Len(q) = Len(s) + Len(t)
  /\ \A p \in 1 .. Len(s) : q[p] = s[p]
  /\ \A p \in 1 .. Len(q) : p \notin 1 .. Len(s) =>
       p - Len(s) \in 1 .. Len(t) /\ q[p] = t[p - Len(s)]

LEMMA Joined ==
  ASSUME NEW S, NEW s \in Seq(S), NEW t \in Seq(S)
  PROVE  s \o t \in Seq(S) /\ IsJoined(s \o t, s, t)
  <1>1. Len(s) \in Nat /\ Len(t) \in Nat
    OBVIOUS
  <1>2. /\ s \o t \in Seq(S) /\ Len(s \o t) = Len(s) + Len(t)
        /\ \A i \in 1 .. Len(s) + Len(t) : (s \o t)[i] = IF i <= Len(s) THEN s[i] ELSE t[i - Len(s)]
    BY ConcatProperties
  <1>3. \A p \in 1 .. Len(s) : p \in 1 .. Len(s) + Len(t) /\ p <= Len(s)
    BY <1>1
  <1>4. \A p \in 1 .. Len(s) + Len(t) : p \notin 1 .. Len(s) => ~(p <= Len(s)) /\ p - Len(s) \in 1 .. Len(t)
    BY <1>1
  <1> QED
    BY <1>2, <1>3, <1>4 DEF IsJoined

LEMMA NewProcs ==
  ASSUME JTyped, NEW ids \in Seq(JNodes), NEW R, NEW how, NEW raises, Start(how, ids, R, raises)
  PROVE  /\ procs' \in Seq(JProc) /\ Len(procs') = Len(procs) + Len(Ran(ids, R))
         /\ \A p \in Procs : procs'[p] = procs[p]
         /\ \A p \in Procs' : p \notin Procs =>
              /\ p - Len(procs) \in DOMAIN Ran(ids, R)
              /\ procs'[p].node = Ran(ids, R)[p - Len(procs)]
              /\ procs'[p].node \in Range(ids)
         /\ \A i \in Range(Ran(ids, R)) : PidOf(ids, R, i) \in Procs' /\ PidOf(ids, R, i) # NoPid
  <1>1. PICK ran \in Seq(Range(ids)) : ran = Ran(ids, R)
    BY Launched
  <1>2. PICK more : more = [k \in DOMAIN ran |-> [node  |-> ran[k], log |-> Rotated(ids)[ran[k]].counter,
                                                   alive |-> TRUE]]
    OBVIOUS
  <1>12. procs' = procs \o more
    <2>1. Launching(Ran(ids, R), Rotated(ids))
      BY StartIs
    <2> QED
      BY <1>1, <1>2, <2>1 DEF Launching
  <1>3. PICK m \in Nat : m = Len(ran) /\ DOMAIN ran = 1 .. m
    OBVIOUS
  <1>4. Range(ids) \subseteq JNodes /\ JNodes \subseteq Nat
    BY DEF Range, JNodes
  <1>5. \A i \in JNodes : java[i] \in JRow /\ java[i].counter \in Nat /\ Rotated(ids)[i].counter \in Nat
    <2> SUFFICES ASSUME NEW i \in JNodes
                 PROVE  java[i] \in JRow /\ java[i].counter \in Nat /\ Rotated(ids)[i].counter \in Nat
      OBVIOUS
    <2>1. java[i] \in JRow
      BY DEF JTyped, JNodes
    <2>2. PICK r \in JRow : r = java[i]
      BY <2>1
    <2>3. r.counter \in Nat /\ RotateLog(r).counter = r.counter + 1
      BY DEF JRow, RotateLog
    <2>4. Rotated(ids)[i] = IF i \in Range(ids) THEN RotateLog(r) ELSE r
      BY <2>2 DEF Rotated
    <2> QED
      BY <2>2, <2>3, <2>4
  <1>6. \A k \in 1 .. m : ran[k] \in Range(ids) /\ more[k] \in JProc /\ more[k].node = ran[k]
    <2> SUFFICES ASSUME NEW k \in 1 .. m
                 PROVE  ran[k] \in Range(ids) /\ more[k] \in JProc /\ more[k].node = ran[k]
      OBVIOUS
    <2>1. PICK i \in Range(ids) : i = ran[k]
      BY <1>3
    <2>2. PICK c \in Nat : c = Rotated(ids)[i].counter
      BY <1>4, <1>5
    <2>3. i \in Nat
      BY <1>4
    <2>4. more[k] = [node |-> i, log |-> c, alive |-> TRUE]
      BY <1>2, <1>3, <2>1, <2>2
    <2> QED
      BY <2>1, <2>3, <2>4 DEF JProc
  <1>7. more \in Seq(JProc) /\ Len(more) = m
    BY <1>2, <1>3, <1>6
  <1>8. procs \in Seq(JProc) /\ Len(procs) \in Nat
    BY DEF JTyped
  <1>9. PICK q : q = procs \o more
    OBVIOUS
  <1>10. /\ q \in Seq(JProc) /\ Len(q) = Len(procs) + m
         /\ \A p \in 1 .. Len(procs) : q[p] = procs[p]
         /\ \A p \in 1 .. Len(q) : p \notin 1 .. Len(procs) => p - Len(procs) \in 1 .. m /\ q[p] = more[p - Len(procs)]
    <2>1. q \in Seq(JProc) /\ IsJoined(q, procs, more)
      BY <1>7, <1>8, <1>9, Joined
    <2> QED
      BY <2>1, <1>7 DEF IsJoined
  <1>11. \A i \in Range(ran) : PidOf(ids, R, i) \in 1 .. Len(q) /\ PidOf(ids, R, i) # 0
    <2>1. \A i \in Range(ran) : Place(ran, i) \in 1 .. m
      BY <1>1, <1>3, Launched
    <2> QED
      BY <2>1, <1>1, <1>8, <1>10 DEF PidOf
  <1> QED
    BY <1>1, <1>12, <1>3, <1>6, <1>9, <1>10, <1>11 DEF Procs, NoPid

\* The PID of a node that is found is that of a process just launched.
LEMMA FoundPid ==
  ASSUME JTyped, NEW ids \in Seq(JNodes), NEW R, NEW how, NEW raises, Start(how, ids, R, raises),
         NEW i, Found(ids, R, raises, i)
  PROVE  PidAt(ids, R, i) \in Procs'
  <1>1. PICK c \in Answered(ids, R, i) : c[1] = "java"
    BY DEF Found
  <1>2. \A d \in Answered(ids, R, i) : d = c
    BY <1>1 DEF Answered
  <1>3. c \in Lines(ids) /\ c \notin R
    BY <1>1, AnswersTyped
  <1>4. PICK j \in Range(ids) : c = <<"java", j>>
    BY <1>1, <1>3 DEF Lines
  <1>5. (CHOOSE d \in Answered(ids, R, i) : TRUE) = c
    BY <1>1, <1>2
  <1>6. PidAt(ids, R, i) = PidOf(ids, R, j)
    <2>1. c[2] = j
      BY <1>4
    <2> QED
      BY <1>5, <2>1 DEF PidAt
  <1>7. j \in Range(Ran(ids, R))
    BY <1>3, <1>4, Launched
  <1> QED
    BY <1>6, <1>7, NewProcs

\* The rows after a start.
LEMMA NewRows ==
  ASSUME JTyped, NEW ids \in Seq(JNodes), NEW R, NEW how, NEW raises, Start(how, ids, R, raises)
  PROVE  /\ java' \in Seq(JRow) /\ Len(java') = Len(java)
         /\ launchOf' \in Seq(Nat) /\ Len(launchOf') = Len(java)
         /\ \A i \in JNodes :
              /\ i \notin Range(ids) => java'[i] = java[i] /\ launchOf'[i] = launchOf[i]
              /\ java'[i].pid \in {NoPid} \cup Procs'
              /\ (\E k \in GoodAt(ids, R, raises) : ids[k] = i) => java'[i].pid = PidAt(ids, R, i)
              /\ launchOf'[i] \in {NoPid} \cup Procs'
              /\ i \in Range(Ran(ids, R)) => launchOf'[i] = PidOf(ids, R, i)
  <1>0. Relaunched(ids, R) /\ Restarted(ids, R, raises)
    BY StartIs
  <1>1. PICK n \in Nat : n = Len(java) /\ JNodes = 1 .. n /\ Len(launchOf) = n
    BY DEF JTyped, JNodes
  <1>2. procs \in Seq(JProc) /\ procs' \in Seq(JProc) /\ Procs \subseteq Procs' /\ Procs' \subseteq Nat
    <2>1. procs \in Seq(JProc) /\ procs' \in Seq(JProc) /\ Len(procs') = Len(procs) + Len(Ran(ids, R))
      BY NewProcs DEF JTyped
    <2>2. Len(Ran(ids, R)) \in Nat
      BY Launched
    <2> QED
      BY <2>1, <2>2 DEF Procs
  <1>3. ASSUME NEW i \in 1 .. n
        PROVE  /\ i \notin Range(ids) => java'[i] = java[i]
               /\ java'[i] \in JRow
               /\ java'[i].pid \in {NoPid} \cup Procs'
               /\ (\E k \in GoodAt(ids, R, raises) : ids[k] = i) => java'[i].pid = PidAt(ids, R, i)
    <2>1. PICK r \in JRow : r = java[i]
      BY <1>1 DEF JTyped
    <2>2. r.pid \in {NoPid} \cup Procs
      BY <1>1, <2>1 DEF JTyped, JavaTypeOK
    <2>3. CASE i \notin Range(ids)
      <3>1. java'[i] = r
        BY <1>0, <1>1, <2>1, <2>3 DEF Restarted
      <3>2. \A k \in GoodAt(ids, R, raises) : ids[k] # i
        BY <2>3 DEF GoodAt, Range
      <3> QED
        BY <1>2, <2>1, <2>2, <3>1, <3>2
    <2>4. CASE i \in Range(ids)
      <3>1. PICK t \in JRow : t = Rotated(ids)[i] /\ t.pid = r.pid
        <4>1. Rotated(ids)[i] = [r EXCEPT !.counter = @ + 1]
          BY <1>1, <2>1, <2>4 DEF Rotated, RotateLog
        <4>2. [r EXCEPT !.counter = @ + 1] \in JRow /\ [r EXCEPT !.counter = @ + 1].pid = r.pid
          BY DEF JRow
        <4> QED
          BY <4>1, <4>2
      <3>2. PICK p : p = IF \E k \in GoodAt(ids, R, raises) : ids[k] = i THEN PidAt(ids, R, i) ELSE t.pid
        OBVIOUS
      <3>3. p \in {NoPid} \cup Procs'
        <4>1. ASSUME NEW k \in GoodAt(ids, R, raises), ids[k] = i
              PROVE  PidAt(ids, R, i) \in Procs'
          <5>1. k \in 1 .. k
            BY DEF GoodAt
          <5>2. Found(ids, R, raises, i)
            BY <4>1, <5>1 DEF GoodAt
          <5> QED
            BY <5>2, FoundPid
        <4> QED
          BY <1>2, <2>2, <3>1, <3>2, <4>1
      <3>4. java'[i] = [t EXCEPT !.status = "STARTING", !.pid = p]
        BY <1>0, <1>1, <2>4, <3>1, <3>2 DEF Restarted
      <3>5. p \in Nat
        BY <1>2, <3>3 DEF NoPid
      <3>6. java'[i] \in JRow /\ java'[i].pid = p
        BY <3>4, <3>5 DEF JRow
      <3> QED
        BY <2>4, <3>2, <3>3, <3>6
    <2> QED
      BY <2>3, <2>4
  <1>4. java' \in Seq(JRow) /\ Len(java') = n
    <2>1. java' = [i \in 1 .. n |-> java'[i]]
      BY <1>0, <1>1 DEF Restarted
    <2>2. PICK t : t = java'
      OBVIOUS
    <2>3. t = [i \in 1 .. n |-> t[i]] /\ \A i \in 1 .. n : t[i] \in JRow
      BY <1>3, <2>1, <2>2
    <2>4. t \in Seq(JRow) /\ Len(t) = n
      BY <2>3
    <2> QED
      BY <2>2, <2>4
  <1>5. ASSUME NEW i \in 1 .. n
        PROVE  /\ launchOf'[i] \in {NoPid} \cup Procs'
               /\ i \in Range(Ran(ids, R)) => launchOf'[i] = PidOf(ids, R, i)
               /\ i \notin Range(ids) => launchOf'[i] = launchOf[i]
    <2>1. launchOf'[i] = IF i \in Range(Ran(ids, R)) THEN PidOf(ids, R, i) ELSE launchOf[i]
      BY <1>0, <1>1 DEF Relaunched
    <2>2. launchOf[i] \in {NoPid} \cup Procs
      BY <1>1 DEF JTyped, JavaTypeOK
    <2>3. Range(Ran(ids, R)) \subseteq Range(ids)
      BY Launched
    <2>4. ASSUME i \in Range(Ran(ids, R)) PROVE PidOf(ids, R, i) \in Procs'
      BY <2>4, NewProcs
    <2> QED
      BY <1>2, <2>1, <2>2, <2>3, <2>4
  <1>6. launchOf' \in Seq(Nat) /\ Len(launchOf') = n
    <2>1. launchOf' = [i \in 1 .. n |-> launchOf'[i]]
      BY <1>0, <1>1 DEF Relaunched
    <2>2. PICK t : t = launchOf'
      OBVIOUS
    <2>3. t = [i \in 1 .. n |-> t[i]]
      BY <2>1, <2>2
    <2>6. \A i \in 1 .. n : launchOf'[i] \in {NoPid} \cup Procs'
      BY <1>5
    <2>7. {NoPid} \cup Procs' \subseteq Nat
      BY <1>2 DEF NoPid
    <2>4. \A i \in 1 .. n : t[i] \in Nat
      BY <2>2, <2>6, <2>7
    <2>5. t \in Seq(Nat) /\ Len(t) = n
      BY <2>3, <2>4
    <2> QED
      BY <2>2, <2>5
  <1> QED
    BY <1>1, <1>3, <1>4, <1>5, <1>6

LEMMA StartKeeps ==
  ASSUME JInv, NEW ids \in Seq(JNodes), IsInjective(ids), NEW R, NEW how \in {"all", "one"},
         NEW raises, Start(how, ids, R, raises), java # << >>, appsCreated' = appsCreated
  PROVE  JInv'
  <1>0. JTyped /\ CallOwn /\ KnownProcs /\ NoneCreated
    BY DEF JInv
  <1>1. PICK n \in Nat : n = Len(java) /\ JNodes = 1 .. n /\ JNodes' = 1 .. n /\ DOMAIN launchOf' = 1 .. n
    BY <1>0, NewRows DEF JTyped, JNodes
  <1>2. Range(ids) \subseteq JNodes
    BY DEF Range
  <1>3. /\ javaCall' = JavaEnd(IF AllFound(ids, R, raises) THEN how ELSE "raised", ids)
        /\ abandoned' = abandoned \cup {i \in Range(ids) : \E p \in Procs : procs[p].alive /\ procs[p].node = i}
                                  \cup (IF AllFound(ids, R, raises) THEN {} ELSE Range(ids))
    BY StartIs DEF Called
  <1>4. JTyped'
    <2>1. java' \in Seq(JRow) /\ procs' \in Seq(JProc) /\ launchOf' \in Seq(Nat) /\ Len(launchOf') = Len(java')
      BY <1>0, NewRows, NewProcs
    <2>2. javaCall' \in JCall'
      BY <1>1, <1>3 DEF JCall, JavaEnd
    <2>3. \A i \in JNodes' : /\ java'[i] \in JRow
                             /\ java'[i].pid \in {NoPid} \cup Procs'
      BY <1>0, <1>1, <2>1, NewRows DEF JNodes
    <2>4. \A p \in Procs' : procs'[p] \in [node : JNodes', log : Nat, alive : BOOLEAN]
      <3> SUFFICES ASSUME NEW p \in Procs' PROVE procs'[p] \in [node : JNodes', log : Nat, alive : BOOLEAN]
        OBVIOUS
      <3>1. procs'[p] \in JProc
        BY <2>1 DEF Procs
      <3>2. procs'[p].node \in JNodes
        <4>1. CASE p \in Procs
          BY <4>1, <1>0, NewProcs DEF JTyped, JavaTypeOK
        <4>2. CASE p \notin Procs
          BY <4>2, <1>0, <1>2, NewProcs
        <4> QED
          BY <4>1, <4>2
      <3> QED
        BY <1>1, <3>1, <3>2 DEF JProc
    <2>5. abandoned' \subseteq JNodes'
      <3>1. abandoned \subseteq JNodes
        BY <1>0 DEF JTyped, JavaTypeOK
      <3> QED
        BY <1>1, <1>2, <1>3, <3>1
    <2>6. \A i \in JNodes' : launchOf'[i] \in {NoPid} \cup Procs'
      BY <1>0, <1>1, NewRows
    <2>7. JavaTypeOK'
      <3>1. \A i \in JNodes' : /\ java'[i].host \in Range(JavaHosts)
                               /\ java'[i].status \in {"NEW", "STARTING", "STARTED", "KILLING", "KILLED"}
                               /\ java'[i].counter \in Nat
        BY <2>3 DEF JRow
      <3> QED
        BY <1>1, <2>2, <2>3, <2>4, <2>5, <2>6, <3>1 DEF JavaTypeOK, JCall
    <2> QED
      BY <2>1, <2>2, <2>7 DEF JTyped
  <1>5. ASSUME AllFound(ids, R, raises)
        PROVE  /\ Ran(ids, R) = ids
               /\ \A k \in DOMAIN ids : /\ Place(ids, ids[k]) = k
                                        /\ java'[ids[k]].pid = Len(procs) + k
                                        /\ launchOf'[ids[k]] = Len(procs) + k
    <2>1. \A k \in DOMAIN ids : k \in GoodAt(ids, R, raises) /\ Found(ids, R, raises, ids[k])
      <3>1. \A k \in DOMAIN ids : k \in 1 .. k
        OBVIOUS
      <3> QED
        BY <1>5, <3>1 DEF AllFound, GoodAt
    <2>2. \A k \in DOMAIN ids : \E c \in Answered(ids, R, ids[k]) : c[1] = "java"
      BY <2>1 DEF Found
    <2>3. \A k \in DOMAIN ids : /\ Place(ids, ids[k]) = k
                                /\ Answered(ids, R, ids[k]) = {<<"java", ids[k]>>}
                                /\ <<"java", ids[k]>> \notin R
      BY <2>2, AllAnswered
    <2>4. Ran(ids, R) = ids
      <3>1. \A i \in Range(ids) : <<"java", i>> \notin R
        BY <2>3 DEF Range
      <3> QED
        BY <1>0, <3>1, Launched
    <2>5. ASSUME NEW k \in DOMAIN ids
          PROVE  /\ java'[ids[k]].pid = Len(procs) + k
                 /\ launchOf'[ids[k]] = Len(procs) + k
      <3>1. ids[k] \in JNodes /\ ids[k] \in Range(ids)
        BY DEF Range
      <3>2. java'[ids[k]].pid = PidAt(ids, R, ids[k])
        BY <1>0, <2>1, <3>1, NewRows
      <3>3. launchOf'[ids[k]] = PidOf(ids, R, ids[k])
        BY <1>0, <2>4, <3>1, NewRows
      <3>4. Answered(ids, R, ids[k]) = {<<"java", ids[k]>>}
        BY <2>3
      <3>5. PidAt(ids, R, ids[k]) = PidOf(ids, R, ids[k])
        <4>0. PICK c : c = <<"java", ids[k]>>
          OBVIOUS
        <4>1. c = <<"java", ids[k]>> /\ c[2] = ids[k]
          BY <4>0
        <4>2. (CHOOSE d \in {c} : TRUE) = c
          OBVIOUS
        <4> QED
          BY <3>4, <4>1, <4>2 DEF PidAt
      <3>6. PidOf(ids, R, ids[k]) = Len(procs) + k
        BY <2>3, <2>4 DEF PidOf
      <3> QED
        BY <3>2, <3>3, <3>5, <3>6
    <2> QED
      BY <2>3, <2>4, <2>5
  <1>6. CallOwn'
    <2> SUFFICES ASSUME javaCall'.how \in {"all", "one", "started"}, NEW i \in Range(javaCall'.ids)
                 PROVE  java'[i].pid = launchOf'[i]
      BY DEF CallOwn
    <2>1. AllFound(ids, R, raises) /\ i \in Range(ids)
      BY <1>3 DEF JavaEnd
    <2>2. PICK k \in DOMAIN ids : ids[k] = i
      BY <2>1 DEF Range
    <2> QED
      BY <1>5, <2>1, <2>2
  <1>7. KnownProcs'
    <2> SUFFICES ASSUME NEW p \in Procs', procs'[p].alive, procs'[p].node \notin abandoned'
                 PROVE  java'[procs'[p].node].pid = p
      BY DEF KnownProcs
    <2>1. CASE p \in Procs
      <3>1. procs'[p] = procs[p] /\ procs[p].node \in JNodes
        BY <1>0, <2>1, NewProcs DEF JTyped, JavaTypeOK
      <3>2. procs[p].node \notin Range(ids) /\ procs[p].node \notin abandoned
        BY <1>3, <2>1, <3>1
      <3>3. java'[procs[p].node] = java[procs[p].node]
        BY <1>0, <3>1, <3>2, NewRows
      <3> QED
        BY <1>0, <2>1, <3>1, <3>2, <3>3 DEF KnownProcs
    <2>2. CASE p \notin Procs
      <3>1. /\ p - Len(procs) \in DOMAIN Ran(ids, R)
            /\ procs'[p].node = Ran(ids, R)[p - Len(procs)]
            /\ procs'[p].node \in Range(ids)
        BY <1>0, <2>2, NewProcs
      <3>2. AllFound(ids, R, raises)
        BY <1>3, <3>1
      <3>3. PICK k \in DOMAIN ids : k = p - Len(procs) /\ procs'[p].node = ids[k]
        BY <1>5, <3>1, <3>2
      <3>4. Len(procs) \in Nat /\ p \in Nat
        <4>1. procs \in Seq(JProc) /\ procs' \in Seq(JProc)
          BY <1>0, NewProcs DEF JTyped
        <4> QED
          BY <4>1 DEF Procs
      <3>5. java'[ids[k]].pid = Len(procs) + k
        BY <1>5, <3>2
      <3> QED
        BY <3>3, <3>4, <3>5
    <2> QED
      BY <2>1, <2>2
  <1>8. NoneCreated'
    BY <1>0 DEF NoneCreated
  <1> QED
    BY <1>4, <1>6, <1>7, <1>8 DEF JInv

\* A step that keeps the nodes and the processes, their PIDs, and ends processes at most.
LEMMA TableKept ==
  ASSUME JTyped, KnownProcs,
         java' \in Seq(JRow), Len(java') = Len(java), \A i \in JNodes : java'[i].pid = java[i].pid,
         procs' \in Seq(JProc), Len(procs') = Len(procs),
         \A p \in Procs : procs'[p].node = procs[p].node /\ (procs'[p].alive => procs[p].alive),
         launchOf' = launchOf, javaCall' \in JCall, abandoned \subseteq abandoned',
         abandoned' \subseteq JNodes
  PROVE  JTyped' /\ KnownProcs'
  <1>1. JNodes' = JNodes /\ Procs' = Procs
    BY DEF JNodes, Procs
  <1>2. JavaTypeOK
    BY DEF JTyped
  <1>3. \A i \in JNodes' : java'[i] \in JRow /\ java'[i].pid \in {NoPid} \cup Procs'
    BY <1>1, <1>2 DEF JavaTypeOK, JNodes
  <1>4. \A i \in JNodes' : /\ java'[i].host \in Range(JavaHosts)
                           /\ java'[i].status \in {"NEW", "STARTING", "STARTED", "KILLING", "KILLED"}
                           /\ java'[i].counter \in Nat
    BY <1>3 DEF JRow
  <1>5. \A p \in Procs' : procs'[p] \in [node : JNodes', log : Nat, alive : BOOLEAN]
    <2> SUFFICES ASSUME NEW p \in Procs' PROVE procs'[p] \in [node : JNodes', log : Nat, alive : BOOLEAN]
      OBVIOUS
    <2>1. procs'[p] \in JProc
      BY DEF Procs
    <2>2. procs'[p].node \in JNodes'
      BY <1>1, <1>2 DEF JavaTypeOK
    <2> QED
      BY <2>1, <2>2 DEF JProc
  <1>6. DOMAIN launchOf' = JNodes' /\ \A i \in JNodes' : launchOf'[i] \in {NoPid} \cup Procs'
    BY <1>1, <1>2 DEF JavaTypeOK
  <1>7. javaCall' \in JCall'
    BY <1>1 DEF JCall
  <1>8. JavaTypeOK'
    BY <1>1, <1>3, <1>4, <1>5, <1>6, <1>7 DEF JavaTypeOK, JCall
  <1>9. JTyped'
    BY <1>7, <1>8 DEF JTyped
  <1>10. KnownProcs'
    <2> SUFFICES ASSUME NEW p \in Procs, procs'[p].alive, procs'[p].node \notin abandoned'
                 PROVE  java'[procs'[p].node].pid = p
      BY <1>1 DEF KnownProcs
    <2>1. procs[p].alive /\ procs[p].node \notin abandoned /\ procs[p].node \in JNodes
      BY <1>2 DEF JavaTypeOK
    <2> QED
      BY <2>1 DEF KnownProcs
  <1> QED
    BY <1>9, <1>10

\* The table after a check: states only.
LEMMA CheckRows ==
  ASSUME JTyped, NEW R, Check(R)
  PROVE  /\ java' \in Seq(JRow) /\ Len(java') = Len(java)
         /\ \A i \in JNodes : java'[i].pid = java[i].pid
         /\ \/ javaCall' = JavaEnd("started", javaCall.ids) /\ abandoned' = abandoned
            \/ javaCall' = JavaEnd("raised", javaCall.ids)
               /\ abandoned' = abandoned \cup Range(javaCall.ids)
  <1>1. PICK n \in Nat : n = Len(java) /\ JNodes = 1 .. n
    BY DEF JTyped, JNodes
  <1>2. java' = [i \in 1 .. n |-> java'[i]]
    BY <1>1 DEF Check
  <1>3. ASSUME NEW i \in 1 .. n
        PROVE  java'[i] \in JRow /\ java'[i].pid = java[i].pid
    <2>1. PICK r \in JRow : r = java[i]
      BY <1>1 DEF JTyped
    <2>2. java'[i] = r \/ java'[i] = [r EXCEPT !.status = "STARTED"]
      BY <1>1, <2>1 DEF Check
    <2>3. [r EXCEPT !.status = "STARTED"] \in JRow /\ [r EXCEPT !.status = "STARTED"].pid = r.pid
      BY DEF JRow
    <2> QED
      BY <2>1, <2>2, <2>3
  <1>4. java' \in Seq(JRow) /\ Len(java') = n
    <2>1. PICK t : t = java'
      OBVIOUS
    <2>2. t = [i \in 1 .. n |-> t[i]] /\ \A i \in 1 .. n : t[i] \in JRow
      BY <1>2, <1>3, <2>1
    <2>3. t \in Seq(JRow) /\ Len(t) = n
      BY <2>2
    <2> QED
      BY <2>1, <2>3
  <1>5. \/ javaCall' = JavaEnd("started", javaCall.ids) /\ abandoned' = abandoned
        \/ javaCall' = JavaEnd("raised", javaCall.ids)
           /\ abandoned' = abandoned \cup Range(javaCall.ids)
    BY DEF Check
  <1> QED
    BY <1>1, <1>3, <1>4, <1>5

LEMMA CheckKeeps ==
  ASSUME JInv, CheckStarted, appsCreated' = appsCreated
  PROVE  JInv'
  <1>0. JTyped /\ CallOwn /\ KnownProcs /\ NoneCreated
    BY DEF JInv
  <1>1. PICK R : Check(R)
    BY DEF CheckStarted
  <1>2. /\ UNCHANGED <<procs, launchOf>> /\ javaCall.how \in {"all", "one"}
        /\ procs \in Seq(JProc) /\ javaCall \in JCall /\ abandoned \subseteq JNodes
    BY <1>0 DEF CheckStarted, JavaIdle, JTyped, JavaTypeOK
  <1>3. javaCall.ids \in Seq(JNodes) /\ Range(javaCall.ids) \subseteq JNodes
    <2>1. PICK ids : ids = javaCall.ids
      OBVIOUS
    <2>2. ids \in Seq(JNodes)
      BY <1>2, <2>1 DEF JCall
    <2>3. Range(ids) \subseteq JNodes
      BY <2>2 DEF Range
    <2> QED
      BY <2>1, <2>2, <2>3
  <1>4. /\ java' \in Seq(JRow) /\ Len(java') = Len(java)
        /\ \A i \in JNodes : java'[i].pid = java[i].pid
        /\ \/ javaCall' = JavaEnd("started", javaCall.ids) /\ abandoned' = abandoned
           \/ javaCall' = JavaEnd("raised", javaCall.ids)
              /\ abandoned' = abandoned \cup Range(javaCall.ids)
    BY <1>0, <1>1, CheckRows
  <1>5. javaCall' \in JCall /\ javaCall'.ids = javaCall.ids
    BY <1>3, <1>4 DEF JCall, JavaEnd
  <1>6. JTyped' /\ KnownProcs'
    BY <1>0, <1>2, <1>3, <1>4, <1>5, TableKept
  <1>7. CallOwn'
    BY <1>0, <1>2, <1>3, <1>4, <1>5 DEF CallOwn
  <1>8. NoneCreated'
    BY <1>0, <1>2 DEF NoneCreated
  <1> QED
    BY <1>6, <1>7, <1>8 DEF JInv

LEMMA KillKeeps ==
  ASSUME JInv, NEW ids, NEW sigkill, JavaKill(ids, sigkill), appsCreated' = appsCreated
  PROVE  JInv'
  <1>0. JTyped /\ CallOwn /\ KnownProcs /\ NoneCreated
    BY DEF JInv
  <1>1. PICK n \in Nat : n = Len(java) /\ JNodes = 1 .. n
    BY <1>0 DEF JTyped, JNodes
  <1>2. PICK m \in Nat : m = Len(procs) /\ Procs = 1 .. m
    BY <1>0 DEF JTyped, Procs
  <1>3. PICK D : procs' = [p \in Procs |-> [procs[p] EXCEPT !.alive = @ /\ p \notin D]]
    BY DEF JavaKill
  <1>4. \A p \in Procs : /\ procs'[p] \in JProc /\ procs'[p].node = procs[p].node
                         /\ procs'[p].alive => procs[p].alive
    <2> SUFFICES ASSUME NEW p \in Procs
                 PROVE  /\ procs'[p] \in JProc /\ procs'[p].node = procs[p].node
                        /\ procs'[p].alive => procs[p].alive
      OBVIOUS
    <2>1. PICK r \in JProc : r = procs[p]
      BY <1>0, <1>2 DEF JTyped
    <2>2. PICK b \in BOOLEAN : b = (r.alive /\ p \notin D)
      OBVIOUS
    <2>3. procs'[p] = [r EXCEPT !.alive = b]
      BY <1>3, <2>1, <2>2
    <2> QED
      BY <2>1, <2>2, <2>3 DEF JProc
  <1>5. procs' \in Seq(JProc) /\ Len(procs') = m
    <2>1. PICK t : t = procs'
      OBVIOUS
    <2>2. t = [p \in 1 .. m |-> t[p]] /\ \A p \in 1 .. m : t[p] \in JProc
      BY <1>2, <1>3, <1>4, <2>1
    <2> QED
      BY <2>1, <2>2
  <1>6. \A i \in JNodes : java'[i] \in JRow /\ java'[i].pid = java[i].pid
    <2> SUFFICES ASSUME NEW i \in JNodes PROVE java'[i] \in JRow /\ java'[i].pid = java[i].pid
      OBVIOUS
    <2>1. PICK r \in JRow : r = java[i]
      BY <1>0, <1>1 DEF JTyped
    <2>2. PICK x \in {"KILLED", "KILLING"} : java'[i] = r \/ java'[i] = [r EXCEPT !.status = x]
      BY <2>1 DEF JavaKill
    <2>3. [r EXCEPT !.status = x] \in JRow /\ [r EXCEPT !.status = x].pid = r.pid
      BY DEF JRow
    <2> QED
      BY <2>1, <2>2, <2>3
  <1>7. java' \in Seq(JRow) /\ Len(java') = n
    <2>1. PICK t : t = java'
      OBVIOUS
    <2>3. java' = [i \in 1 .. n |-> java'[i]]
      BY <1>1 DEF JavaKill
    <2>2. t = [i \in 1 .. n |-> t[i]] /\ \A i \in 1 .. n : t[i] \in JRow
      BY <1>1, <1>6, <2>1, <2>3
    <2> QED
      BY <2>1, <2>2
  <1>8. /\ javaCall' = JavaEnd("other", << >>) /\ UNCHANGED <<launchOf, abandoned>>
        /\ abandoned \subseteq JNodes /\ java # << >>
    BY <1>0 DEF JavaKill, JTyped, JavaTypeOK
  <1>9. javaCall' \in JCall /\ javaCall'.how = "other"
    BY <1>8 DEF JCall, JavaEnd
  <1>10. JTyped' /\ KnownProcs'
    BY <1>0, <1>1, <1>2, <1>4, <1>5, <1>6, <1>7, <1>8, <1>9, TableKept
  <1>11. CallOwn'
    BY <1>9 DEF CallOwn
  <1>12. NoneCreated'
    BY <1>0, <1>8 DEF NoneCreated
  <1> QED
    BY <1>10, <1>11, <1>12 DEF JInv

LEMMA DiesKeeps ==
  ASSUME JInv, NEW p \in Procs, JavaDies(p), appsCreated' = appsCreated
  PROVE  JInv'
  <1>0. JTyped /\ CallOwn /\ KnownProcs /\ NoneCreated
    BY DEF JInv
  <1>1. procs \in Seq(JProc) /\ java \in Seq(JRow) /\ javaCall \in JCall /\ abandoned \subseteq JNodes
    BY <1>0 DEF JTyped, JavaTypeOK
  <1>2. PICK r \in JProc : r = procs[p]
    BY <1>1 DEF Procs
  <1>3. procs' = [procs EXCEPT ![p] = [r EXCEPT !.alive = FALSE]]
    BY <1>2 DEF JavaDies
  <1>4. PICK x \in JProc : x = [r EXCEPT !.alive = FALSE] /\ x.node = r.node /\ ~x.alive
    <2>1. PICK x : x = [r EXCEPT !.alive = FALSE]
      OBVIOUS
    <2>2. x \in JProc /\ x.node = r.node /\ ~x.alive
      BY <2>1 DEF JProc
    <2> QED
      BY <2>1, <2>2
  <1>5. procs' = [procs EXCEPT ![p] = x]
    BY <1>3, <1>4
  <1>6. procs' \in Seq(JProc) /\ Len(procs') = Len(procs)
    BY <1>1, <1>5 DEF Procs
  <1>7. \A q \in Procs : procs'[q].node = procs[q].node /\ (procs'[q].alive => procs[q].alive)
    BY <1>1, <1>2, <1>4, <1>5 DEF Procs
  <1>8. UNCHANGED <<java, launchOf, javaCall, abandoned>>
    BY DEF JavaDies
  <1>9. JTyped' /\ KnownProcs'
    BY <1>0, <1>1, <1>6, <1>7, <1>8, TableKept
  <1>10. CallOwn'
    BY <1>0, <1>8 DEF CallOwn
  <1>11. NoneCreated'
    <2>1. procs # << >>
      BY <1>1 DEF Procs
    <2> QED
      BY <1>0, <2>1 DEF NoneCreated
  <1> QED
    BY <1>9, <1>10, <1>11 DEF JInv

\* The nodes that setup() adds.
LEMMA AddedTyped == Added \in Seq(JRow) /\ \A i \in 1 .. Len(Added) : Added[i].pid = NoPid
  <1>1. PICK n \in Nat : n = Len(JavaHosts) /\ DOMAIN JavaHosts = 1 .. n
    BY JavaAssumption
  <1>2. \A k \in 1 .. n : JavaHosts[k] \in Range(JavaHosts)
    BY <1>1 DEF Range
  <1>3. PICK P \in Nat \ {0} : P = PerHost
    BY JavaAssumption
  <1>4. PICK b : b = IF (IF NumNodes = 0 THEN P * n ELSE NumNodes - Len(java)) < P * n
                     THEN (IF NumNodes = 0 THEN P * n ELSE NumNodes - Len(java)) ELSE P * n
    OBVIOUS
  <1>5. PICK t : t = Added /\ t = [k \in 1 .. b |-> JNode(JavaHosts[1 + (k - 1) \div P])]
    BY <1>1, <1>3, <1>4 DEF Added
  <1>6. b \in Int /\ b <= P * n
    <2>1. P * n \in Int /\ Len(java) \in Int /\ NumNodes \in Int
      BY <1>1, <1>3, JavaAssumption
    <2> QED
      BY <2>1, <1>4
  <1>7. ASSUME NEW k \in 1 .. b
        PROVE  1 + (k - 1) \div P \in 1 .. n
    <2>1. PICK a \in Nat : a = k - 1 /\ a < P * n
      BY <1>6
    <2>2. PICK q, r \in Int : q = a \div P /\ a = P * q + r /\ 0 <= r /\ r < P
      BY <1>3, <2>1
    <2>3. q >= 0
      BY <2>1, <2>2
    <2>4. q < n
      BY <2>1, <2>2
    <2> QED
      BY <2>1, <2>2, <2>3, <2>4
  <1>8. \A k \in 1 .. b : t[k] \in JRow /\ t[k].pid = NoPid
    <2> SUFFICES ASSUME NEW k \in 1 .. b PROVE t[k] \in JRow /\ t[k].pid = NoPid
      OBVIOUS
    <2>1. PICK h \in Range(JavaHosts) : h = JavaHosts[1 + (k - 1) \div P]
      BY <1>2, <1>7
    <2>2. t[k] = [host |-> h, status |-> "NEW", pid |-> NoPid, counter |-> 0]
      BY <1>5, <2>1 DEF JNode
    <2> QED
      BY <2>2 DEF JRow, NoPid
  <1>9. t \in Seq(JRow) /\ DOMAIN t = 1 .. b
    <2>1. PICK c \in Nat : 1 .. b = 1 .. c
      <3>1. CASE b >= 0
        BY <1>6, <3>1
      <3>2. CASE b < 0
        <4>1. 1 .. b = 1 .. 0
          BY <1>6, <3>2
        <4> QED
          BY <4>1
      <3> QED
        BY <1>6, <3>1, <3>2
    <2>2. t = [k \in 1 .. c |-> t[k]] /\ \A k \in 1 .. c : t[k] \in JRow
      BY <1>5, <1>8, <2>1
    <2>3. t \in Seq(JRow) /\ DOMAIN t = 1 .. c
      BY <2>2
    <2> QED
      BY <2>1, <2>3
  <1>10. 1 .. Len(t) = 1 .. b
    BY <1>9
  <1> QED
    BY <1>5, <1>8, <1>9, <1>10

LEMMA JavaSetupKeeps ==
  ASSUME JInv, JavaSetup, appsCreated'
  PROVE  JInv'
  <1>0. JTyped /\ CallOwn /\ KnownProcs /\ JavaTypeOK
    BY DEF JInv, JTyped
  <1>1. PICK n \in Nat : n = Len(java) /\ JNodes = 1 .. n
    BY <1>0 DEF JTyped, JNodes
  <1>2. PICK add \in Seq(JRow) : /\ add = Added /\ \A i \in 1 .. Len(add) : add[i].pid = NoPid
    BY AddedTyped
  <1>3. PICK m \in Nat : m = Len(add)
    OBVIOUS
  <1>4. PICK none \in Seq(Nat) : none = [i \in 1 .. m |-> NoPid] /\ Len(none) = m
    <2>1. PICK none : none = [i \in 1 .. m |-> NoPid]
      OBVIOUS
    <2>2. none \in Seq(Nat) /\ Len(none) = m
      BY <2>1 DEF NoPid
    <2> QED
      BY <2>1, <2>2
  <1>5. java' = java \o add /\ launchOf' = launchOf \o none /\ UNCHANGED <<procs, javaCall, abandoned>>
    BY <1>2, <1>3, <1>4 DEF JavaSetup
  <1>6. PICK t : t = java \o add
    OBVIOUS
  <1>7. t \in Seq(JRow) /\ IsJoined(t, java, add)
    BY <1>0, <1>6, Joined DEF JTyped
  <1>8. PICK l : l = launchOf \o none
    OBVIOUS
  <1>9. l \in Seq(Nat) /\ IsJoined(l, launchOf, none)
    BY <1>0, <1>8, Joined DEF JTyped
  <1>10. /\ Len(t) = n + m /\ Len(l) = n + m
         /\ \A i \in 1 .. n : t[i] = java[i] /\ l[i] = launchOf[i]
         /\ \A i \in 1 .. n + m : i \notin 1 .. n => t[i].pid = NoPid /\ l[i] = NoPid
    <2>1. Len(launchOf) = n
      BY <1>0, <1>1 DEF JTyped
    <2>2. \A i \in 1 .. n + m : i \notin 1 .. n =>
            i - n \in 1 .. m /\ t[i] = add[i - n] /\ l[i] = none[i - n]
      BY <1>1, <1>3, <1>4, <1>7, <1>9, <2>1 DEF IsJoined
    <2> QED
      BY <1>1, <1>2, <1>3, <1>4, <1>7, <1>9, <2>1, <2>2 DEF IsJoined
  <1>11. JNodes' = 1 .. n + m /\ JNodes \subseteq JNodes' /\ Procs' = Procs
    <2>1. Len(java') = n + m
      BY <1>5, <1>6, <1>10
    <2>2. 1 .. n \subseteq 1 .. n + m
      BY <1>1, <1>3
    <2> QED
      BY <1>1, <1>5, <2>1, <2>2 DEF JNodes, Procs
  <1>12. javaCall \in JCall'
    <2>1. PICK ids : ids = javaCall.ids
      OBVIOUS
    <2>2. ids \in Seq(JNodes) /\ javaCall.how \in {"none", "all", "one", "started", "raised", "other"}
          /\ javaCall = [how |-> javaCall.how, ids |-> ids]
      BY <1>0, <2>1 DEF JTyped, JCall
    <2>3. ids \in Seq(JNodes')
      BY <1>11, <2>2
    <2> QED
      BY <2>2, <2>3 DEF JCall
  <1>13. \A i \in JNodes' : /\ java'[i] \in JRow /\ java'[i].pid \in {NoPid} \cup Procs
                            /\ launchOf'[i] \in {NoPid} \cup Procs
    <2> SUFFICES ASSUME NEW i \in 1 .. n + m
                 PROVE  /\ t[i] \in JRow /\ t[i].pid \in {NoPid} \cup Procs
                        /\ l[i] \in {NoPid} \cup Procs
      BY <1>5, <1>6, <1>8, <1>11
    <2>1. t[i] \in JRow
      BY <1>7, <1>10
    <2>2. CASE i \in 1 .. n
      BY <1>0, <1>1, <1>10, <2>1, <2>2 DEF JavaTypeOK
    <2>3. CASE i \notin 1 .. n
      BY <1>10, <2>1, <2>3
    <2> QED
      BY <2>2, <2>3
  <1>14. \A p \in Procs : procs[p] \in [node : JNodes', log : Nat, alive : BOOLEAN]
    <2> SUFFICES ASSUME NEW p \in Procs PROVE procs[p] \in [node : JNodes', log : Nat, alive : BOOLEAN]
      OBVIOUS
    <2>1. procs[p] \in [node : JNodes, log : Nat, alive : BOOLEAN]
      BY <1>0 DEF JavaTypeOK
    <2> QED
      BY <2>1, <1>11
  <1>15. JavaTypeOK'
    <2>1. \A i \in JNodes' : /\ java'[i].host \in Range(JavaHosts)
                             /\ java'[i].status \in {"NEW", "STARTING", "STARTED", "KILLING", "KILLED"}
                             /\ java'[i].counter \in Nat
      BY <1>13 DEF JRow
    <2>2. DOMAIN launchOf' = JNodes'
      BY <1>5, <1>8, <1>9, <1>10, <1>11
    <2>3. abandoned' \subseteq JNodes'
      BY <1>0, <1>5, <1>11 DEF JavaTypeOK
    <2>4. javaCall' \in [how : {"none", "all", "one", "started", "raised", "other"}, ids : Seq(JNodes')]
      BY <1>5, <1>12 DEF JCall
    <2> QED
      BY <1>5, <1>11, <1>13, <1>14, <2>1, <2>2, <2>3, <2>4 DEF JavaTypeOK
  <1>16. JTyped'
    <2>1. java' \in Seq(JRow) /\ launchOf' \in Seq(Nat) /\ Len(launchOf') = Len(java')
      BY <1>5, <1>6, <1>7, <1>8, <1>9, <1>10
    <2>2. procs' \in Seq(JProc) /\ javaCall' \in JCall'
      BY <1>0, <1>5, <1>12 DEF JTyped
    <2> QED
      BY <1>15, <2>1, <2>2 DEF JTyped
  <1>17. \A i \in JNodes : java'[i] = java[i] /\ launchOf'[i] = launchOf[i]
    BY <1>1, <1>5, <1>6, <1>8, <1>10
  <1>18. CallOwn'
    <2>1. Range(javaCall.ids) \subseteq JNodes
      <3>1. PICK ids \in Seq(JNodes) : ids = javaCall.ids
        BY <1>0 DEF JTyped, JCall
      <3> QED
        BY <3>1 DEF Range
    <2> QED
      BY <1>0, <1>5, <1>17, <2>1 DEF CallOwn
  <1>19. KnownProcs'
    <2>1. \A p \in Procs : procs[p].node \in JNodes
      BY <1>0 DEF JavaTypeOK
    <2> QED
      BY <1>0, <1>5, <1>11, <1>17, <2>1 DEF KnownProcs
  <1> QED
    BY <1>16, <1>18, <1>19 DEF JInv, NoneCreated

LEMMA JavaVarsKept ==
  ASSUME JInv, UNCHANGED javaVars, appsCreated => appsCreated'
  PROVE  JInv'
  <1>1. UNCHANGED <<java, procs, launchOf, javaCall, abandoned>>
    BY DEF javaVars
  <1>2. JNodes' = JNodes /\ Procs' = Procs
    BY <1>1 DEF JNodes, Procs
  <1>3. javaCall' \in JCall' /\ JavaTypeOK'
    BY <1>1, <1>2 DEF JInv, JTyped, JCall, JavaTypeOK
  <1>4. JTyped'
    BY <1>1, <1>3 DEF JInv, JTyped
  <1>5. CallOwn' /\ KnownProcs' /\ NoneCreated'
    BY <1>1, <1>2 DEF JInv, CallOwn, KnownProcs, NoneCreated
  <1> QED
    BY <1>4, <1>5 DEF JInv

\* An empty table.
LEMMA JavaEmpty ==
  ASSUME java = << >>, procs = << >>, launchOf = << >>, javaCall = JavaEnd("none", << >>),
         abandoned = {}
  PROVE  JInv
  <1>1. JNodes = {} /\ Procs = {} /\ Range(<< >>) = {}
    BY DEF JNodes, Procs, Range
  <1>2. /\ java \in Seq(JRow) /\ procs \in Seq(JProc) /\ launchOf \in Seq(Nat)
        /\ Len(launchOf) = Len(java) /\ DOMAIN launchOf = {}
    OBVIOUS
  <1>3. javaCall \in JCall /\ javaCall.how = "none"
    BY DEF JCall, JavaEnd
  <1>4. JavaTypeOK
    BY <1>1, <1>2, <1>3 DEF JavaTypeOK, JCall
  <1> QED
    BY <1>1, <1>2, <1>3, <1>4 DEF JInv, JTyped, CallOwn, KnownProcs, NoneCreated

\* A Java application is made anew only while it has no nodes.
LEMMA JavaConstructKeeps ==
  ASSUME JInv, Requirements
  PROVE  JInv'
  <1>1. PICK k \in 0 .. Len(Configured) : Create(k)
    BY DEF Requirements, CheckRequirements
  <1>2. appsCreated => appsCreated' /\ Replaced = {}
    BY <1>1 DEF Create, Replaced
  <1>3. CASE JavaName \notin Replaced
    <2>1. UNCHANGED javaVars
      BY <1>3 DEF Requirements, Construct, javaVars
    <2> QED
      BY <1>2, <2>1, JavaVarsKept
  <1>4. CASE JavaName \in Replaced
    <2>1. procs = << >>
      BY <1>2, <1>4 DEF JInv, NoneCreated
    <2>2. java' = << >> /\ procs' = << >> /\ launchOf' = << >> /\ javaCall' = JavaEnd("none", << >>)
          /\ abandoned' = {}
      BY <1>4, <2>1 DEF Requirements, Construct
    <2>3. (java = << >> /\ procs = << >> /\ launchOf = << >> /\ javaCall = JavaEnd("none", << >>)
           /\ abandoned = {})'
      BY <2>2
    <2>4. (java = << >> /\ procs = << >> /\ launchOf = << >> /\ javaCall = JavaEnd("none", << >>)
           /\ abandoned = {})' => JInv'
      BY JavaEmpty, PTL
    <2> QED
      BY <2>3, <2>4
  <1> QED
    BY <1>3, <1>4

LEMMA JavaStarts ==
  ASSUME JInv, NEW how \in {"all", "one"}, NEW ids \in Seq(JNodes), IsInjective(ids),
         Started(how, ids), java # << >>, appsCreated' = appsCreated
  PROVE  JInv'
  <1>1. PICK R, raises : Start(how, ids, R, raises)
    BY DEF Started
  <1> QED
    BY <1>1, StartKeeps

LEMMA JavaStepKeeps ==
  ASSUME JInv, CreatedOK, [Next]_vars
  PROVE  JInv'
  <1>1. CASE Requirements
    BY <1>1, JavaConstructKeeps
  <1>2. CASE Setup
    <2>1. PICK k : SetUp(k) /\ (JavaSetup \/ UNCHANGED javaVars)
      BY <1>2 DEF Setup
    <2>2. appsCreated /\ appsCreated' = appsCreated
      BY <2>1 DEF SetUp, Phase, CreatedOK, Create
    <2> QED
      BY <2>1, <2>2, JavaSetupKeeps, JavaVarsKept
  <1>3. CASE UNCHANGED javaVars /\ appsCreated' = appsCreated
    BY <1>3, JavaVarsKept
  <1>4. CASE StartNodes /\ UNCHANGED containerVars
    <2>1. java # << >> /\ Started("all", InTable) /\ appsCreated' = appsCreated
      BY <1>4 DEF StartNodes, containerVars
    <2>2. InTable \in Seq(JNodes) /\ IsInjective(InTable)
      <3>1. PICK n \in Nat : n = Len(java) /\ JNodes = 1 .. n
        BY DEF JInv, JTyped, JNodes
      <3> QED
        BY <3>1 DEF InTable, IsInjective
    <2> QED
      BY <2>1, <2>2, JavaStarts
  <1>5. CASE (\E i \in JNodes : StartJavaNode(i)) /\ UNCHANGED containerVars
    <2>1. PICK i \in JNodes : Started("one", <<i>>)
      BY <1>5 DEF StartJavaNode
    <2>2. appsCreated' = appsCreated /\ java # << >>
      BY <1>5, <2>1 DEF containerVars, JNodes
    <2>3. <<i>> \in Seq(JNodes) /\ IsInjective(<<i>>)
      BY DEF IsInjective
    <2> QED
      BY <2>1, <2>2, <2>3, JavaStarts
  <1>6. CASE (\E ids, sigkill : JavaKill(ids, sigkill)) /\ UNCHANGED containerVars
    BY <1>6, KillKeeps DEF containerVars
  <1>7. CASE CheckStarted /\ UNCHANGED containerVars
    BY <1>7, CheckKeeps DEF containerVars
  <1>8. CASE (\E p \in Procs : JavaDies(p)) /\ UNCHANGED containerVars
    BY <1>8, DiesKeeps DEF containerVars
  <1>9. CASE UNCHANGED vars
    BY <1>9, <1>3 DEF vars, containerVars
  <1>10. CASE Teardown
    BY <1>10, <1>3 DEF Teardown, TearDown
  <1>11. CASE Next
    BY <1>11, <1>1, <1>2, <1>3, <1>4, <1>5, <1>6, <1>7, <1>8, <1>9, <1>10
       DEF Next, ZkTest, ZkStep, JavaTest, JavaStep, Test, Done, containerVars
  <1> QED
    BY <1>9, <1>11

LEMMA JavaAlways == Spec => []JInv
  <1>1. Init => JInv
    BY JavaEmpty DEF Init, JavaInit
  <1>2. ZInv /\ JInv /\ [Next]_vars => JInv'
    BY JavaStepKeeps DEF ZInv
  <1> QED
    BY <1>1, <1>2, Always, PTL DEF Spec

\* When start_nodes or start_node has returned, each node it started has the PID of its own
\* process, whatever commands the pool refused (JavaApp.start_nodes, start_node).
THEOREM ThePidsAreOwn == Spec => []PidsAreOwn
  <1>1. JInv => PidsAreOwn
    BY DEF JInv, CallOwn, PidsAreOwn
  <1> QED
    BY <1>1, JavaAlways, PTL

\* A Java process that runs is in the table, unless a start raised for its node or started it
\* while it ran (JavaApp.start_nodes, App.kill_nodes and stop_nodes).
THEOREM NoJavaIsForgotten == Spec => []NoForgottenJava
  <1>1. ASSUME JInv PROVE NoForgottenJava
    <2> SUFFICES ASSUME NEW p \in Procs, procs[p].alive, procs[p].node \notin abandoned
                 PROVE  \E i \in JNodes : java[i].pid = p
      BY DEF NoForgottenJava
    <2>1. procs[p].node \in JNodes
      BY <1>1 DEF JInv, JTyped, JavaTypeOK
    <2>2. java[procs[p].node].pid = p
      BY <1>1 DEF JInv, KnownProcs
    <2> QED
      BY <2>1, <2>2
  <1> QED
    BY <1>1, JavaAlways, PTL
=============================================================================
