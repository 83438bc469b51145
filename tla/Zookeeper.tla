----------------------------- MODULE Zookeeper -----------------------------
(***************************************************************************)
(* The ZooKeeper application of src/tiden/apps/zookeeper: the table of its *)
(* nodes, the processes that zkServer.sh runs at the hosts, and the thread *)
(* ZkNodesRestart that kills and starts the nodes while the test that      *)
(* opened it (`with ZkNodesRestart(zk, n):`) calls the same operations.    *)
(*                                                                         *)
(* Both work on the table without a lock.  An operation is split where it  *)
(* waits for a host: what it read before, it uses after.  A public method  *)
(* is a list of operations on single nodes, `todo`, which an exception     *)
(* gives up.                                                               *)
(*                                                                         *)
(* The module is extended by Apps, which has the other calls of a test.    *)
(***************************************************************************)
EXTENDS Integers, Sequences, FiniteSets, Events

CONSTANTS
  ZkTotal,       \* zookeeper_total_nodes
  NodesAmount    \* nodes_amount of the restarting thread

ASSUME ZkAssumption == ZkTotal \in Nat \ {0} /\ NodesAmount \in 1 .. ZkTotal

ZkNodes == 1 .. ZkTotal
Actors  == {"main", "restarter"}

\* A PID is given again when nobody refers to it any more, so that few are enough: the
\* tables of the framework and of the hosts name 2 * ZkTotal of them, the actors one each.
Pids    == 1 .. 2 * ZkTotal + 3
NonePid == 0     \* get_pid found no PID: 'PID': None
NoKey   == -1    \* there is no key 'PID'

VARIABLES
  zk,         \* the table: state, PID and configuration of each node, and (a history variable)
              \* the actor that marked it as killed last
  pidFile,    \* zookeeper_server.pid at the host, NonePid if there is none
  zkAlive,    \* the processes that run
  zooCfg,     \* zoo.cfg at the host
  act,        \* what each actor is doing on which node
  todo,       \* what is left of the method each actor is in
  thread,     \* the restarting thread
  running,    \* self.running of the thread
  within,     \* the test is in the `with` block, or waits in its __exit__
  zkCall,     \* the method that main returned from last
  mixed       \* the nodes two actors have operated on at the same time, or that had a mishap

zkVars == <<zk, pidFile, zkAlive, zooCfg, act, todo, thread, running, within, zkCall, mixed>>

-----------------------------------------------------------------------------
\* The lines of zoo.cfg besides the defaults: what the tests add, and dataDir with the servers.
Config == [custom : 0 .. 2, servers : 0 .. 1]
Defaults == [custom |-> 0, servers |-> 0]

Idle == [pc |-> "idle", node |-> 1, pid |-> NonePid]

ZkTypeOK ==
  /\ zk \in [ZkNodes -> [state : {"NEW", "STARTED", "KILLED"},
                         killer : Actors \cup {"none"},
                         pid : Pids \cup {NonePid, NoKey}, config : Config]]
  /\ pidFile \in [ZkNodes -> Pids \cup {NonePid}]
  /\ zkAlive \subseteq ZkNodes \X Pids
  /\ zooCfg  \in [ZkNodes -> Config]
  /\ act     \in [Actors -> [pc : {"idle", "launch", "read", "record", "signal", "stop", "mark"},
                             node : ZkNodes, pid : Pids \cup {NonePid}]]
  /\ todo    \in [Actors -> Seq({"start", "kill", "stop"} \X ZkNodes)]
  /\ thread  \in {"none", "running", "ended", "raised"}
  /\ running \in BOOLEAN
  /\ within  \in {"out", "in", "exit"}
  /\ zkCall  \in {"none", "start", "stop", "other", "raised"}
  /\ mixed   \subseteq ZkNodes

NewZk == [n \in ZkNodes |-> [state |-> "NEW", killer |-> "none", pid |-> NoKey, config |-> Defaults]]

ZkInit ==
  /\ zk      = NewZk
  /\ pidFile = [n \in ZkNodes |-> NonePid]
  /\ zkAlive = {}
  /\ zooCfg  = [n \in ZkNodes |-> Defaults]
  /\ act     = [a \in Actors |-> Idle]
  /\ todo    = [a \in Actors |-> << >>]
  /\ thread  = "none"
  /\ running = FALSE
  /\ within  = "out"
  /\ zkCall  = "none"
  /\ mixed   = {}

-----------------------------------------------------------------------------
Lives(n, p) == <<n, p>> \in zkAlive

NewPid ==
  CHOOSE p \in Pids : /\ \A n \in ZkNodes : ~Lives(n, p) /\ zk[n].pid # p /\ pidFile[n] # p
                      /\ \A a \in Actors : act[a].pid # p

Other(a) == CHOOSE b \in Actors : b # a

\* The actor ends its operation, normally or by an exception: that gives up the method it is
\* in, ends the restarting thread, and in the test is the end of the call.
Ended(a, ok) ==
  /\ act'  = [act EXCEPT ![a] = Idle]
  /\ todo' = IF ok THEN todo ELSE [todo EXCEPT ![a] = << >>]
  /\ thread' = IF ~ok /\ a = "restarter" THEN "raised" ELSE thread
  /\ zkCall' = IF ~ok /\ a = "main" THEN "raised" ELSE zkCall

Goes(a, pc, n, p) ==
  /\ act' = [act EXCEPT ![a] = [pc |-> pc, node |-> n, pid |-> p]]
  /\ UNCHANGED <<thread, zkCall>>

\* The next operation of a method begins: start_node returns when the table has the node as
\* started, kill_node needs the key 'PID'.
Begins(a, op, n) ==
  /\ act[a].pc = "idle" /\ todo[a] # << >> /\ Head(todo[a]) = <<op, n>>
  /\ mixed' = IF act[Other(a)].pc # "idle" /\ act[Other(a)].node = n THEN mixed \cup {n}
              ELSE mixed

Taken(a) == todo' = [todo EXCEPT ![a] = Tail(@)]

StartNode(a, n) ==
  /\ Begins(a, "start", n)
  /\ Taken(a)
  /\ IF zk[n].state = "STARTED"
     THEN UNCHANGED <<act, thread, zkCall>>
     ELSE Goes(a, "launch", n, NonePid)
  /\ UNCHANGED <<zk, pidFile, zkAlive, zooCfg, running, within, events>>

KillNode(a, n) ==
  /\ Begins(a, "kill", n)
  /\ IF zk[n].pid = NoKey
     THEN Ended(a, FALSE)
     ELSE Taken(a) /\ Goes(a, "signal", n, zk[n].pid)
  /\ UNCHANGED <<zk, pidFile, zkAlive, zooCfg, running, within, events>>

StopNode(a, n) ==
  /\ Begins(a, "stop", n)
  /\ Taken(a)
  /\ Goes(a, "stop", n, NonePid)
  /\ UNCHANGED <<zk, pidFile, zkAlive, zooCfg, running, within, events>>

\* External: `zkServer.sh start` answers STARTED with a new process and its PID in the file,
\* or refuses because the process of the file runs; or, a mishap, fails.  Without STARTED in
\* the answer start_node raises.
Launch(a) ==
  LET n == act[a].node IN
  /\ act[a].pc = "launch"
  /\ \/ /\ ~Lives(n, pidFile[n])
        /\ zkAlive' = zkAlive \cup {<<n, NewPid>>}
        /\ pidFile' = [pidFile EXCEPT ![n] = NewPid]
        /\ Goes(a, "read", n, NonePid)
        /\ Quiet /\ UNCHANGED <<todo, mixed>>
     \/ /\ Lives(n, pidFile[n])
        /\ Ended(a, FALSE)
        /\ Quiet /\ UNCHANGED <<zkAlive, pidFile, mixed>>
     \/ /\ ~Lives(n, pidFile[n]) /\ Happens
        /\ mixed' = mixed \cup {n}
        /\ Ended(a, FALSE)
        /\ UNCHANGED <<zkAlive, pidFile>>
  /\ UNCHANGED <<zk, zooCfg, running, within>>

\* The PID is read only for a node that has none.
ReadPidOnce(a) ==
  LET n == act[a].node IN
  /\ act[a].pc = "read"
  /\ Goes(a, "record", n, IF zk[n].pid = NoKey THEN pidFile[n] ELSE zk[n].pid)
  /\ UNCHANGED <<zk, pidFile, zkAlive, zooCfg, todo, running, within, events, mixed>>

\* get_pid: the file may be gone by now.
ReadPid(a) ==
  LET n == act[a].node IN
  /\ act[a].pc = "read"
  /\ Goes(a, "record", n, pidFile[n])
  /\ UNCHANGED <<zk, pidFile, zkAlive, zooCfg, todo, running, within, events, mixed>>

Record(a) ==
  LET n == act[a].node IN
  /\ act[a].pc = "record"
  /\ zk' = [zk EXCEPT ![n].pid = act[a].pid, ![n].state = "STARTED"]
  /\ Ended(a, TRUE)
  /\ UNCHANGED <<pidFile, zkAlive, zooCfg, running, within, events, mixed>>

\* `kill -9 PID` at the host of the node; `kill -9 None` does nothing.
Signal(a) ==
  LET n == act[a].node IN
  /\ act[a].pc = "signal"
  /\ zkAlive' = zkAlive \ {<<n, act[a].pid>>}
  /\ Goes(a, "mark", n, NonePid)
  /\ UNCHANGED <<zk, pidFile, zooCfg, todo, running, within, events, mixed>>

\* `zkServer.sh stop` kills the process of the PID file and removes the file.
StopCommand(a) ==
  LET n == act[a].node IN
  /\ act[a].pc = "stop"
  /\ zkAlive' = zkAlive \ {<<n, pidFile[n]>>}
  /\ pidFile' = [pidFile EXCEPT ![n] = NonePid]
  /\ Goes(a, "mark", n, NonePid)
  /\ UNCHANGED <<zk, zooCfg, todo, running, within, events, mixed>>

Mark(a) ==
  /\ act[a].pc = "mark"
  /\ zk' = [zk EXCEPT ![act[a].node].state = "KILLED", ![act[a].node].killer = a]
  /\ Ended(a, TRUE)
  /\ UNCHANGED <<pidFile, zkAlive, zooCfg, running, within, events, mixed>>

\* External: a node dies by itself.
ZkDies(n, p) ==
  /\ Lives(n, p) /\ Happens
  /\ zkAlive' = zkAlive \ {<<n, p>>}
  /\ mixed' = mixed \cup {n}
  /\ UNCHANGED <<zk, pidFile, zooCfg, act, todo, thread, running, within, zkCall>>

-----------------------------------------------------------------------------
\* The methods a test calls.  Each is called when the last one has returned.
ZkIdle(a) == act[a].pc = "idle" /\ todo[a] = << >>

InOrder(op) == [i \in 1 .. ZkTotal |-> <<op, i>>]

ZkCalls(name, ops) ==
  /\ ZkIdle("main") /\ within # "exit" /\ Happens
  /\ zkCall' = name
  /\ todo'   = [todo EXCEPT !["main"] = ops]

AddTo(c, entry) == [c EXCEPT ![entry] = @ + 1]

\* _prepare_zk_configs: the configuration of every node is set back to the defaults, gets the
\* generated lines, and is written to the host.
Prepare ==
  LET written == [n \in ZkNodes |-> AddTo(Defaults, "servers")] IN
  /\ zk'     = [n \in ZkNodes |-> [zk[n] EXCEPT !.config = written[n]]]
  /\ zooCfg' = written

ZkStart ==
  /\ ZkCalls("start", InOrder("start"))
  /\ Prepare
  /\ UNCHANGED <<pidFile, zkAlive, act, thread, running, within, mixed>>

StopName == IF within = "out" THEN "stop" ELSE "other"

\* stop() of the nodes the table has as started only.
StopStarted ==
  /\ ZkCalls(StopName, SelectSeq(InOrder("stop"), LAMBDA o : zk[o[2]].state = "STARTED"))
  /\ UNCHANGED <<zk, zooCfg, pidFile, zkAlive, act, thread, running, within, mixed>>

ZkStop ==
  /\ ZkCalls(StopName, InOrder("stop"))
  /\ UNCHANGED <<zk, zooCfg, pidFile, zkAlive, act, thread, running, within, mixed>>

\* start_node, stop_node and kill_node of one node.
ZkNodeCall(op, n) ==
  /\ ZkCalls("other", << <<op, n>> >>)
  /\ zooCfg # [m \in ZkNodes |-> Defaults]   \* start() has set 'home' and 'path' once
  /\ UNCHANGED <<zk, zooCfg, pidFile, zkAlive, act, thread, running, within, mixed>>

\* update_zookeeper_config with a list of values for one node, with and without flush.
UpdateConfig(n, flush) ==
  LET c == AddTo(zk[n].config, "custom") IN
  /\ ZkCalls("other", << >>)
  /\ zk[n].config.custom = 0
  /\ zooCfg[n] # Defaults
  /\ zk' = [zk EXCEPT ![n].config = c]
  /\ zooCfg' = IF flush THEN [zooCfg EXCEPT ![n] = c] ELSE zooCfg
  /\ UNCHANGED <<pidFile, zkAlive, act, thread, running, within, mixed>>

\* kill_nodes, inherited from App: it writes the key 'status', which this application does
\* not read, so that the table goes on saying STARTED.
InheritedKill ==
  /\ ZkCalls("other", << >>)
  /\ zkAlive' = zkAlive \ {<<n, zk[n].pid>> : n \in ZkNodes}
  /\ mixed' = ZkNodes
  /\ UNCHANGED <<zk, zooCfg, pidFile, act, thread, running, within>>

-----------------------------------------------------------------------------
\* __enter__ starts the thread.
EnterWith ==
  /\ ZkIdle("main") /\ within = "out" /\ Happens
  /\ within'  = "in"
  /\ thread'  = "running"
  /\ running' = TRUE
  /\ zkCall'  = "other"
  /\ UNCHANGED <<zk, pidFile, zkAlive, zooCfg, act, todo, mixed>>

\* __exit__: stop() and join().  An exception of the body is raised again as another one.
ExitWith ==
  /\ ZkIdle("main") /\ within = "in"
  /\ within'  = "exit"
  /\ running' = FALSE
  /\ UNCHANGED <<zk, pidFile, zkAlive, zooCfg, act, todo, thread, zkCall, events, mixed>>

Join ==
  /\ within = "exit" /\ thread # "running"
  /\ within' = "out"
  /\ thread' = IF thread = "raised" THEN "raised" ELSE "ended"
  /\ UNCHANGED <<zk, pidFile, zkAlive, zooCfg, act, todo, running, zkCall, events, mixed>>

\* One round of run(): every node of the first NodesAmount is killed and started again.
Round == [i \in 1 .. 2 * NodesAmount |->
            <<IF i % 2 = 1 THEN "kill" ELSE "start", (i + 1) \div 2>>]

\* The thread looks at self.running after each operation, and not after a round.
RunEager ==
  /\ thread = "running" /\ act["restarter"].pc = "idle"
  /\ IF ~running
     THEN /\ thread' = "ended"
          /\ todo' = [todo EXCEPT !["restarter"] = << >>]
     ELSE /\ todo["restarter"] = << >>
          /\ todo' = [todo EXCEPT !["restarter"] = Round]
          /\ UNCHANGED thread
  /\ UNCHANGED <<zk, pidFile, zkAlive, zooCfg, act, running, within, zkCall, events, mixed>>

\* The thread does not look at self.running.
RunForever ==
  /\ thread = "running" /\ ZkIdle("restarter")
  /\ todo' = [todo EXCEPT !["restarter"] = Round]
  /\ UNCHANGED <<zk, pidFile, zkAlive, zooCfg, act, thread, running, within, zkCall, events,
                 mixed>>

Run ==
  /\ thread = "running" /\ ZkIdle("restarter")
  /\ IF running
     THEN todo' = [todo EXCEPT !["restarter"] = Round] /\ UNCHANGED thread
     ELSE thread' = "ended" /\ UNCHANGED todo
  /\ UNCHANGED <<zk, pidFile, zkAlive, zooCfg, act, running, within, zkCall, events, mixed>>

\* The steps of an operation, of either actor.
Operation(a) ==
  \/ \E n \in ZkNodes : StartNode(a, n) \/ KillNode(a, n) \/ StopNode(a, n)
  \/ Launch(a) \/ ReadPid(a) \/ Record(a) \/ Signal(a) \/ StopCommand(a) \/ Mark(a)

-----------------------------------------------------------------------------
ZkQuiet == ZkIdle("main") /\ thread # "running"

\* A node no two actors have worked on at the same time, and that had no mishap, is in the
\* table what it is at its host: it is STARTED exactly if its process runs, with the PID the
\* table has.
TableIsTrue ==
  ZkQuiet => \A n \in ZkNodes \ mixed :
    IF zk[n].state = "STARTED"
    THEN \A p \in Pids : Lives(n, p) <=> p = zk[n].pid
    ELSE \A p \in Pids : ~Lives(n, p)

\* A restarting thread that has ended without an exception has started again what it killed:
\* also the node it was restarting when the test left the block.
KilledAreBack ==
  thread = "ended" => \A n \in ZkNodes \ mixed :
    zk[n].state = "KILLED" => zk[n].killer = "main"

\* When stop() has returned outside of a restarting thread no node runs, whatever the table
\* says and whatever has happened before: after races, mishaps and the inherited kill_nodes.
StopStopsAll == ZkQuiet /\ zkCall = "stop" => zkAlive = {}

\* The __exit__ of a restarting thread returns: the thread sees running = False after the
\* round it is in, or has ended by an exception.
ExitReturns == within = "exit" ~> within = "out"
=============================================================================
