---------------------------- MODULE IgniteNodes ----------------------------
(***************************************************************************)
(* The server nodes of a grid: Ignite of src/tiden/apps/ignite/ignite.py   *)
(* with its node and topology mixins, App.kill_nodes and App.grep_log.     *)
(*                                                                         *)
(* The test code starts, stops and kills nodes through a table, self.nodes.*)
(* The processes run on the hosts by themselves: they boot, join a         *)
(* topology, learn of its changes late, crash, and die late when they are  *)
(* signalled.  What the table knows of them comes from their logs: the PID *)
(* and the topology snapshots.                                             *)
(*                                                                         *)
(* A process is a number, which is also its PID; PIDs are not reused.  A   *)
(* log is the process that writes it: each start makes a log of its own.   *)
(***************************************************************************)
EXTENDS Integers, FiniteSets

CONSTANTS
  Default,      \* the node ids of the configuration, 1, 2, ...
  Additional,   \* the ids add_additional_nodes may give, 10001, 10002, ...
  Coordinator,  \* get_start_server_idx()
  MaxProcs,     \* bound: the processes that may be launched
  MaxCalls,     \* bound: the calls of the test code
  MaxMishaps    \* bound: the kinds of mishap in one behaviour, but for "failed" and "late"

Ids  == Default \cup Additional
Proc == 1 .. MaxProcs

ASSUME IdsAssumption ==
  /\ Ids \subseteq Nat /\ IsFiniteSet(Ids)
  /\ \A d \in Default, a \in Additional : d < a
  /\ \A a, b \in Additional : a .. b \subseteq Additional
ASSUME CoordinatorAssumption == Coordinator \in Default
ASSUME BoundsAssumption      == {MaxProcs, MaxCalls, MaxMishaps} \subseteq Nat

VARIABLES
  nodes,     \* self.nodes: status, PID and log of each id
  calls,     \* how many calls were made
  at,        \* what the current call waits for
  expect,    \* the number of servers wait_for_topology_snapshot waits for
  started,   \* started_ids of the current call
  rest,      \* the nodes start_nodes() launches after the coordinator
  victims,   \* alive_nodes of stop_nodes
  pids,      \* ignite_pids of stop_nodes
  procs,     \* the processes
  topology,  \* the grid: its version and the processes in it
  mishaps,   \* what has gone wrong, or was asked for, so far
  owed       \* the processes the current stop_nodes has to stop

stopVars  == <<victims, pids, owed>>
startVars == <<expect, started, rest>>
vars == <<nodes, calls, at, startVars, stopVars, procs, topology, mishaps>>

-----------------------------------------------------------------------------
\* "GONE" is an id that self.nodes does not have.
NodeStatus == {"NEW", "STARTING", "STARTED", "KILLING", "KILLED", "GONE"}
Present == {n \in Ids : nodes[n].status # "GONE"}

\* No PID, or the PID None; no log.
NoProc == 0

\* "failed"       a start raised: its nodes stay STARTING
\* "unchecked"    start_node(skip_topology_check=True)
\* "forced"       force=True, or reset(hard=True), over a node that has a process
\* "late"         stop_nodes gave up waiting
\* "remote"       the SSH pool raised while nodes were being killed
\* "overwritten"  add_additional_nodes gave an id that was in use
Mishap == {"failed", "unchecked", "forced", "late", "remote", "overwritten"}

\* The latest topology snapshot in a log; version 0 when there is none.
Snapshot   == [ver : 0 .. 2 * MaxProcs, servers : 0 .. MaxProcs]
NoSnapshot == [ver |-> 0, servers |-> 0]

TypeOK ==
  /\ nodes    \in [Ids -> [status : NodeStatus, pid : Proc \cup {NoProc},
                           log : Proc \cup {NoProc}]]
  /\ calls    \in 0 .. MaxCalls
  /\ at       \in {"idle", "wait", "launch", "record", "poll"}
  /\ expect   \in 0 .. Cardinality(Present)
  /\ started  \subseteq Ids
  /\ rest     \subseteq Default
  /\ victims  \subseteq Ids
  /\ pids     \subseteq Proc
  /\ procs    \in [Proc -> [state : {"unborn", "booting", "joined", "dead"},
                            owner : Ids, signal : {"none", "TERM", "KILL"},
                            fatal : BOOLEAN, seen : Snapshot]]
  /\ topology \in [ver : 0 .. 2 * MaxProcs, members : SUBSET Proc]
  /\ mishaps  \subseteq Mishap
  /\ owed     \subseteq Proc

Node(s) == [status |-> s, pid |-> NoProc, log |-> NoProc]

Unborn == [state |-> "unborn", owner |-> Coordinator, signal |-> "none", fatal |-> FALSE,
           seen |-> NoSnapshot]

\* After setup(): the default nodes are in the table.
Init ==
  /\ nodes    = [n \in Ids |-> Node(IF n \in Default THEN "NEW" ELSE "GONE")]
  /\ calls    = 0
  /\ at       = "idle"
  /\ expect   = 0
  /\ started  = {}
  /\ rest     = {}
  /\ victims  = {}
  /\ pids     = {}
  /\ procs    = [p \in Proc |-> Unborn]
  /\ topology = [ver |-> 0, members |-> {}]
  /\ mishaps  = {}
  /\ owed     = {}

-----------------------------------------------------------------------------
Running(p) == p \in Proc /\ procs[p].state \in {"booting", "joined"}

\* A process that nobody has sent a SIGKILL to.
Free(p) == Running(p) /\ procs[p].signal # "KILL"

\* get_alive_default_nodes and get_alive_additional_nodes.
AliveIn(table) == {n \in Ids : table[n].status = "STARTED"}
AliveNodes     == AliveIn(nodes)

HasProcess(S) == \E p \in Proc : Free(p) /\ procs[p].owner \in S

\* _delete_server_node.
Deleted(r) == [r EXCEPT !.status = "KILLED", !.pid = NoProc]

\* The process of each node of S: the next free numbers, in the order of the ids.
Launched(S, n) ==
  Cardinality({p \in Proc : procs[p].state # "unborn"}) + Cardinality({m \in S : m <= n})

\* The start commands of the nodes of S, on a table that may have been changed before.
Launch(S, table) ==
  /\ \A n \in S : Launched(S, n) <= MaxProcs
  /\ nodes' = [n \in Ids |-> IF n \in S
                             THEN [table[n] EXCEPT !.status = "STARTING", !.log = Launched(S, n)]
                             ELSE table[n]]
  /\ procs' = [p \in Proc |-> IF \E n \in S : Launched(S, n) = p
                              THEN [Unborn EXCEPT !.state = "booting",
                                      !.owner = CHOOSE n \in S : Launched(S, n) = p]
                              ELSE procs[p]]

\* A call of the test code.
Called ==
  /\ at = "idle"
  /\ calls < MaxCalls
  /\ calls' = calls + 1

\* wait_for_topology_snapshot(n) for the nodes S.
WaitFor(n, S, later) ==
  /\ at'      = "wait"
  /\ expect'  = n
  /\ started' = S
  /\ rest'    = later

\* The call returns, or raises.
Return ==
  /\ at'      = "idle"
  /\ expect'  = 0
  /\ started' = {}
  /\ rest'    = {}
  /\ victims' = {}
  /\ pids'    = {}
  /\ owed'    = {}
  /\ UNCHANGED calls

Blame(m, condition) ==
  /\ mishaps' = IF condition THEN mishaps \cup {m} ELSE mishaps
  /\ Cardinality(mishaps' \ {"failed", "late"}) <= MaxMishaps

-----------------------------------------------------------------------------
\* start_node counts the started nodes before its own leaves their number.
StartNodeCountFirst(n, force, skip) ==
  /\ Called /\ n \in Default
  /\ nodes[n].status = "STARTED" => force
  /\ Launch({n}, nodes)
  /\ IF skip
     THEN UNCHANGED <<at, startVars>> /\ Blame("unchecked", TRUE)
     ELSE WaitFor(Cardinality(AliveNodes) + 1, {n}, {})
          /\ Blame("forced", nodes[n].status = "STARTED")
  /\ UNCHANGED <<stopVars, topology>>

\* start_node: nothing happens when the node is started already, unless it is forced.
StartNode(n, force, skip) ==
  /\ Called /\ n \in Default
  /\ nodes[n].status = "STARTED" => force
  /\ Launch({n}, nodes)
  /\ IF skip
     THEN UNCHANGED <<at, startVars>> /\ Blame("unchecked", TRUE)
     ELSE WaitFor(Cardinality(AliveIn(nodes')) + 1, {n}, {})
          /\ Blame("forced", nodes[n].status = "STARTED")
  /\ UNCHANGED <<stopVars, topology>>

\* start_nodes(*S): only the nodes that are new or killed; force makes all of S such nodes.
StartNodes(S, force) ==
  LET table   == [n \in Ids |-> IF force /\ n \in S
                                THEN [nodes[n] EXCEPT !.status = "KILLED"] ELSE nodes[n]]
      toStart == {n \in S : table[n].status \in {"NEW", "KILLED", "KILLING"}}
  IN  /\ Called /\ S \subseteq Present
      /\ toStart # {}
      /\ Launch(toStart, table)
      /\ WaitFor(Cardinality(AliveIn(table)) + Cardinality(toStart), toStart, {})
      /\ Blame("forced", force /\ HasProcess(S))
      /\ UNCHANGED <<stopVars, topology>>

\* start_nodes(): asserts that no node is started, launches the coordinator and, when it
\* is up, the other default nodes.
StartGrid ==
  /\ Called
  /\ AliveNodes = {}
  /\ Launch({Coordinator}, nodes)
  /\ WaitFor(1, {Coordinator}, Default \ {Coordinator})
  /\ UNCHANGED <<stopVars, topology, mishaps>>

LaunchRest ==
  /\ at = "launch"
  /\ Launch(rest, nodes)
  /\ WaitFor(1 + Cardinality(rest), started \cup rest, {})
  /\ UNCHANGED <<calls, stopVars, topology, mishaps>>

\* start_additional_nodes: the nodes of S that are not started.
StartAdditional(S) ==
  LET toStart == {n \in S : nodes[n].status # "STARTED"}
  IN  /\ Called /\ S \subseteq Present \cap Additional /\ S # {}
      /\ Launch(toStart, nodes)
      /\ WaitFor(Cardinality(AliveIn(nodes')) + Cardinality(toStart), toStart, {})
      /\ UNCHANGED <<stopVars, topology, mishaps>>

-----------------------------------------------------------------------------
\* last_topology_snapshot: the nodes whose logs are read, and those with a snapshot.
Watched == {n \in Ids : nodes[n].status \in {"STARTED", "STARTING"} /\ nodes[n].log # NoProc}
SeenBy(n) == procs[nodes[n].log].seen
Answering == {n \in Watched : SeenBy(n).ver > 0}

\* check_fatal_errors_in_logs.
FatalError == \E n \in Watched : nodes[n].status = "STARTING" /\ procs[nodes[n].log].fatal

\* The wait is over as soon as one snapshot has the right number of servers.
WaitFoundInOne ==
  /\ at = "wait"
  /\ ~FatalError
  /\ \E n \in Answering : SeenBy(n).servers = expect
  /\ at' = IF rest = {} THEN "record" ELSE "launch"
  /\ UNCHANGED <<nodes, calls, startVars, stopVars, procs, topology, mishaps>>

\* wait_for_topology_snapshot: at least as many snapshots as servers, all of one version,
\* and that one of as many servers as expected.
WaitFound ==
  /\ at = "wait"
  /\ ~FatalError
  /\ Answering # {}
  /\ Cardinality(Answering) >= expect
  /\ \A n, m \in Answering : SeenBy(n).ver = SeenBy(m).ver
  /\ \E n \in Answering : SeenBy(n).servers = expect
  /\ at' = IF rest = {} THEN "record" ELSE "launch"
  /\ UNCHANGED <<nodes, calls, startVars, stopVars, procs, topology, mishaps>>

\* The wait times out, a log has a fatal error, or the SSH pool raises: the call raises and
\* its nodes stay STARTING.
StartFails ==
  /\ at \in {"wait", "launch", "record"}
  /\ Return
  /\ Blame("failed", TRUE)
  /\ UNCHANGED <<nodes, procs, topology>>

\* grep_log: the PID in the log of each started or starting node; None when the process has
\* not written it yet, and it has when it has joined the topology.  A node without a log is a
\* KeyError.
Grep(S) ==
  /\ \A n \in Ids : nodes[n].status \in {"STARTED", "STARTING"} => nodes[n].log # NoProc
  /\ \E silent \in SUBSET {p \in Proc : procs[p].seen = NoSnapshot} :
       nodes' = [n \in Ids |->
         IF nodes[n].status \notin {"STARTED", "STARTING"} THEN nodes[n]
         ELSE [nodes[n] EXCEPT
                !.pid    = IF nodes[n].log \in silent THEN NoProc ELSE nodes[n].log,
                !.status = IF n \in S THEN "STARTED" ELSE @]]

\* update_starting_node_attrs, then update_nodes_status or update_started_node_status.
Record ==
  /\ at = "record"
  /\ Grep(started)
  /\ Return
  /\ UNCHANGED <<procs, topology, mishaps>>

\* update_started_node_status by the test code, after a start without a topology check.
UpdateStartedNodeStatus(n) ==
  /\ Called
  /\ nodes[n].status = "STARTING"
  /\ Grep({n})
  /\ UNCHANGED <<at, startVars, stopVars, procs, topology, mishaps>>

-----------------------------------------------------------------------------
\* A signal to the processes of P; one that is dead already does not get it.
Signal(P, s) ==
  procs' = [p \in Proc |-> IF p \in P /\ Free(p) THEN [procs[p] EXCEPT !.signal = s]
                           ELSE procs[p]]

PidsOf(S) == {nodes[n].pid : n \in S} \ {NoProc}

\* The SSH pool raises when one host fails: the commands of the others may be executed.
Reached(P, lost) == IF lost THEN SUBSET P ELSE {P}

\* kill_node: with lost, the SSH pool raises, and the kill may not have been executed; the
\* exception is the caller's unless ignore_exceptions is set.
KillNode(n, lost, ignore) ==
  /\ Called /\ n \in Present
  /\ \/ /\ nodes[n].pid = NoProc /\ ~lost
        /\ nodes' = [nodes EXCEPT ![n].status = "KILLED"]
        /\ UNCHANGED procs
     \/ /\ nodes[n].pid # NoProc
        /\ nodes' = [nodes EXCEPT ![n] = IF lost /\ ~ignore THEN [@ EXCEPT !.status = "KILLING"]
                                         ELSE Deleted(@)]
        /\ \E P \in Reached({nodes[n].pid}, lost) : Signal(P, "KILL")
  /\ Blame("remote", lost)
  /\ UNCHANGED <<at, startVars, stopVars, topology>>

\* App.kill_nodes: the nodes keep the PID.
KillNodes(S, lost) ==
  /\ Called /\ S \subseteq Present
  /\ lost => PidsOf(S) # {}
  /\ nodes' = [n \in Ids |->
                 IF n \notin S THEN nodes[n]
                 ELSE [nodes[n] EXCEPT !.status = IF nodes[n].pid # NoProc THEN "KILLING"
                                                  ELSE "KILLED"]]
  /\ \E P \in Reached(PidsOf(S), lost) : Signal(P, "KILL")
  /\ Blame("remote", lost)
  /\ UNCHANGED <<at, startVars, stopVars, topology>>

\* stop_nodes: signals the nodes that have a PID, then waits for them.
StopNodes(S, signal, lost) ==
  /\ Called /\ S \subseteq Present /\ S # {}
  /\ nodes' = [n \in Ids |-> IF n \in S /\ nodes[n].pid # NoProc
                             THEN [nodes[n] EXCEPT !.status = "KILLING"] ELSE nodes[n]]
  /\ \/ /\ ~lost
        /\ Signal(PidsOf(S), signal)
        /\ at'      = "poll"
        /\ victims' = S
        /\ pids'    = PidsOf(S)
        /\ owed'    = {p \in Proc : Free(p) /\ procs[p].owner \in S}
     \/ /\ lost
        /\ \E P \in Reached(PidsOf(S), lost) : Signal(P, signal)
        /\ UNCHANGED <<at, stopVars>>
  /\ Blame("remote", lost)
  /\ UNCHANGED <<startVars, topology>>

\* The PIDs are read from the table again.
PollTable ==
  /\ at = "poll"
  /\ nodes' = [n \in Ids |-> IF n \in victims /\ nodes[n].pid # NoProc
                             THEN Deleted(nodes[n]) ELSE nodes[n]]
  /\ \/ /\ \E p \in PidsOf(victims) : Running(p)
        /\ UNCHANGED <<calls, at, startVars, stopVars, mishaps>>
     \/ Return /\ Blame("late", \E p \in PidsOf(victims) : Running(p))
  /\ UNCHANGED <<procs, topology>>

\* One round of the wait of stop_nodes.  Each PID is looked up in running_pids, a list of
\* dictionaries, and never found there: a node is recorded as killed in the first round,
\* whether or not its process runs.
Poll ==
  /\ at = "poll"
  /\ nodes' = [n \in Ids |-> IF n \in victims /\ nodes[n].pid # NoProc
                             THEN Deleted(nodes[n]) ELSE nodes[n]]
  /\ \/ /\ \E p \in pids : Running(p)
        /\ UNCHANGED <<calls, at, startVars, stopVars, mishaps>>
     \/ Return /\ Blame("late", \E p \in pids : Running(p))
  /\ UNCHANGED <<procs, topology>>

\* The SSH pool raises in a jps.
PollRaises ==
  /\ at = "poll"
  /\ Return
  /\ Blame("remote", TRUE)
  /\ UNCHANGED <<nodes, procs, topology>>

\* check_node_status, when jps does not show the PID: the node is killed.
CheckNodeStatus(n) ==
  /\ Called /\ n \in Present
  /\ ~Running(nodes[n].pid)
  /\ nodes' = [nodes EXCEPT ![n] = Deleted(@)]
  /\ UNCHANGED <<at, startVars, stopVars, procs, topology, mishaps>>

-----------------------------------------------------------------------------
\* add_additional_nodes: count ids from the first one that is not in the table.
AddAdditional(count) ==
  LET free == {a \in Additional : nodes[a].status = "GONE"}
      new  == {a \in Additional : \E f \in free : /\ \A g \in free : f <= g
                                                  /\ a \in f .. f + count - 1}
  IN  /\ Called
      /\ Cardinality(new) = count
      /\ nodes' = [n \in Ids |-> IF n \in new THEN Node("NEW") ELSE nodes[n]]
      /\ Blame("overwritten", \E n \in new : nodes[n].status # "GONE")
      /\ UNCHANGED <<at, startVars, stopVars, procs, topology>>

\* remove_additional_nodes: only those that are killed.
RemoveRunning ==
  /\ Called
  /\ nodes' = [n \in Ids |-> IF n \in Additional THEN Node("GONE") ELSE nodes[n]]
  /\ UNCHANGED <<at, startVars, stopVars, procs, topology, mishaps>>

RemoveAdditional ==
  /\ Called
  /\ nodes' = [n \in Ids |-> IF n \in Additional /\ nodes[n].status = "KILLED"
                             THEN Node("GONE") ELSE nodes[n]]
  /\ UNCHANGED <<at, startVars, stopVars, procs, topology, mishaps>>

\* reset: the logs are forgotten, and with hard the PIDs too.
Reset(hard) ==
  /\ Called
  /\ nodes' = [n \in Ids |-> CASE n \notin Present -> nodes[n]
                               [] n \in Present /\ hard -> [Deleted(nodes[n]) EXCEPT !.log = NoProc]
                               [] OTHER -> [nodes[n] EXCEPT !.log = NoProc]]
  /\ Blame("forced", hard /\ HasProcess(Ids))
  /\ UNCHANGED <<at, startVars, stopVars, procs, topology>>

-----------------------------------------------------------------------------
\* External: the processes.  A process joins the topology of those that run, and makes a
\* new one when none does; it writes its PID and its first snapshot before.
Join(p) ==
  LET alone == \A q \in topology.members : ~Running(q)
      now   == [ver |-> IF alone THEN 1 ELSE topology.ver + 1,
                members |-> {p} \cup (IF alone THEN {} ELSE topology.members)]
  IN  /\ procs[p].state = "booting"
      /\ topology' = now
      /\ procs' = [procs EXCEPT ![p].state = "joined",
                                ![p].seen  = [ver |-> now.ver, servers |-> Cardinality(now.members)]]
      /\ UNCHANGED <<nodes, calls, at, startVars, stopVars, mishaps>>

\* A process logs the snapshot of a topology that has changed.
Hear(p) ==
  /\ procs[p].state = "joined"
  /\ p \in topology.members /\ procs[p].seen.ver # topology.ver
  /\ procs' = [procs EXCEPT ![p].seen = [ver     |-> topology.ver,
                                         servers |-> Cardinality(topology.members)]]
  /\ UNCHANGED <<nodes, calls, at, startVars, stopVars, topology, mishaps>>

\* A process ends: it was signalled, or it crashed; one that boots may log a fatal error.
Exit(p, fatal) ==
  /\ Running(p)
  /\ fatal => procs[p].state = "booting"
  /\ procs' = [procs EXCEPT ![p].state = "dead", ![p].fatal = fatal, ![p].signal = "none"]
  /\ UNCHANGED <<nodes, calls, at, startVars, stopVars, topology, mishaps>>

\* The others find out that a process has left.
Leave(p) ==
  /\ p \in topology.members /\ ~Running(p)
  /\ \E q \in topology.members : Running(q)
  /\ topology' = [ver |-> topology.ver + 1, members |-> topology.members \ {p}]
  /\ UNCHANGED <<nodes, calls, at, startVars, stopVars, procs, mishaps>>

-----------------------------------------------------------------------------
\* The test code calls the application.
Calls ==
  \/ \E n \in Ids, force, skip \in BOOLEAN : StartNode(n, force, skip)
  \/ \E S \in SUBSET Ids, force \in BOOLEAN : StartNodes(S, force)
  \/ StartGrid
  \/ \E S \in SUBSET Additional : StartAdditional(S)
  \/ \E n \in Ids : UpdateStartedNodeStatus(n)
  \/ \E n \in Ids, lost, ignore \in BOOLEAN : KillNode(n, lost, ignore)
  \/ \E S \in SUBSET Ids, lost \in BOOLEAN : KillNodes(S, lost)
  \/ \E S \in SUBSET Ids, signal \in {"TERM", "KILL"}, lost \in BOOLEAN :
       StopNodes(S, signal, lost)
  \/ \E n \in Ids : CheckNodeStatus(n)
  \/ \E count \in 1 .. Cardinality(Additional) : AddAdditional(count)
  \/ RemoveAdditional
  \/ \E hard \in BOOLEAN : Reset(hard)

\* The call goes on.
CallStep == LaunchRest \/ WaitFound \/ StartFails \/ Record \/ Poll \/ PollRaises

\* The bound of the calls is a bound of the run: nothing is looked at after the last one.
Over == at = "idle" /\ calls = MaxCalls

Processes ==
  /\ ~Over
  /\ \E p \in Proc :
       \/ Join(p)
       \/ Hear(p)
       \/ \E fatal \in BOOLEAN : Exit(p, fatal)
       \/ Leave(p)

Stopped == Over /\ UNCHANGED vars

Next == Calls \/ CallStep \/ Processes \/ Stopped

Spec == Init /\ [][Next]_vars

-----------------------------------------------------------------------------
\* A node is recorded as started only with the PID of the process of its latest start,
\* whatever the other nodes, late deaths, crashes and late snapshots made the topology look
\* like in the meantime; unless a start failed before or skipped the check
\* (wait_for_topology_snapshot, update_started_node_status).
StartedIsItsOwn ==
  mishaps \cap {"failed", "unchecked"} = {} =>
    \A n \in AliveNodes :
      /\ nodes[n].pid # NoProc
      /\ procs[nodes[n].pid].owner = n
      /\ nodes[n].log \in {nodes[n].pid, NoProc}

\* Between two calls every process that runs, and that no SIGKILL is on its way to, can be
\* killed by its node's PID, so a node never has two; unless one of the mishaps made the
\* table forget it.
NoOrphan ==
  at = "idle" /\ mishaps = {} =>
    \A p \in Proc : Free(p) => nodes[procs[p].owner].pid = p

\* When stop_nodes returns 0, every process of the nodes it was asked to stop has ended.
StopReturnsTruth ==
  [][at = "poll" /\ at' = "idle" /\ mishaps' = {} => \A p \in owed : ~Running(p)]_vars

\* ignite.py:515: assert len(get_alive_default_nodes() + get_alive_additional_nodes()) == 0,
\* "Ignite.start_nodes() supposes grid is not started".  The assertion holds for a grid that
\* stop_nodes could not stop.
GridIsNotStarted ==
  at = "idle" /\ AliveNodes = {} /\ mishaps \subseteq {"late"} => ~HasProcess(Ids)

\* ignite.py:692 of add_additional_nodes: ":return: range of newly added additional nodes".
\* The range may hold a node that is running.
AddedNodesAreNew ==
  at = "idle" /\ mishaps \subseteq {"overwritten"} =>
    \A n \in Additional : nodes[n].status = "NEW" => ~HasProcess({n})
=============================================================================
