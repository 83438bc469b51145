--------------------------- MODULE ControlUtility ---------------------------
(***************************************************************************)
(* ControlUtility of src/tiden/utilities/control_utility.py: control.sh    *)
(* sent to a cluster of Ignite nodes.  The baseline commands go from one   *)
(* client host to one server; the activation goes to every node of the     *)
(* table and is judged by the logs of the nodes.                           *)
(*                                                                         *)
(* The cluster is external: it changes its state at a command and writes   *)
(* the lines that tell so into the logs of its nodes later; nodes join it, *)
(* are killed by the test or crash, which the table does not notice        *)
(* (IgniteNodes has the table in full).                                    *)
(***************************************************************************)
EXTENDS Integers, Sequences, FiniteSets, SequencesExt, Events

CONSTANTS
  Servers,     \* the server nodes in the order of the table
  HostOf,      \* the host of each
  Clients,     \* environment.client_hosts
  MaxPolls     \* activation_timeout, in rounds of 5 seconds

ASSUME ControlAssumption ==
  /\ Servers \in Seq(Range(Servers)) \ {<< >>} /\ IsInjective(Servers)
  /\ DOMAIN HostOf = Range(Servers)
  /\ Clients \in Seq(Range(Clients)) \ {<< >>} /\ MaxPolls \in Nat \ {0}

NodeSet  == Range(Servers)
AllHosts == Range(HostOf) \cup Range(Clients)
Idle     == [op |-> "none", pc |-> "idle", asked |-> {}, old |-> {}, took |-> FALSE, count |-> 0]

VARIABLES
  started,     \* the nodes whose status is STARTED
  port,        \* the nodes whose entry has binary_rest_port
  up,          \* cluster: the nodes that are in it
  topology,    \* cluster: the server nodes of every topology version so far
  active,      \* cluster: is it active?
  baseline,    \* cluster: the nodes of its baseline
  log,         \* the lines about activation (TRUE) and deactivation in the log of each node
  due,         \* <<node, line>>: lines that will be written
  clientIndex, \* Ignite.client_host_index
  logs,        \* test_dir of each host: the numbers i of control.<grid>.baseline.<i>.log
  ran,         \* the commands each client host has run
  apart,       \* has a command had its client and its server at two hosts?
  cu           \* the method that goes on, or how the last one ended

clusterVars == <<up, topology, active, baseline, log, due>>
tableVars   == <<started, port>>
clientVars  == <<clientIndex, logs, ran, apart>>
controlVars == <<clusterVars, tableVars, clientVars, cu>>

-----------------------------------------------------------------------------
ControlTypeOK ==
  /\ started \subseteq NodeSet /\ port \subseteq NodeSet /\ up \subseteq NodeSet
  /\ topology \in Seq(SUBSET NodeSet)
  /\ active \in BOOLEAN /\ baseline \subseteq NodeSet
  /\ log \in [NodeSet -> SUBSET BOOLEAN] /\ due \subseteq NodeSet \X BOOLEAN
  /\ clientIndex \in 0 .. Len(Clients)
  /\ logs \in [AllHosts -> SUBSET (1 .. 2 * MaxEvents)]
  /\ ran \in [AllHosts -> 0 .. 2 * MaxEvents] /\ apart \in BOOLEAN
  /\ cu \in [op : {"none", "activate", "deactivate", "rebase"}, pc : {"idle", "poll", "set", "done", "raised"},
             asked : SUBSET NodeSet, old : SUBSET NodeSet, took : BOOLEAN,
             count : Nat]
  /\ cu.count <= IF cu.op = "rebase" THEN Len(topology) ELSE MaxPolls

ControlInit ==
  /\ started = {} /\ port = {} /\ up = {} /\ topology = << >>
  /\ active = FALSE /\ baseline = {}
  /\ log = [n \in NodeSet |-> {}] /\ due = {}
  /\ clientIndex = 0
  /\ logs = [h \in AllHosts |-> {}] /\ ran = [h \in AllHosts |-> 0] /\ apart = FALSE
  /\ cu = Idle

CuFree == cu.pc \notin {"poll", "set"}

-----------------------------------------------------------------------------
\* A node is started: with a new log, and found there or not found its port.
StartServer(n) ==
  /\ CuFree /\ n \notin up /\ Happens
  /\ up' = up \cup {n} /\ topology' = Append(topology, up')
  /\ started' = started \cup {n} /\ port' \in {port \cup {n}, port \ {n}}
  /\ log' = [log EXCEPT ![n] = {}]
  /\ UNCHANGED <<active, baseline, due, clientVars, cu>>

Gone(n) ==
  /\ up' = up \ {n} /\ topology' = Append(topology, up')
  /\ due' = {d \in due : d[1] # n}
  /\ active' = (active /\ up' # {})
  /\ UNCHANGED <<baseline, log>>

\* kill_node: the table forgets the start.
KillServer(n) ==
  /\ CuFree /\ n \in started /\ n \in up /\ Happens
  /\ Gone(n)
  /\ started' = started \ {n} /\ port' = port \ {n}
  /\ UNCHANGED <<clientVars, cu>>

\* External: a node ends by itself.
CrashServer(n) ==
  /\ n \in up /\ Happens
  /\ Gone(n)
  /\ UNCHANGED <<tableVars, clientVars, cu>>

\* External: a node logs that it is activated, or deactivated.
WriteLine(n, line) ==
  /\ <<n, line>> \in due
  /\ log' = [log EXCEPT ![n] = @ \cup {line}]
  /\ due' = due \ {<<n, line>>}
  /\ UNCHANGED <<up, topology, active, baseline, tableVars, clientVars, cu, events>>

-----------------------------------------------------------------------------
\* __activate: control.sh for each started node with a port, or for a particular one; `refused`
\* if the cluster does not do it.  "old" are the nodes whose log has such a line from before,
\* or gets it.
Activate(on, nodes, refused) ==
  LET asked == nodes \cap port
      took  == ~refused /\ asked \cap up # {} /\ active # on
  IN
  /\ CuFree /\ started # {} /\ Happen(1 + AsNumber(refused))
  /\ active' = IF took THEN on ELSE active
  /\ baseline' = IF took /\ on /\ baseline = {} THEN up ELSE baseline
  /\ due' = IF took THEN due \cup up \X {on} ELSE due
  /\ cu' = [op |-> IF on THEN "activate" ELSE "deactivate", pc |-> "poll", asked |-> asked,
            old |-> {n \in asked : on \in log[n] \/ <<n, on>> \in due}, took |-> took, count |-> 0]
  /\ UNCHANGED <<up, topology, log, tableVars, clientVars>>

\* The count of the lines found is taken for complete when one node has them.
CompleteWithOne(on, got) == IF on THEN got # {} ELSE got = {}

\* When the loop ends before its timeout: for a deactivation when no node has logged one.
Complete(on, got) == IF on THEN Cardinality(got) = Cardinality(cu.asked) ELSE got = {}

\* Is this the last round?
Expires == cu.count + 1 = MaxPolls

\* One round of the loop: the logs of all nodes asked; the outputs of those in R are missing.
Poll ==
  LET on == cu.op = "activate" IN
  /\ cu.pc = "poll"
  /\ \E R \in SUBSET cu.asked :
       LET got  == {n \in cu.asked \ R : on \in log[n]}
           last == Complete(on, got) \/ Expires
       IN  /\ Happen(Cardinality(R))
           /\ cu' = [cu EXCEPT !.count = @ + 1,
                               !.pc = IF ~last THEN "poll"
                                      ELSE IF Complete(on, got) THEN "done" ELSE "raised"]
  /\ UNCHANGED <<clusterVars, tableVars, clientVars>>

-----------------------------------------------------------------------------
\* get_and_inc_client_host.
NextClient == IF clientIndex >= Len(Clients) THEN 1 ELSE clientIndex + 1

\* The servers control_utility may choose from, and the choice.
Candidates(opt) ==
  LET h == Clients[NextClient] IN
  CASE opt = "use_same_host"    -> {n \in started : HostOf[n] = h}
    [] opt = "use_another_host" -> {n \in started : HostOf[n] # h}
    [] OTHER                    -> started
ServerOf(opt) == SelectSeq(Servers, LAMBDA n : n \in Candidates(opt) \cap port)

\* Every command writes the log of the first.
FirstName(h) == 1

\* The number of the log: the first one that `ls` at the host of the server does not show.
LogNumber(h) == CHOOSE i \in 1 .. 2 * MaxEvents : i \notin logs[h] /\ \A j \in 1 .. i - 1 : j \in logs[h]

\* control_utility: it raises without a server; else it writes a log at the client host.
Sent(opt) ==
  LET client == Clients[NextClient]
      host   == HostOf[ServerOf(opt)[1]]
  IN
  /\ clientIndex' = NextClient
  /\ IF ServerOf(opt) = << >> THEN UNCHANGED <<logs, ran, apart>>
     ELSE /\ logs'  = [logs EXCEPT ![client] = @ \cup {LogNumber(host)}]
          /\ ran'   = [ran EXCEPT ![client] = @ + 1]
          /\ apart' = (apart \/ client # host)

Answers(opt) == ServerOf(opt) # << >> /\ ServerOf(opt)[1] \in up

\* A baseline command of its own: print, add, remove, set, auto_adjust.
BaselineCommand(opt, nodes) ==
  /\ CuFree /\ Happens
  /\ Sent(opt)
  /\ baseline' = IF Answers(opt) /\ active THEN nodes ELSE baseline
  /\ cu' = [Idle EXCEPT !.pc = IF ServerOf(opt) = << >> THEN "raised" ELSE "done"]
  /\ UNCHANGED <<up, topology, active, log, due, tableVars>>

\* set_current_topology_as_baseline(strict=True): the version is read by a first command...
ReadTopology ==
  /\ CuFree /\ Happens
  /\ Sent("")
  /\ cu' = [Idle EXCEPT !.op = "rebase", !.pc = IF Answers("") THEN "set" ELSE "raised",
                        !.count = IF Answers("") THEN Len(topology) ELSE 0]
  /\ UNCHANGED <<clusterVars, tableVars>>

\* ... and set by a second one, in whose output 'Error:' is looked for.
SetBaseline ==
  /\ cu.pc = "set"
  /\ Sent("")
  /\ \E ok \in BOOLEAN :
       /\ ok => Answers("") /\ active
       /\ Happen(AsNumber(~ok /\ Answers("") /\ active))
       /\ baseline' = IF ok THEN topology[cu.count] ELSE baseline
       /\ cu' = [cu EXCEPT !.pc = IF ok THEN "done" ELSE "raised"]
  /\ UNCHANGED <<up, topology, active, log, due, tableVars>>

-----------------------------------------------------------------------------
\* An activation that returns without an exception has activated the cluster, if the log of
\* one of the nodes it asked had no line of an earlier activation: whatever crashes, is
\* refused or comes late.  (Without that condition it does not hold: the logs are cumulative.)
ActivatedIsActive ==
  cu.op = "activate" /\ cu.pc = "done" /\ cu.asked \ cu.old # {} => cu.took

\* No log of a command is overwritten by a later one, as long as every command had its client
\* and its server at one host: the number is looked up at the server, the log is written at
\* the client.
LogsKept == ~apart => \A h \in AllHosts : Cardinality(logs[h]) = ran[h]

\* "Deactivation failed" is raised only if the cluster was not deactivated.
DeactivationFailedIsTrue == cu.op = "deactivate" /\ cu.pc = "raised" => ~cu.took
=============================================================================
