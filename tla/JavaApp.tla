------------------------------ MODULE JavaApp ------------------------------
(***************************************************************************)
(* JavaApp of src/tiden/apps/javaapp.py: the nodes of a Java application,  *)
(* started by `java ... & echo $!` through the SSH pool, and killed by the *)
(* kill_nodes and stop_nodes it has from App.                              *)
(*                                                                         *)
(* start_nodes sends the commands of all nodes of a host in one list and   *)
(* finds the PID of a node by the position of its last command.  The pool  *)
(* leaves out the output of a command that an SSHException refused, so the *)
(* outputs may be shorter than the commands: what they then say of which   *)
(* node is what this module is about.                                      *)
(***************************************************************************)
EXTENDS Integers, Sequences, FiniteSets, SequencesExt, Events

CONSTANTS
  JavaHosts,     \* the hosts of the application, in the order of the configuration
  PerHost,       \* clients_per_host
  NumNodes,      \* num_nodes, 0 if it is not given
  MaxJava        \* bound: the processes launched

ASSUME JavaAssumption ==
  /\ JavaHosts \in Seq(Range(JavaHosts)) \ {<< >>} /\ IsInjective(JavaHosts)
  /\ PerHost \in Nat \ {0} /\ {NumNodes, MaxJava} \subseteq Nat

VARIABLES
  java,      \* the table: host, status, PID and run counter of the nodes 0, 1, ...
  procs,     \* the processes launched so far: of which node, with which log, and if they run
  launchOf,  \* the process that the last start of each node launched
  javaCall,  \* the last call: how far it is, or how it ended, and the nodes it starts
  abandoned  \* the nodes a start raised for, or that were started again while they ran

javaVars == <<java, procs, launchOf, javaCall, abandoned>>

-----------------------------------------------------------------------------
NoPid == 0
Procs == 1 .. Len(procs)
JNodes == 1 .. Len(java)      \* node i of the table is node_idx i - 1

JNode(h) == [host |-> h, status |-> "NEW", pid |-> NoPid, counter |-> 0]

JavaEnd(how, ids) == [how |-> how, ids |-> ids]

JavaTypeOK ==
  /\ \A i \in JNodes :
       /\ java[i].host \in Range(JavaHosts)
       /\ java[i].status \in {"NEW", "STARTING", "STARTED", "KILLING", "KILLED"}
       /\ java[i].pid \in {NoPid} \cup Procs
       /\ java[i].counter \in Nat
  /\ \A p \in Procs : procs[p] \in [node : JNodes, log : Nat, alive : BOOLEAN]
  /\ DOMAIN launchOf = JNodes /\ \A i \in JNodes : launchOf[i] \in {NoPid} \cup Procs
  /\ javaCall \in [how : {"none", "all", "one", "started", "raised", "other"}, ids : Seq(JNodes)]
  /\ abandoned \subseteq JNodes

JavaInit ==
  /\ java     = << >>
  /\ procs    = << >>
  /\ launchOf = << >>
  /\ javaCall = JavaEnd("none", << >>)
  /\ abandoned = {}

-----------------------------------------------------------------------------
\* add_nodes: PerHost nodes for each host, as far as num_nodes allows.
Added ==
  LET wanted == PerHost * Len(JavaHosts)
      room   == IF NumNodes = 0 THEN wanted ELSE NumNodes - Len(java)
  IN  [k \in 1 .. (IF room < wanted THEN room ELSE wanted) |->
         JNode(JavaHosts[1 + (k - 1) \div PerHost])]

\* A table made anew by every setup.
SetupAnew ==
  /\ java'     = Added
  /\ launchOf' = [i \in 1 .. Len(Added) |-> NoPid]
  /\ abandoned' = {}
  /\ UNCHANGED <<procs, javaCall>>

\* setup(): the nodes are added to those of an earlier setup.
JavaSetup ==
  /\ java'     = java \o Added
  /\ launchOf' = launchOf \o [i \in 1 .. Len(Added) |-> NoPid]
  /\ UNCHANGED <<procs, javaCall, abandoned>>

\* The commands of a node: the directory, and the process.
Commands(i) == << <<"mkdir", i>>, <<"java", i>> >>

\* The commands of host h for the first k of the nodes, for each k.
Sent(ids, h) ==
  LET upTo[k \in 0 .. Len(ids)] ==
        IF k = 0 THEN << >>
        ELSE upTo[k - 1] \o (IF java[ids[k]].host = h THEN Commands(ids[k]) ELSE << >>)
  IN  upTo

\* The sequence s without the members of R.  (SelectSeq, as a function one can reason about.)
Without(s, R) ==
  LET upTo[k \in 0 .. Len(s)] ==
        IF k = 0 THEN << >>
        ELSE upTo[k - 1] \o (IF s[k] \in R THEN << >> ELSE <<s[k]>>)
  IN  upTo[Len(s)]

\* The outputs of a host, for the commands in order; those in R are refused, and not there.
Outputs(ids, h, R) == Without(Sent(ids, h)[Len(ids)], R)

\* The number of the last command of node i in the list of its host, as far as it is made then.
Place(ids, i)    == CHOOSE k \in DOMAIN ids : ids[k] = i
Position(ids, i) == Len(Sent(ids, java[i].host)[Place(ids, i)])

\* The last output for a node that has none of its own.
AnsweredLast(ids, R, i) == LET o == Outputs(ids, java[i].host, R)
                               k == Position(ids, i)
                           IN  IF o = << >> THEN {} ELSE {o[IF k \in DOMAIN o THEN k ELSE Len(o)]}

\* The output found for node i, if there is one: of `java` of some node, with its PID, or of
\* `mkdir`, which is no number.
Answered(ids, R, i) == LET o == Outputs(ids, java[i].host, R)
                           k == Position(ids, i)
                       IN  IF k \in DOMAIN o THEN {o[k]} ELSE {}

\* rotate_node_log: every start of a node has a log of its own.
RotateLog(node) == [node EXCEPT !.counter = @ + 1]

\* The processes of the nodes ids whose command was executed, and the table up to the node
\* whose PID was not found: start_nodes and start_node raise there.  When exec itself raises,
\* by a timeout, nothing is known of any of them.
Start(how, ids, R, raises) ==
  LET ran      == Without(ids, {i \in JNodes : <<"java", i>> \in R})
      pidOf(i) == Len(procs) + Place(ran, i)
      rotated  == [i \in JNodes |-> IF i \in Range(ids) THEN RotateLog(java[i]) ELSE java[i]]
      found(i) == ~raises /\ \E c \in Answered(ids, R, i) : c[1] = "java"
      good     == {k \in DOMAIN ids : \A l \in 1 .. k : found(ids[l])}
      pid(i)   == pidOf((CHOOSE c \in Answered(ids, R, i) : TRUE)[2])
      ok       == good = DOMAIN ids
      again    == {i \in Range(ids) : \E p \in Procs : procs[p].alive /\ procs[p].node = i}
  IN  /\ Len(procs) + Len(ids) <= MaxJava
      /\ procs' = procs \o [k \in DOMAIN ran |-> [node  |-> ran[k],
                                                  log   |-> rotated[ran[k]].counter,
                                                  alive |-> TRUE]]
      /\ launchOf' = [i \in JNodes |-> IF i \in Range(ran) THEN pidOf(i) ELSE launchOf[i]]
      /\ java' = [i \in JNodes |->
           IF i \notin Range(ids) THEN java[i]
           ELSE [rotated[i] EXCEPT !.status = "STARTING",
                                   !.pid = IF \E k \in good : ids[k] = i THEN pid(i) ELSE @]]
      /\ javaCall' = JavaEnd(IF ok THEN how ELSE "raised", ids)
      /\ abandoned' = abandoned \cup again \cup (IF ok THEN {} ELSE Range(ids))

JavaIdle == javaCall.how \notin {"all", "one"}
InTable  == [i \in JNodes |-> i]

\* What the pool may do to the commands: refuse some, and raise in the end.
Started(how, ids) ==
  \E R \in SUBSET ({"mkdir", "java"} \X Range(ids)), raises \in BOOLEAN :
    /\ Happen(1 + Cardinality(R) + AsNumber(raises))
    /\ Start(how, ids, R, raises)

\* start_nodes starts all nodes, those that run included; start_node one.
StartNodes       == JavaIdle /\ java # << >> /\ Started("all", InTable)
StartJavaNode(i) == JavaIdle /\ Started("one", <<i>>)

\* The check, one `ps` for each node, by position again; the outputs of the nodes in R are
\* missing.  start_nodes raises only for an output that is not there, start_node also for an
\* empty one.
Check(R) ==
  LET ids      == javaCall.ids
      of(h)    == Without(ids, {i \in JNodes : java[i].host # h})
      outs(h)  == Without(of(h), R)
      at(i)    == Place(of(java[i].host), i)
      there(i) == at(i) \in DOMAIN outs(java[i].host)
      runs(i)  == procs[java[outs(java[i].host)[at(i)]].pid].alive
      good     == {k \in DOMAIN ids : \A l \in 1 .. k : there(ids[l])}
      ok       == good = DOMAIN ids /\ (javaCall.how = "one" => runs(ids[1]))
  IN  /\ java' = [i \in JNodes |->
           IF (\E k \in good : ids[k] = i) /\ runs(i)
           THEN [java[i] EXCEPT !.status = "STARTED"] ELSE java[i]]
      /\ javaCall' = JavaEnd(IF ok THEN "started" ELSE "raised", ids)
      /\ abandoned' = IF ok THEN abandoned ELSE abandoned \cup Range(ids)

CheckStarted ==
  /\ ~JavaIdle
  /\ \E R \in SUBSET Range(javaCall.ids) : Happen(Cardinality(R)) /\ Check(R)
  /\ UNCHANGED <<procs, launchOf>>

\* kill_nodes and stop_nodes of App, for all nodes or some: SIGKILL ends the process of the
\* PID in the table, SIGTERM may.  A node without PID is taken for killed.
JavaKill(ids, sigkill) ==
  LET targets == {java[i].pid : i \in ids} \ {NoPid} IN
  /\ JavaIdle /\ java # << >> /\ Happens
  /\ \E D \in (IF sigkill THEN {targets} ELSE SUBSET targets) :
       procs' = [p \in Procs |-> [procs[p] EXCEPT !.alive = @ /\ p \notin D]]
  /\ java' = [i \in JNodes |->
                IF i \in ids
                THEN [java[i] EXCEPT !.status = IF java[i].pid = NoPid THEN "KILLED" ELSE "KILLING"]
                ELSE java[i]]
  /\ javaCall' = JavaEnd("other", << >>)
  /\ UNCHANGED <<launchOf, abandoned>>

\* External: a process ends.
JavaDies(p) ==
  /\ procs[p].alive /\ Happens
  /\ procs' = [procs EXCEPT ![p].alive = FALSE]
  /\ UNCHANGED <<java, launchOf, javaCall, abandoned>>

-----------------------------------------------------------------------------
\* When start_nodes or start_node has returned, however many commands the pool refused, each
\* node it started has the PID of its own process: an output that is missing moves the later
\* ones up, and then the last node of the host has none, so that the call has raised.
PidsAreOwn ==
  javaCall.how = "started" => \A i \in Range(javaCall.ids) : java[i].pid = launchOf[i]

\* A process that runs and that no row of the table names, which nothing can kill any more, is
\* of a node that a start raised for or that was started while it ran; setup() and
\* add_nodes() never make one.
NoForgottenJava ==
  JavaIdle => \A p \in Procs :
    procs[p].alive /\ procs[p].node \notin abandoned => \E i \in JNodes : java[i].pid = p
=============================================================================
