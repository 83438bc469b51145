------------------------ MODULE IgniteNodes_proofs ------------------------
(***************************************************************************)
(* Proofs about the server nodes of a grid, for any nodes, processes and   *)
(* calls, and any number of mishaps.                                       *)
(*                                                                         *)
(* wait_for_topology_snapshot counts: it wants as many snapshots as there  *)
(* are started and starting nodes.  Where no start has failed before,      *)
(* these are all the nodes whose logs are read (CountOK), so each of them  *)
(* has logged one, and has logged its PID before (HeardOK).  A process     *)
(* that runs is then always known (KnownOK): to the table, or to the call  *)
(* that starts or stops it.                                                *)
(***************************************************************************)
EXTENDS IgniteNodes, TLAPS, FiniteSetTheorems

-----------------------------------------------------------------------------
Born    == {p \in Proc : procs[p].state # "unborn"}
Heard   == {p \in Proc : procs[p].seen # NoSnapshot}
InStart == at \in {"wait", "launch", "record"}

\* No start has failed, and none has skipped the check.
Checked == mishaps \cap {"failed", "unchecked"} = {}

\* The processes are numbered in the order of their launches; those that were in a topology
\* have logged a snapshot, and its version counts the joins and the leaves.
ProcsOK ==
  /\ Born \subseteq 1 .. Cardinality(Born)
  /\ \A p \in Proc : procs[p].state \in {"unborn", "booting"} => procs[p].seen = NoSnapshot
  /\ topology.members \subseteq Heard
  /\ topology.ver + Cardinality(topology.members) <= 2 * Cardinality(Heard)

\* The PID and the log of a node are of a process that was launched for it.
OwnOK ==
  \A n \in Ids : \A p \in {nodes[n].pid, nodes[n].log} \ {NoProc} :
    p \in Born /\ procs[p].owner = n

\* What a call that goes on has to do; it waits for the nodes that are started and its own.
CallOK ==
  /\ InStart => /\ \A n \in started : nodes[n].status = "STARTING"
                /\ expect = Cardinality(AliveNodes \cup started)
  /\ ~ InStart => expect = 0 /\ started = {} /\ rest = {}
  /\ rest # {} => /\ started = {Coordinator} /\ rest = Default \ {Coordinator}
                  /\ AliveNodes = {}
  /\ at = "record" => rest = {}
  /\ at = "launch" => rest # {}
  /\ at = "poll" => \A n \in victims : nodes[n].pid \in pids \cup {NoProc}
  /\ at # "poll" => victims = {} /\ pids = {} /\ owed = {}

\* There are no other nodes that are starting.
CountOK ==
  Checked => \A n \in Ids : nodes[n].status = "STARTING" => InStart /\ n \in started

\* The process of a started node has logged a snapshot; so have those that are recorded next.
HeardOK ==
  Checked =>
    /\ \A n \in AliveNodes :
         /\ nodes[n].pid # NoProc /\ nodes[n].log \in {nodes[n].pid, NoProc}
         /\ nodes[n].pid \in Heard
    /\ at = "record" => \A n \in started : nodes[n].log # NoProc /\ nodes[n].log \in Heard

\* A process that runs is known: to the table, to the start or to the stop that goes on.
Known(p) ==
  LET n == procs[p].owner IN
  \/ nodes[n].status = "STARTED" /\ nodes[n].pid = p
  \/ InStart /\ n \in started /\ nodes[n].log = p
  \/ at = "poll" /\ p \in pids

KnownOK ==
  mishaps = {} =>
    /\ \A p \in Proc : Free(p) => Known(p)
    /\ at = "poll" => owed \subseteq pids

NInv ==
  /\ TypeOK /\ ProcsOK /\ OwnOK /\ CallOK /\ CountOK /\ HeardOK /\ KnownOK

-----------------------------------------------------------------------------
\* What the types say.
Row  == [status : NodeStatus, pid : Proc \cup {NoProc}, log : Proc \cup {NoProc}]
Life == [state : {"unborn", "booting", "joined", "dead"}, owner : Ids,
         signal : {"none", "TERM", "KILL"}, fatal : BOOLEAN, seen : Snapshot]

LEMMA ConstantFacts ==
  /\ Ids \subseteq Nat /\ IsFiniteSet(Ids)
  /\ Default \subseteq Ids /\ Additional \subseteq Ids /\ Coordinator \in Default
  /\ MaxProcs \in Nat /\ MaxCalls \in Nat /\ MaxMishaps \in Nat
  /\ IsFiniteSet(Proc) /\ Cardinality(Proc) = MaxProcs
  /\ Proc \subseteq Nat /\ NoProc \notin Proc
<1>1. MaxProcs \in Nat /\ MaxCalls \in Nat /\ MaxMishaps \in Nat
  BY BoundsAssumption
<1>2. IsFiniteSet(Proc) /\ Cardinality(Proc) = MaxProcs
  BY <1>1, FS_Interval DEF Proc
<1>3. Proc \subseteq Nat /\ NoProc \notin Proc
  BY <1>1 DEF Proc, NoProc
<1> QED BY <1>1, <1>2, <1>3, IdsAssumption, CoordinatorAssumption DEF Ids

LEMMA CountFacts ==
  ASSUME NEW S \in SUBSET Ids
  PROVE  IsFiniteSet(S) /\ Cardinality(S) \in Nat /\ Cardinality(S) <= Cardinality(Ids)
BY ConstantFacts, FS_Subset, FS_CardinalityType

LEMMA ProcCountFacts ==
  ASSUME NEW P \in SUBSET Proc
  PROVE  IsFiniteSet(P) /\ Cardinality(P) \in 0 .. MaxProcs
<1>1. IsFiniteSet(P) /\ Cardinality(P) <= MaxProcs
  BY ConstantFacts, FS_Subset
<1> QED BY <1>1, ConstantFacts, FS_CardinalityType

LEMMA UnionCount ==
  ASSUME NEW S \in SUBSET Ids, NEW T \in SUBSET Ids, S \cap T = {}
  PROVE  Cardinality(S \cup T) = Cardinality(S) + Cardinality(T)
<1>1. IsFiniteSet(S) /\ IsFiniteSet(T)
  BY CountFacts
<1>2. Cardinality(S \cap T) = 0
  BY FS_EmptySet
<1>3. Cardinality(S \cup T) = Cardinality(S) + Cardinality(T) - Cardinality(S \cap T)
  BY <1>1, FS_Union
<1>4. Cardinality(S) \in Nat /\ Cardinality(T) \in Nat
  BY CountFacts
<1> QED BY <1>2, <1>3, <1>4

LEMMA RowFacts ==
  ASSUME TypeOK
  PROVE  /\ nodes \in [Ids -> Row] /\ procs \in [Proc -> Life]
         /\ \A n \in Ids : /\ nodes[n] \in Row /\ nodes[n].status \in NodeStatus
                           /\ nodes[n].pid \in Proc \cup {NoProc}
                           /\ nodes[n].log \in Proc \cup {NoProc}
         /\ \A p \in Proc : /\ procs[p] \in Life /\ procs[p].owner \in Ids
                            /\ procs[p].seen \in Snapshot
                            /\ procs[p].state \in {"unborn", "booting", "joined", "dead"}
<1>1. nodes \in [Ids -> Row] /\ procs \in [Proc -> Life]
  BY DEF TypeOK, Row, Life
<1> QED BY <1>1 DEF Row, Life

LEMMA NodeFacts ==
  /\ \A s \in NodeStatus : Node(s) \in Row
  /\ \A s : Node(s).status = s /\ Node(s).pid = NoProc /\ Node(s).log = NoProc
  /\ \A r \in Row : /\ Deleted(r) \in Row /\ Deleted(r).status = "KILLED"
                    /\ Deleted(r).pid = NoProc /\ Deleted(r).log = r.log
BY DEF Node, Row, Deleted, NodeStatus

LEMMA UnbornFacts ==
  /\ Unborn \in Life /\ NoSnapshot \in Snapshot
  /\ Unborn.state = "unborn" /\ Unborn.seen = NoSnapshot /\ Unborn.signal = "none"
BY ConstantFacts DEF Unborn, Life, NoSnapshot, Snapshot

-----------------------------------------------------------------------------
\* The numbers of the processes that are launched.

\* The place of a node among those of S.
Rank(S, n) == Cardinality({m \in S : m <= n})

LEMMA RankFacts ==
  ASSUME NEW S \in SUBSET Ids
  PROVE  /\ \A n \in S : Rank(S, n) \in 1 .. Cardinality(S)
         /\ \A m, n \in S : Rank(S, m) = Rank(S, n) => m = n
<1>0. S \subseteq Nat
  BY ConstantFacts
<1>1. ASSUME NEW n \in S
      PROVE  Rank(S, n) \in 1 .. Cardinality(S)
  <2> DEFINE B == {m \in S : m <= n}
  <2>0. n \in Nat /\ n <= n
    BY <1>0
  <2>1. B \in SUBSET S /\ n \in B /\ B \in SUBSET Ids
    BY <2>0
  <2>2. IsFiniteSet(S) /\ Cardinality(B) \in Nat /\ Cardinality(S) \in Nat /\ IsFiniteSet(B)
    BY <2>1, CountFacts
  <2>3. Cardinality(B) <= Cardinality(S)
    BY <2>1, <2>2, FS_Subset
  <2>4. Cardinality(B) # 0
    BY <2>1, <2>2, FS_EmptySet
  <2> QED BY <2>2, <2>3, <2>4 DEF Rank
<1>2. ASSUME NEW m \in S, NEW n \in S, m < n
      PROVE  Rank(S, m) # Rank(S, n)
  <2> DEFINE B == {k \in S : k <= m}
             C == {k \in S : k <= n}
  <2>0. /\ m \in Nat /\ n \in Nat /\ n <= n /\ ~ n <= m
        /\ \A k \in S : k <= m => k <= n
    BY <1>0, <1>2
  <2>1. B \in SUBSET C /\ n \in C /\ n \notin B /\ C \in SUBSET Ids
    BY <2>0
  <2>2. IsFiniteSet(C)
    BY <2>1, CountFacts
  <2>3. Cardinality(C) # Cardinality(B)
    BY <2>1, <2>2, FS_Subset
  <2> QED BY <2>3 DEF Rank
<1>3. \A m, n \in S : m < n \/ n < m \/ m = n
  BY <1>0
<1> QED BY <1>1, <1>2, <1>3

LEMMA LaunchedFacts ==
  ASSUME TypeOK, ProcsOK, NEW S \in SUBSET Ids, \A n \in S : Launched(S, n) <= MaxProcs
  PROVE  /\ \A n \in S : Launched(S, n) \in Proc \ Born
         /\ \A m, n \in S : Launched(S, m) = Launched(S, n) => m = n
         /\ \A n \in S : Launched(S, n) <= Cardinality(Born) + Cardinality(S)
         /\ LET N == {Launched(S, n) : n \in S} IN
            Cardinality(Born \cup N) = Cardinality(Born) + Cardinality(S)
<1>1. \A n : Launched(S, n) = Cardinality(Born) + Rank(S, n)
  BY DEF Launched, Born, Rank
<1>2. Born \in SUBSET Proc /\ IsFiniteSet(Born) /\ Cardinality(Born) \in Nat
  BY ProcCountFacts DEF Born
<1>3. IsFiniteSet(S) /\ Cardinality(S) \in Nat
  BY CountFacts
<1>4. \A n \in S : Rank(S, n) \in 1 .. Cardinality(S)
  BY RankFacts
<1>5. ASSUME NEW n \in S
      PROVE  Launched(S, n) \in Proc \ Born
  <2>1. Launched(S, n) \in Nat /\ Launched(S, n) > Cardinality(Born) /\ Launched(S, n) <= MaxProcs
    BY <1>1, <1>2, <1>3, <1>4
  <2>2. Launched(S, n) \notin 1 .. Cardinality(Born)
    BY <1>2, <2>1
  <2>3. Launched(S, n) \in Proc
    <3>1. Launched(S, n) >= 1
      BY <1>2, <2>1
    <3> QED BY <2>1, <3>1, ConstantFacts DEF Proc
  <2> QED BY <2>2, <2>3 DEF ProcsOK
<1>6. \A m, n \in S : Launched(S, m) = Launched(S, n) => m = n
  <2> TAKE m, n \in S
  <2>1. Launched(S, m) = Launched(S, n) => Rank(S, m) = Rank(S, n)
    BY <1>1, <1>2, <1>3, <1>4
  <2> QED BY <2>1, RankFacts
<1>7. \A n \in S : Launched(S, n) <= Cardinality(Born) + Cardinality(S)
  BY <1>1, <1>2, <1>3, <1>4
<1> DEFINE N == {Launched(S, n) : n \in S}
           f == [n \in S |-> Launched(S, n)]
<1>8. N \in SUBSET Proc /\ Born \cap N = {}
  BY <1>5
<1>9. f \in Bijection(S, N)
  <2>1. f \in Surjection(S, N)
    BY DEF Surjection
  <2>2. f \in Injection(S, N)
    BY <1>6 DEF Injection, IsInjective
  <2> QED BY <2>1, <2>2 DEF Bijection
<1>10. IsFiniteSet(N) /\ Cardinality(N) = Cardinality(S)
  BY <1>3, <1>9, FS_Bijection DEF ExistsBijection
<1>11. Cardinality(Born \cup N) = Cardinality(Born) + Cardinality(S)
  <2>1. Cardinality(Born \cap N) = 0
    BY <1>8, FS_EmptySet
  <2>2. Cardinality(Born \cup N) = Cardinality(Born) + Cardinality(N) - Cardinality(Born \cap N)
    BY <1>2, <1>10, FS_Union
  <2> QED BY <1>2, <1>3, <1>10, <2>1, <2>2
<1> QED BY <1>5, <1>6, <1>7, <1>11

\* What a start leaves: its nodes have processes of their own, that no log and no PID in the
\* table is of.
Launches(S, table) ==
  /\ nodes' \in [Ids -> Row] /\ procs' \in [Proc -> Life]
  /\ \A n \in S : /\ nodes'[n].status = "STARTING" /\ nodes'[n].pid = table[n].pid
                  /\ nodes'[n].log \in Proc \ Born
                  /\ procs'[nodes'[n].log].state = "booting"
                  /\ procs'[nodes'[n].log].owner = n
  /\ \A n \in Ids \ S : nodes'[n] = table[n]
  /\ \A p \in Proc : \/ procs'[p] = procs[p]
                     \/ p \notin Born /\ \E n \in S : p = nodes'[n].log
  /\ \A p \in Proc : procs'[p].state \in {"unborn", "booting"} => procs'[p].seen = NoSnapshot
  /\ Heard' = Heard
  /\ Born' \subseteq 1 .. Cardinality(Born')

LEMMA LaunchEffect ==
  ASSUME TypeOK, ProcsOK, NEW S \in SUBSET Ids, NEW table \in [Ids -> Row], Launch(S, table)
  PROVE  Launches(S, table)
<1> DEFINE L(n) == Launched(S, n)
           N == {L(n) : n \in S}
           New(p) == [Unborn EXCEPT !.state = "booting",
                                    !.owner = CHOOSE n \in S : L(n) = p]
<1>1. /\ \A n \in S : L(n) \in Proc \ Born
      /\ \A m, n \in S : L(m) = L(n) => m = n
      /\ \A n \in S : L(n) <= Cardinality(Born) + Cardinality(S)
      /\ Cardinality(Born \cup N) = Cardinality(Born) + Cardinality(S)
  <2>1. \A n \in S : Launched(S, n) <= MaxProcs
    BY DEF Launch
  <2> QED BY <2>1, LaunchedFacts
<1>2. nodes' = [n \in Ids |-> IF n \in S
                              THEN [table[n] EXCEPT !.status = "STARTING", !.log = L(n)]
                              ELSE table[n]]
  BY DEF Launch
<1>3. procs' = [p \in Proc |-> IF \E n \in S : L(n) = p THEN New(p) ELSE procs[p]]
  BY DEF Launch
<1> HIDE DEF L
<1>4. ASSUME NEW n \in S
      PROVE  /\ nodes'[n] \in Row /\ nodes'[n].status = "STARTING"
             /\ nodes'[n].pid = table[n].pid /\ nodes'[n].log = L(n)
  <2>1. table[n] \in Row /\ n \in Ids
    OBVIOUS
  <2>2. nodes'[n] = [table[n] EXCEPT !.status = "STARTING", !.log = L(n)]
    BY <1>2
  <2> QED BY <1>1, <2>1, <2>2 DEF Row, NodeStatus
<1>5. \A n \in Ids \ S : nodes'[n] = table[n]
  BY <1>2
<1>6. nodes' \in [Ids -> Row]
  BY <1>2, <1>4, <1>5
<1>7. ASSUME NEW n \in S
      PROVE  /\ procs'[L(n)] \in Life /\ procs'[L(n)].state = "booting"
             /\ procs'[L(n)].owner = n /\ procs'[L(n)].seen = NoSnapshot
  <2>1. (CHOOSE m \in S : L(m) = L(n)) = n
    BY <1>1
  <2>2. procs'[L(n)] = New(L(n))
    BY <1>1, <1>3
  <2>3. procs'[L(n)] = [Unborn EXCEPT !.state = "booting", !.owner = n]
    BY <2>1, <2>2
  <2> QED BY <2>3, UnbornFacts DEF Life
<1>8. \A p \in Proc \ N : procs'[p] = procs[p]
  BY <1>3
<1>9. procs' \in [Proc -> Life]
  BY <1>3, <1>7, <1>8, RowFacts
<1>10. \A p \in Proc : p \in N => p \notin Born /\ \E n \in S : p = nodes'[n].log
  BY <1>1, <1>4
<1>11. Born' = Born \cup N
  BY <1>1, <1>7, <1>8 DEF Born
<1>12. \A p \in Proc : procs'[p].seen = procs[p].seen
  <2> TAKE p \in Proc
  <2>1. CASE p \in N
    BY <1>7, <1>10, <2>1 DEF Born, ProcsOK
  <2> QED BY <1>8, <2>1
<1>13. Heard' = Heard
  BY <1>12 DEF Heard
<1>14. \A p \in Proc : procs'[p].state \in {"unborn", "booting"} => procs'[p].seen = NoSnapshot
  BY <1>7, <1>8 DEF ProcsOK
<1>15. Born' \subseteq 1 .. Cardinality(Born')
  <2>1. Cardinality(Born) \in Nat /\ Cardinality(S) \in Nat
    BY ProcCountFacts, CountFacts DEF Born
  <2>2. \A p \in N : p \in Proc /\ p \in 1 .. Cardinality(Born) + Cardinality(S)
    BY <1>1, <2>1, ConstantFacts DEF Proc
  <2>3. \A p \in Born : p \in 1 .. Cardinality(Born) + Cardinality(S)
    BY <2>1 DEF ProcsOK
  <2> HIDE DEF N
  <2> QED BY <1>1, <1>11, <2>2, <2>3
<1> QED
  BY <1>1, <1>4, <1>5, <1>6, <1>7, <1>8, <1>9, <1>10, <1>13, <1>14, <1>15 DEF Launches

-----------------------------------------------------------------------------
\* What the processes do by themselves.

LEMMA TopologyFacts ==
  ASSUME TypeOK
  PROVE  /\ topology.ver \in 0 .. 2 * MaxProcs /\ topology.members \in SUBSET Proc
         /\ IsFiniteSet(topology.members) /\ Cardinality(topology.members) \in 0 .. MaxProcs
         /\ Heard \in SUBSET Proc
         /\ IsFiniteSet(Heard) /\ Cardinality(Heard) \in 0 .. MaxProcs
<1>1. topology.ver \in 0 .. 2 * MaxProcs /\ topology.members \in SUBSET Proc
  BY DEF TypeOK
<1>2. Heard \in SUBSET Proc
  BY DEF Heard
<1> QED BY <1>1, <1>2, ProcCountFacts

\* A topology within the count of joins and leaves is within its type.
LEMMA VersionBound ==
  ASSUME NEW v \in Nat, NEW M \in SUBSET Proc, NEW H \in SUBSET Proc,
         v + Cardinality(M) <= 2 * Cardinality(H)
  PROVE  v \in 0 .. 2 * MaxProcs
<1>1. Cardinality(M) \in 0 .. MaxProcs /\ Cardinality(H) \in 0 .. MaxProcs
  BY ProcCountFacts
<1> QED BY <1>1, ConstantFacts

\* What every process step leaves to the calls.
Proceeds ==
  /\ UNCHANGED <<nodes, calls, at, startVars, stopVars, mishaps>>
  /\ procs' \in [Proc -> Life]
  /\ topology' \in [ver : 0 .. 2 * MaxProcs, members : SUBSET Proc]
  /\ \A q \in Proc : procs'[q].owner = procs[q].owner
  /\ \A q \in Proc : Free(q)' => Free(q)
  /\ \A q \in Proc : Running(q)' => Running(q)
  /\ Heard \subseteq Heard' /\ Born' = Born
  /\ ProcsOK'

\* A step of one process, to what it is then.
LEMMA OneProcess ==
  ASSUME TypeOK, ProcsOK, NEW p \in Proc, NEW l \in Life, procs' = [procs EXCEPT ![p] = l],
         Running(p), l.state \in {"booting", "joined", "dead"}, l.owner = procs[p].owner,
         l.signal = "KILL" \/ l.signal = procs[p].signal \/ l.state = "dead",
         l.state = "booting" => l.seen = NoSnapshot,
         l.seen = NoSnapshot => procs[p].seen = NoSnapshot,
         UNCHANGED <<nodes, calls, at, startVars, stopVars, mishaps>>,
         NEW v \in Nat, NEW M \in SUBSET Proc, topology' = [ver |-> v, members |-> M],
         M \subseteq Heard',
         v + Cardinality(M) <= 2 * Cardinality(Heard')
  PROVE  Proceeds
<1>1. /\ procs' \in [Proc -> Life] /\ procs'[p] = l
      /\ \A q \in Proc \ {p} : procs'[q] = procs[q]
  BY RowFacts
<1>2. Heard' \in SUBSET Proc
  BY DEF Heard
<1>3. topology' \in [ver : 0 .. 2 * MaxProcs, members : SUBSET Proc]
  BY <1>2, VersionBound
<1>4. Born' = Born
  BY <1>1 DEF Born, Running
<1>5. Heard \subseteq Heard'
  BY <1>1 DEF Heard
<1>6. \A q \in Proc : procs'[q].owner = procs[q].owner
  BY <1>1
<1>7. \A q \in Proc : (Free(q)' => Free(q)) /\ (Running(q)' => Running(q))
  BY <1>1 DEF Free, Running
<1>8. \A q \in Proc : procs'[q].state \in {"unborn", "booting"} => procs'[q].seen = NoSnapshot
  BY <1>1 DEF ProcsOK
<1>9. ProcsOK'
  BY <1>4, <1>8 DEF ProcsOK
<1> QED BY <1>1, <1>3, <1>4, <1>5, <1>6, <1>7, <1>9 DEF Proceeds

LEMMA JoinProceeds ==
  ASSUME TypeOK, ProcsOK, NEW p \in Proc, Join(p)
  PROVE  Proceeds
<1> DEFINE alone == \A q \in topology.members : ~ Running(q)
           M == {p} \cup (IF alone THEN {} ELSE topology.members)
           v == IF alone THEN 1 ELSE topology.ver + 1
           l == [procs[p] EXCEPT !.state = "joined",
                                 !.seen = [ver |-> v, servers |-> Cardinality(M)]]
<1>1. /\ procs[p].state = "booting" /\ procs[p].seen = NoSnapshot /\ p \notin Heard
      /\ p \notin topology.members /\ Running(p)
  BY DEF Join, ProcsOK, Heard, Running
<1>2. M \in SUBSET Proc /\ v \in Nat /\ v >= 1 /\ Cardinality(M) \in 0 .. MaxProcs
  <2>1. M \in SUBSET Proc
    BY TopologyFacts
  <2>2. v \in Nat /\ v >= 1
    BY TopologyFacts
  <2> QED BY <2>1, <2>2, ProcCountFacts
<1>3. topology' = [ver |-> v, members |-> M]
  BY DEF Join
<1>4. procs' = [procs EXCEPT ![p] = l]
  BY RowFacts DEF Join
<1>5. l.seen # NoSnapshot
  BY <1>2, RowFacts DEF NoSnapshot, Life
<1>6. Heard' = Heard \cup {p}
  <2>1. procs'[p] = l /\ \A q \in Proc \ {p} : procs'[q] = procs[q]
    BY <1>4, RowFacts
  <2> QED BY <1>5, <2>1 DEF Heard
<1>7. Cardinality(Heard') = Cardinality(Heard) + 1
  BY <1>1, <1>6, TopologyFacts, FS_AddElement
<1>8. v + Cardinality(M) <= 2 * Cardinality(Heard')
  <2>1. Cardinality(Heard) \in Nat /\ Cardinality(topology.members) \in Nat /\ topology.ver \in Nat
    BY TopologyFacts, ConstantFacts
  <2>2. CASE alone
    <3>1. Cardinality(M) = 1
      BY <2>2, FS_Singleton
    <3> QED BY <1>7, <2>1, <2>2, <3>1
  <2>3. CASE ~ alone
    <3>1. M = topology.members \cup {p}
      BY <2>3
    <3>2. Cardinality(topology.members \cup {p}) = Cardinality(topology.members) + 1
      BY <1>1, TopologyFacts, FS_AddElement
    <3>3. topology.ver + Cardinality(topology.members) <= 2 * Cardinality(Heard)
      BY DEF ProcsOK
    <3> HIDE DEF M, alone
    <3>4. Cardinality(M) = Cardinality(topology.members) + 1
      BY <3>1, <3>2
    <3>5. v = topology.ver + 1
      BY <2>3
    <3> HIDE DEF v
    <3> QED BY <1>7, <2>1, <3>3, <3>4, <3>5
  <2> QED BY <2>2, <2>3
<1>9. M \subseteq Heard'
  BY <1>6 DEF ProcsOK
<1>10. v \in 0 .. 2 * MaxProcs
  <2>1. Heard' \in SUBSET Proc
    BY DEF Heard
  <2> HIDE DEF v, M
  <2> QED BY <1>2, <1>8, <2>1, VersionBound
<1>11. /\ l \in Life /\ l.state = "joined" /\ l.owner = procs[p].owner
       /\ l.signal = procs[p].signal
  BY <1>2, <1>10, RowFacts DEF Life, Snapshot
<1>12. UNCHANGED <<nodes, calls, at, startVars, stopVars, mishaps>>
  BY DEF Join
<1> HIDE DEF M, v, l
<1> QED BY <1>1, <1>2, <1>3, <1>4, <1>5, <1>8, <1>9, <1>11, <1>12, OneProcess

LEMMA HearProceeds ==
  ASSUME TypeOK, ProcsOK, NEW p \in Proc, Hear(p)
  PROVE  Proceeds
<1> DEFINE l == [procs[p] EXCEPT !.seen = [ver |-> topology.ver,
                                           servers |-> Cardinality(topology.members)]]
<1>1. /\ procs[p].state = "joined" /\ p \in topology.members /\ Running(p)
      /\ UNCHANGED <<nodes, calls, at, startVars, stopVars, mishaps, topology>>
      /\ procs' = [procs EXCEPT ![p] = l]
  BY RowFacts DEF Hear, Running
<1>2. Cardinality(topology.members) # 0
  BY <1>1, TopologyFacts, FS_EmptySet
<1>3. l.seen # NoSnapshot
  BY <1>2, RowFacts DEF NoSnapshot, Life
<1>4. l \in Life /\ l.state = "joined" /\ l.owner = procs[p].owner /\ l.signal = procs[p].signal
  BY <1>1, TopologyFacts, RowFacts DEF Life, Snapshot
<1> HIDE DEF l
<1>5. Heard' = Heard
  BY <1>1, <1>3, RowFacts DEF Heard, ProcsOK
<1>6. /\ topology' = [ver |-> topology.ver, members |-> topology.members]
      /\ topology.ver \in Nat
  BY <1>1, TopologyFacts DEF TypeOK
<1>7. /\ topology.members \subseteq Heard'
      /\ topology.ver + Cardinality(topology.members) <= 2 * Cardinality(Heard')
  BY <1>5 DEF ProcsOK
<1> QED BY <1>1, <1>3, <1>4, <1>6, <1>7, TopologyFacts, OneProcess

LEMMA ExitProceeds ==
  ASSUME TypeOK, ProcsOK, NEW p \in Proc, NEW fatal \in BOOLEAN, Exit(p, fatal)
  PROVE  Proceeds
<1> DEFINE l == [procs[p] EXCEPT !.state = "dead", !.fatal = fatal, !.signal = "none"]
<1>1. /\ Running(p) /\ procs' = [procs EXCEPT ![p] = l]
      /\ UNCHANGED <<nodes, calls, at, startVars, stopVars, mishaps, topology>>
  BY RowFacts DEF Exit
<1>2. /\ l \in Life /\ l.state = "dead" /\ l.owner = procs[p].owner
      /\ l.seen = procs[p].seen
  BY RowFacts DEF Life
<1> HIDE DEF l
<1>3. Heard' = Heard
  BY <1>1, <1>2, RowFacts DEF Heard
<1>4. /\ topology' = [ver |-> topology.ver, members |-> topology.members]
      /\ topology.ver \in Nat
  BY <1>1, TopologyFacts DEF TypeOK
<1>5. /\ topology.members \subseteq Heard'
      /\ topology.ver + Cardinality(topology.members) <= 2 * Cardinality(Heard')
  BY <1>3 DEF ProcsOK
<1> QED BY <1>1, <1>2, <1>4, <1>5, TopologyFacts, OneProcess

LEMMA LeaveProceeds ==
  ASSUME TypeOK, ProcsOK, NEW p \in Proc, Leave(p)
  PROVE  Proceeds
<1> DEFINE M == topology.members \ {p}
<1>1. /\ p \in topology.members /\ topology' = [ver |-> topology.ver + 1, members |-> M]
      /\ UNCHANGED <<nodes, calls, at, startVars, stopVars, mishaps, procs>>
  BY DEF Leave
<1>2. Cardinality(M) = Cardinality(topology.members) - 1
  BY <1>1, TopologyFacts, FS_RemoveElement
<1>3. Heard' = Heard /\ Born' = Born
  BY <1>1 DEF Heard, Born
<1>4. topology.ver + Cardinality(topology.members) <= 2 * Cardinality(Heard)
  BY DEF ProcsOK
<1>5. /\ topology.ver \in Nat /\ Cardinality(topology.members) \in Nat
      /\ Cardinality(Heard) \in Nat
  BY TopologyFacts, ConstantFacts
<1>6. (topology.ver + 1) + Cardinality(M) <= 2 * Cardinality(Heard)
  BY <1>2, <1>4, <1>5
<1>7. M \in SUBSET Proc /\ M \subseteq Heard
  BY TopologyFacts DEF ProcsOK
<1> HIDE DEF M
<1>8. topology.ver + 1 \in 0 .. 2 * MaxProcs
  BY <1>5, <1>6, <1>7, TopologyFacts, VersionBound
<1>9. topology' \in [ver : 0 .. 2 * MaxProcs, members : SUBSET Proc]
  BY <1>1, <1>7, <1>8
<1>10. ProcsOK'
  BY <1>1, <1>3, <1>6, <1>7 DEF ProcsOK
<1>11. \A q \in Proc : (Free(q)' => Free(q)) /\ (Running(q)' => Running(q))
  BY <1>1 DEF Free, Running
<1> QED BY <1>1, <1>3, <1>9, <1>10, <1>11, RowFacts DEF Proceeds

LEMMA ProcessesProceed ==
  ASSUME TypeOK, ProcsOK, Processes
  PROVE  Proceeds
BY JoinProceeds, HearProceeds, ExitProceeds, LeaveProceeds DEF Processes

-----------------------------------------------------------------------------
\* What the calls change.

CallTypes == /\ calls' \in 0 .. MaxCalls
             /\ mishaps \subseteq mishaps' /\ mishaps' \subseteq Mishap

\* The processes are as they were but for their signals.
SameLives ==
  /\ procs' \in [Proc -> Life]
  /\ \A p \in Proc : /\ procs'[p].owner = procs[p].owner
                     /\ procs'[p].state = procs[p].state
                     /\ procs'[p].seen = procs[p].seen
                     /\ Free(p)' => Free(p)

\* The PIDs in the table are from the table or the logs.
Tame ==
  /\ nodes' \in [Ids -> Row]
  /\ \A n \in Ids : /\ nodes'[n].pid \in {nodes[n].pid, nodes[n].log, NoProc}
                    /\ nodes'[n].log \in {nodes[n].log, NoProc}

\* No node is started, or starting, that was not.
Calm ==
  \A n \in Ids : \/ nodes'[n].status \notin {"STARTING", "STARTED"}
                 \/ /\ nodes'[n].status = nodes[n].status /\ nodes'[n].pid = nodes[n].pid
                    /\ nodes'[n].log \in {nodes[n].log, NoProc}

\* A call that returns at once.
AtOnce == /\ at = "idle"
          /\ UNCHANGED <<at, startVars, stopVars, topology>>
          /\ CallTypes /\ SameLives /\ Tame

LEMMA BlameFacts ==
  ASSUME TypeOK, NEW m \in Mishap, NEW condition, Blame(m, condition)
  PROVE  /\ mishaps \subseteq mishaps' /\ mishaps' \subseteq Mishap
         /\ mishaps' \subseteq mishaps \cup {m}
         /\ condition => m \in mishaps'
         /\ ~ condition => mishaps' = mishaps
BY DEF Blame, TypeOK

LEMMA CalledFacts ==
  ASSUME TypeOK, Called
  PROVE  at = "idle" /\ calls' \in 0 .. MaxCalls
BY ConstantFacts DEF Called, TypeOK

LEMMA SameLivesFacts ==
  ASSUME TypeOK, SameLives
  PROVE  /\ Born' = Born /\ Heard' = Heard
         /\ topology' = topology /\ ProcsOK => ProcsOK'
<1>1. Born' = Born /\ Heard' = Heard
  BY DEF SameLives, Born, Heard
<1> QED BY <1>1 DEF SameLives, ProcsOK

LEMMA SameProcs ==
  ASSUME TypeOK, procs' = procs
  PROVE  SameLives
BY RowFacts DEF SameLives, Free, Running

LEMMA SignalEffect ==
  ASSUME TypeOK, NEW P, NEW s \in {"TERM", "KILL"}, Signal(P, s)
  PROVE  /\ SameLives
         /\ s = "KILL" => \A p \in Proc \cap P : ~ Free(p)'
         /\ \A p \in Proc : Running(p)' <=> Running(p)
<1>1. ASSUME NEW p \in Proc
      PROVE  /\ procs'[p] \in Life /\ procs'[p].owner = procs[p].owner
             /\ procs'[p].state = procs[p].state /\ procs'[p].seen = procs[p].seen
             /\ procs'[p].signal = IF p \in P /\ Free(p) THEN s ELSE procs[p].signal
  <2>1. procs[p] \in Life
    BY RowFacts
  <2>2. procs'[p] = IF p \in P /\ Free(p) THEN [procs[p] EXCEPT !.signal = s] ELSE procs[p]
    BY DEF Signal
  <2> QED BY <2>1, <2>2 DEF Life
<1>2. procs' \in [Proc -> Life]
  BY <1>1 DEF Signal
<1>3. \A p \in Proc : (Running(p)' <=> Running(p)) /\ (Free(p)' => Free(p))
  BY <1>1 DEF Running, Free
<1>4. s = "KILL" => \A p \in Proc \cap P : ~ Free(p)'
  BY <1>1, <1>3 DEF Free
<1> QED BY <1>1, <1>2, <1>3, <1>4 DEF SameLives

\* The rows of a table that are put down as killed, or being killed.
LEMMA TableEffect ==
  ASSUME TypeOK, nodes' \in [Ids -> Row],
         \A n \in Ids : \/ nodes'[n] = nodes[n]
                        \/ /\ nodes'[n].status \notin {"STARTING", "STARTED"}
                           /\ nodes'[n].pid \in {nodes[n].pid, NoProc}
                           /\ nodes'[n].log \in {nodes[n].log, NoProc}
                        \/ nodes'[n] = [nodes[n] EXCEPT !.log = NoProc]
  PROVE  Tame /\ Calm
<1>1. ASSUME NEW n \in Ids, nodes'[n] = [nodes[n] EXCEPT !.log = NoProc]
      PROVE  /\ nodes'[n].status = nodes[n].status /\ nodes'[n].pid = nodes[n].pid
             /\ nodes'[n].log = NoProc
  BY <1>1, RowFacts DEF Row
<1> QED BY <1>1 DEF Tame, Calm

LEMMA PidsFacts ==
  ASSUME TypeOK, NEW S \in SUBSET Ids
  PROVE  PidsOf(S) \in SUBSET Proc
BY RowFacts DEF PidsOf

LEMMA KillNodeEffect ==
  ASSUME TypeOK, NEW n \in Ids, NEW lost \in BOOLEAN, NEW ignore \in BOOLEAN,
         KillNode(n, lost, ignore)
  PROVE  /\ AtOnce /\ Calm
         /\ lost => "remote" \in mishaps'
         /\ \A m \in Ids \ {n} : nodes'[m] = nodes[m]
         /\ ~ lost => \A p \in Proc : p = nodes[n].pid => ~ Free(p)'
<1>0. nodes[n] \in Row /\ nodes[n].pid \in Proc \cup {NoProc}
  BY RowFacts
<1>1. /\ at = "idle" /\ CallTypes /\ UNCHANGED <<at, startVars, stopVars, topology>>
      /\ lost => "remote" \in mishaps'
  BY CalledFacts, BlameFacts DEF KillNode, CallTypes, Mishap
<1>2. CASE nodes[n].pid = NoProc /\ nodes' = [nodes EXCEPT ![n].status = "KILLED"] /\ procs' = procs
  <2>1. /\ nodes' \in [Ids -> Row] /\ nodes'[n].status = "KILLED"
        /\ nodes'[n].pid = nodes[n].pid /\ nodes'[n].log = nodes[n].log
        /\ \A m \in Ids \ {n} : nodes'[m] = nodes[m]
    BY <1>0, <1>2, RowFacts DEF Row, NodeStatus
  <2>2. Tame /\ Calm
    BY <2>1, TableEffect
  <2>3. SameLives /\ \A p \in Proc : p # nodes[n].pid
    BY <1>2, SameProcs, ConstantFacts
  <2> QED BY <1>1, <2>1, <2>2, <2>3 DEF AtOnce
<1>3. CASE /\ nodes[n].pid # NoProc
           /\ nodes' = [nodes EXCEPT ![n] = IF lost /\ ~ignore THEN [@ EXCEPT !.status = "KILLING"]
                                            ELSE Deleted(@)]
           /\ \E P \in Reached({nodes[n].pid}, lost) : Signal(P, "KILL")
  <2>1. /\ nodes' \in [Ids -> Row] /\ nodes'[n].status \in {"KILLING", "KILLED"}
        /\ nodes'[n].pid \in {nodes[n].pid, NoProc} /\ nodes'[n].log = nodes[n].log
        /\ \A m \in Ids \ {n} : nodes'[m] = nodes[m]
    <3> DEFINE r == IF lost /\ ~ignore THEN [nodes[n] EXCEPT !.status = "KILLING"]
                    ELSE Deleted(nodes[n])
    <3>1. /\ r \in Row /\ r.status \in {"KILLING", "KILLED"}
          /\ r.pid \in {nodes[n].pid, NoProc} /\ r.log = nodes[n].log
      BY <1>0, NodeFacts DEF Row, NodeStatus
    <3>2. nodes' = [nodes EXCEPT ![n] = r]
      BY <1>3
    <3> HIDE DEF r
    <3> QED BY <3>1, <3>2, RowFacts
  <2>2. Tame /\ Calm
    BY <2>1, TableEffect
  <2>3. PICK P \in Reached({nodes[n].pid}, lost) : Signal(P, "KILL")
    BY <1>3
  <2>4. SameLives /\ \A p \in Proc \cap P : ~ Free(p)'
    BY <2>3, SignalEffect
  <2>5. ~ lost => P = {nodes[n].pid}
    BY <2>3 DEF Reached
  <2>6. ~ lost => \A p \in Proc : p = nodes[n].pid => ~ Free(p)'
    BY <2>4, <2>5
  <2> QED BY <1>1, <2>1, <2>2, <2>4, <2>6 DEF AtOnce
<1> QED BY <1>2, <1>3 DEF KillNode

LEMMA KillNodesEffect ==
  ASSUME TypeOK, NEW S \in SUBSET Ids, NEW lost \in BOOLEAN, KillNodes(S, lost)
  PROVE  /\ AtOnce /\ Calm
         /\ lost => "remote" \in mishaps'
         /\ \A m \in Ids \ S : nodes'[m] = nodes[m]
         /\ ~ lost => \A p \in PidsOf(S) : ~ Free(p)'
<1>1. /\ at = "idle" /\ CallTypes /\ UNCHANGED <<at, startVars, stopVars, topology>>
      /\ lost => "remote" \in mishaps'
  BY CalledFacts, BlameFacts DEF KillNodes, CallTypes, Mishap
<1>2. ASSUME NEW n \in Ids
      PROVE  /\ nodes'[n] \in Row
             /\ n \notin S => nodes'[n] = nodes[n]
             /\ n \in S => /\ nodes'[n].status \in {"KILLING", "KILLED"}
                           /\ nodes'[n].pid = nodes[n].pid /\ nodes'[n].log = nodes[n].log
  <2>1. nodes'[n] = IF n \notin S THEN nodes[n]
                    ELSE [nodes[n] EXCEPT !.status = IF nodes[n].pid # NoProc THEN "KILLING"
                                                     ELSE "KILLED"]
    BY DEF KillNodes
  <2>2. nodes[n] \in Row
    BY RowFacts
  <2> QED BY <2>1, <2>2 DEF Row, NodeStatus
<1>3. nodes' \in [Ids -> Row]
  BY <1>2 DEF KillNodes
<1>4. Tame /\ Calm
  BY <1>2, <1>3, TableEffect
<1>5. PICK P \in Reached(PidsOf(S), lost) : Signal(P, "KILL")
  BY DEF KillNodes
<1>6. SameLives /\ \A p \in Proc \cap P : ~ Free(p)'
  BY <1>5, SignalEffect
<1>7. ~ lost => P = PidsOf(S)
  BY <1>5 DEF Reached
<1> QED BY <1>1, <1>2, <1>4, <1>6, <1>7, PidsFacts DEF AtOnce

\* stop_nodes waits, or raises at once when the signals could not be sent.
LEMMA StopNodesEffect ==
  ASSUME TypeOK, NEW S \in SUBSET Ids, NEW signal \in {"TERM", "KILL"}, NEW lost \in BOOLEAN,
         StopNodes(S, signal, lost)
  PROVE  /\ at = "idle" /\ CallTypes /\ SameLives /\ Tame /\ Calm
         /\ UNCHANGED <<startVars, topology>>
         /\ \A m \in Ids : nodes'[m].pid = nodes[m].pid
         /\ \A m \in Ids \ S : nodes'[m] = nodes[m]
         /\ \/ /\ ~ lost /\ at' = "poll" /\ victims' = S /\ pids' = PidsOf(S)
               /\ owed' = {p \in Proc : Free(p) /\ procs[p].owner \in S}
            \/ UNCHANGED <<at, stopVars>> /\ "remote" \in mishaps'
<1>1. /\ at = "idle" /\ CallTypes /\ UNCHANGED <<startVars, topology>>
      /\ lost => "remote" \in mishaps'
  BY CalledFacts, BlameFacts DEF StopNodes, CallTypes, Mishap
<1>2. ASSUME NEW n \in Ids
      PROVE  /\ nodes'[n] \in Row
             /\ \/ nodes'[n] = nodes[n]
                \/ /\ n \in S /\ nodes'[n].status = "KILLING"
                   /\ nodes'[n].pid = nodes[n].pid /\ nodes'[n].log = nodes[n].log
  <2>1. nodes'[n] = IF n \in S /\ nodes[n].pid # NoProc
                    THEN [nodes[n] EXCEPT !.status = "KILLING"] ELSE nodes[n]
    BY DEF StopNodes
  <2>2. nodes[n] \in Row
    BY RowFacts
  <2> QED BY <2>1, <2>2 DEF Row, NodeStatus
<1>3. nodes' \in [Ids -> Row]
  BY <1>2 DEF StopNodes
<1>4. Tame /\ Calm
  BY <1>2, <1>3, TableEffect
<1>5. SameLives
  BY SignalEffect DEF StopNodes
<1>6. \/ /\ ~ lost /\ at' = "poll" /\ victims' = S /\ pids' = PidsOf(S)
         /\ owed' = {p \in Proc : Free(p) /\ procs[p].owner \in S}
      \/ lost /\ UNCHANGED <<at, stopVars>>
  BY DEF StopNodes
<1> QED BY <1>1, <1>2, <1>4, <1>5, <1>6

LEMMA CheckEffect ==
  ASSUME TypeOK, NEW n \in Ids, CheckNodeStatus(n)
  PROVE  /\ AtOnce /\ Calm /\ procs' = procs /\ mishaps' = mishaps
         /\ ~ Running(nodes[n].pid) /\ \A m \in Ids \ {n} : nodes'[m] = nodes[m]
<1>1. nodes' = [nodes EXCEPT ![n] = Deleted(nodes[n])] /\ nodes[n] \in Row
  BY RowFacts DEF CheckNodeStatus
<1>2. /\ nodes' \in [Ids -> Row] /\ nodes'[n].status = "KILLED"
      /\ nodes'[n].pid = NoProc /\ nodes'[n].log = nodes[n].log
      /\ \A m \in Ids \ {n} : nodes'[m] = nodes[m]
  BY <1>1, NodeFacts, RowFacts
<1>3. Tame /\ Calm
  BY <1>2, TableEffect
<1>4. at = "idle" /\ calls' \in 0 .. MaxCalls
  BY CalledFacts DEF CheckNodeStatus
<1> QED BY <1>2, <1>3, <1>4, SameProcs DEF CheckNodeStatus, AtOnce, CallTypes, TypeOK

LEMMA AddEffect ==
  ASSUME TypeOK, NEW count \in 1 .. Cardinality(Additional), AddAdditional(count)
  PROVE  /\ AtOnce /\ Calm /\ procs' = procs
         /\ "overwritten" \notin mishaps' =>
              \A n \in Ids : nodes'[n] = nodes[n] \/ nodes[n].status = "GONE"
<1> DEFINE free == {a \in Additional : nodes[a].status = "GONE"}
           new == {a \in Additional : \E f \in free : /\ \A g \in free : f <= g
                                                      /\ a \in f .. f + count - 1}
<1>1. /\ nodes' = [n \in Ids |-> IF n \in new THEN Node("NEW") ELSE nodes[n]]
      /\ Blame("overwritten", \E n \in new : nodes[n].status # "GONE")
      /\ Called /\ UNCHANGED <<at, startVars, stopVars, procs, topology>>
  BY DEF AddAdditional
<1>2. new \subseteq Ids
  BY ConstantFacts
<1> HIDE DEF new
<1>3. /\ nodes' \in [Ids -> Row]
      /\ \A n \in Ids : nodes'[n] = IF n \in new THEN Node("NEW") ELSE nodes[n]
  BY <1>1, NodeFacts, RowFacts DEF NodeStatus
<1>4. Tame /\ Calm
  BY <1>3, NodeFacts, TableEffect
<1>5. CallTypes /\ at = "idle"
  BY <1>1, CalledFacts, BlameFacts DEF CallTypes, Mishap
<1>6. "overwritten" \notin mishaps' => \A n \in new : nodes[n].status = "GONE"
  BY <1>1 DEF Blame
<1> QED BY <1>1, <1>3, <1>4, <1>5, <1>6, SameProcs DEF AtOnce

LEMMA RemoveEffect ==
  ASSUME TypeOK, RemoveAdditional
  PROVE  /\ AtOnce /\ Calm /\ procs' = procs /\ mishaps' = mishaps
         /\ \A n \in Ids : nodes'[n] = nodes[n] \/ nodes[n].status = "KILLED"
<1>1. /\ nodes' \in [Ids -> Row]
      /\ \A n \in Ids : nodes'[n] = nodes[n] \/ (nodes'[n] = Node("GONE") /\ nodes[n].status = "KILLED")
  BY NodeFacts, RowFacts DEF RemoveAdditional, NodeStatus
<1>2. Tame /\ Calm
  BY <1>1, NodeFacts, TableEffect
<1>3. at = "idle" /\ calls' \in 0 .. MaxCalls
  BY CalledFacts DEF RemoveAdditional
<1> QED BY <1>1, <1>2, <1>3, SameProcs DEF RemoveAdditional, AtOnce, CallTypes, TypeOK

LEMMA ResetEffect ==
  ASSUME TypeOK, NEW hard \in BOOLEAN, Reset(hard)
  PROVE  /\ AtOnce /\ Calm /\ procs' = procs
         /\ "forced" \in mishaps' \/ ~ HasProcess(Ids)
              \/ \A n \in Ids : /\ nodes'[n].status = nodes[n].status
                                /\ nodes'[n].pid = nodes[n].pid
<1>1. ASSUME NEW n \in Ids
      PROVE  /\ nodes'[n] \in Row
             /\ \/ nodes'[n] = nodes[n]
                \/ nodes'[n] = [nodes[n] EXCEPT !.log = NoProc]
                \/ /\ hard /\ nodes'[n].status = "KILLED"
                   /\ nodes'[n].pid = NoProc /\ nodes'[n].log = NoProc
             /\ ~ hard => nodes'[n].status = nodes[n].status /\ nodes'[n].pid = nodes[n].pid
  <2>0. nodes[n] \in Row
    BY RowFacts
  <2>1. CASE n \notin Present
    <3>1. nodes'[n] = nodes[n]
      BY <2>1 DEF Reset
    <3> QED BY <2>0, <3>1
  <2>2. CASE n \in Present /\ hard
    <3>1. nodes'[n] = [Deleted(nodes[n]) EXCEPT !.log = NoProc]
      BY <2>2 DEF Reset
    <3> QED BY <2>0, <2>2, <3>1 DEF Row, Deleted, NodeStatus
  <2>3. CASE n \in Present /\ ~ hard
    <3>1. nodes'[n] = [nodes[n] EXCEPT !.log = NoProc]
      BY <2>3 DEF Reset
    <3> QED BY <2>0, <2>3, <3>1 DEF Row
  <2> QED BY <2>1, <2>2, <2>3
<1>2. nodes' \in [Ids -> Row]
  BY <1>1 DEF Reset
<1>3. Tame /\ Calm
  BY <1>1, <1>2, TableEffect
<1>4. /\ CallTypes /\ at = "idle" /\ UNCHANGED <<at, startVars, stopVars, procs, topology>>
      /\ hard /\ HasProcess(Ids) => "forced" \in mishaps'
  BY CalledFacts, BlameFacts DEF Reset, CallTypes, Mishap
<1> QED BY <1>1, <1>3, <1>4, SameProcs DEF AtOnce

-----------------------------------------------------------------------------
\* What a start changes.

LEMMA AliveAfter ==
  ASSUME TypeOK, NEW S \in SUBSET Ids, Launches(S, nodes)
  PROVE  /\ AliveNodes' = AliveNodes \ S /\ AliveIn(nodes') = AliveNodes'
         /\ Cardinality(AliveNodes' \cup S) = Cardinality(AliveNodes') + Cardinality(S)
<1>1. AliveNodes' = AliveNodes \ S /\ AliveIn(nodes') = AliveNodes'
  BY DEF Launches, AliveNodes, AliveIn
<1>2. AliveNodes \ S \in SUBSET Ids /\ (AliveNodes \ S) \cap S = {}
  BY DEF AliveNodes, AliveIn
<1>3. Cardinality((AliveNodes \ S) \cup S) = Cardinality(AliveNodes \ S) + Cardinality(S)
  BY <1>2, UnionCount
<1> QED BY <1>1, <1>3

\* A start that waits, for the nodes that are started and its own.
Starts(S) ==
  /\ Launches(S, nodes)
  /\ at \in {"idle", "launch"} /\ at' = "wait"
  /\ CallTypes /\ UNCHANGED <<stopVars, topology>>
  /\ started' = started \cup S
  /\ expect' = Cardinality(AliveNodes' \cup started')
  /\ rest' = {} \/ /\ started' = {Coordinator} /\ rest' = Default \ {Coordinator}
                   /\ AliveNodes' = {}

\* The nodes of S may be launched over processes that run; none of the others is touched.
LEMMA StartNodeEffect ==
  ASSUME TypeOK, ProcsOK, CallOK, NEW n \in Ids, NEW force \in BOOLEAN, NEW skip \in BOOLEAN,
         StartNode(n, force, skip)
  PROVE  /\ at = "idle"
         /\ nodes[n].status = "STARTED" => mishaps' # {}
         /\ \/ Starts({n})
            \/ /\ Launches({n}, nodes) /\ CallTypes /\ "unchecked" \in mishaps'
               /\ UNCHANGED <<at, startVars, stopVars, topology>>
<1>1. Launches({n}, nodes)
  BY LaunchEffect, RowFacts DEF StartNode
<1>2. at = "idle" /\ calls' \in 0 .. MaxCalls /\ UNCHANGED <<stopVars, topology>>
  BY CalledFacts DEF StartNode
<1>3. started = {}
  BY <1>2 DEF CallOK, InStart
<1>4. CASE skip
  <2>1. CallTypes /\ "unchecked" \in mishaps' /\ UNCHANGED <<at, startVars>>
    BY <1>2, <1>4, BlameFacts DEF StartNode, CallTypes, Mishap
  <2> QED BY <1>1, <1>2, <2>1
<1>5. CASE ~ skip
  <2>1. /\ WaitFor(Cardinality(AliveIn(nodes')) + 1, {n}, {})
        /\ Blame("forced", nodes[n].status = "STARTED")
    BY <1>5 DEF StartNode
  <2>2. CallTypes /\ (nodes[n].status = "STARTED" => mishaps' # {})
    BY <1>2, <2>1, BlameFacts DEF CallTypes, Mishap
  <2>3. Cardinality({n}) = 1
    BY FS_Singleton
  <2>4. expect' = Cardinality(AliveNodes' \cup {n}) /\ started' = {n} /\ rest' = {} /\ at' = "wait"
    BY <1>1, <2>1, <2>3, AliveAfter DEF WaitFor
  <2> QED BY <1>1, <1>2, <1>3, <2>2, <2>4 DEF Starts
<1> QED BY <1>4, <1>5

LEMMA StartNodesEffect ==
  ASSUME TypeOK, ProcsOK, CallOK, NEW S \in SUBSET Ids, NEW force \in BOOLEAN,
         StartNodes(S, force)
  PROVE  \E T \in SUBSET S :
           /\ Starts(T) /\ at = "idle"
           /\ \A n \in T : nodes[n].status # "STARTED" \/ ~ HasProcess(S) \/ mishaps' # {}
<1> DEFINE table   == [n \in Ids |-> IF force /\ n \in S
                                     THEN [nodes[n] EXCEPT !.status = "KILLED"] ELSE nodes[n]]
           toStart == {n \in S : table[n].status \in {"NEW", "KILLED", "KILLING"}}
<1>1. /\ Called /\ Launch(toStart, table)
      /\ WaitFor(Cardinality(AliveIn(table)) + Cardinality(toStart), toStart, {})
      /\ Blame("forced", force /\ HasProcess(S))
      /\ UNCHANGED <<stopVars, topology>>
  BY DEF StartNodes
<1>2. ASSUME NEW n \in Ids
      PROVE  /\ table[n] \in Row /\ table[n].pid = nodes[n].pid
             /\ force /\ n \in S => table[n].status = "KILLED"
             /\ ~ (force /\ n \in S) => table[n] = nodes[n]
  <2>1. nodes[n] \in Row
    BY RowFacts
  <2> QED BY <2>1 DEF Row, NodeStatus
<1>3. table \in [Ids -> Row]
  BY <1>2
<1>4. \A n \in Ids : n \in toStart <=> /\ n \in S
                                       /\ force \/ nodes[n].status \in {"NEW", "KILLED", "KILLING"}
  BY <1>2
<1>5. toStart \in SUBSET S /\ toStart \in SUBSET Ids
  OBVIOUS
<1>5a. \A n \in toStart : table[n].status # "STARTED"
  OBVIOUS
<1> HIDE DEF table, toStart
<1>6. \A n \in Ids \ toStart : table[n] = nodes[n]
  BY <1>2, <1>4
<1>7. Launches(toStart, table)
  BY <1>1, <1>3, <1>5, LaunchEffect
<1>8. Launches(toStart, nodes)
  BY <1>2, <1>5, <1>6, <1>7 DEF Launches
<1>9. AliveIn(table) = AliveNodes'
  <2>1. \A n \in Ids : table[n].status = "STARTED" <=> nodes'[n].status = "STARTED"
    BY <1>5, <1>5a, <1>6, <1>8 DEF Launches
  <2> QED BY <2>1 DEF AliveNodes, AliveIn
<1>10. /\ expect' = Cardinality(AliveNodes' \cup toStart) /\ started' = toStart
       /\ rest' = {} /\ at' = "wait"
  BY <1>1, <1>5, <1>8, <1>9, AliveAfter DEF WaitFor
<1>11. at = "idle" /\ started = {} /\ CallTypes
  <2>1. at = "idle" /\ calls' \in 0 .. MaxCalls
    BY <1>1, CalledFacts
  <2>2. mishaps \subseteq mishaps' /\ mishaps' \subseteq Mishap
    BY <1>1, BlameFacts DEF Mishap
  <2> QED BY <2>1, <2>2 DEF CallTypes, CallOK, InStart
<1>12. Starts(toStart)
  BY <1>1, <1>8, <1>10, <1>11 DEF Starts
<1>13. force /\ HasProcess(S) => mishaps' # {}
  BY <1>1, BlameFacts DEF Mishap
<1>14. \A n \in toStart : nodes[n].status # "STARTED" \/ ~ HasProcess(S) \/ mishaps' # {}
  BY <1>4, <1>5, <1>13
<1> QED BY <1>5, <1>11, <1>12, <1>14

LEMMA StartGridEffect ==
  ASSUME TypeOK, ProcsOK, CallOK, StartGrid
  PROVE  Starts({Coordinator}) /\ at = "idle" /\ AliveNodes = {}
<1>1. {Coordinator} \in SUBSET Ids /\ Cardinality({Coordinator}) = 1
  BY ConstantFacts, FS_Singleton
<1>2. Launches({Coordinator}, nodes)
  BY <1>1, LaunchEffect, RowFacts DEF StartGrid
<1>3. at = "idle" /\ started = {} /\ CallTypes
  BY CalledFacts DEF StartGrid, CallTypes, CallOK, InStart, TypeOK
<1>4. AliveNodes' = {} /\ AliveNodes = {}
  BY <1>1, <1>2, AliveAfter DEF StartGrid
<1>5. /\ expect' = 1 /\ started' = {Coordinator} /\ at' = "wait"
      /\ rest' = Default \ {Coordinator} /\ UNCHANGED <<stopVars, topology>>
  BY DEF StartGrid, WaitFor
<1>6. expect' = Cardinality(AliveNodes' \cup started')
  BY <1>1, <1>4, <1>5
<1> QED BY <1>2, <1>3, <1>4, <1>5, <1>6 DEF Starts

LEMMA LaunchRestEffect ==
  ASSUME TypeOK, ProcsOK, CallOK, LaunchRest
  PROVE  /\ Starts(rest) /\ at = "launch" /\ started = {Coordinator} /\ AliveNodes = {}
         /\ Coordinator \notin rest /\ rest \in SUBSET Ids /\ mishaps' = mishaps
<1>1. /\ at = "launch" /\ started = {Coordinator} /\ AliveNodes = {}
      /\ rest = Default \ {Coordinator}
  BY DEF LaunchRest, CallOK
<1>2. rest \in SUBSET Ids /\ {Coordinator} \in SUBSET Ids /\ {Coordinator} \cap rest = {}
  BY <1>1, ConstantFacts
<1>3. Launches(rest, nodes)
  BY <1>2, LaunchEffect, RowFacts DEF LaunchRest
<1>4. AliveNodes' = {}
  BY <1>1, <1>2, <1>3, AliveAfter
<1>5. Cardinality({Coordinator} \cup rest) = 1 + Cardinality(rest)
  BY <1>2, UnionCount, FS_Singleton
<1>6. /\ expect' = 1 + Cardinality(rest) /\ started' = started \cup rest /\ at' = "wait"
      /\ rest' = {} /\ UNCHANGED <<calls, stopVars, topology, mishaps>>
  BY DEF LaunchRest, WaitFor
<1>7. expect' = Cardinality(AliveNodes' \cup started')
  BY <1>1, <1>4, <1>5, <1>6
<1> QED BY <1>1, <1>2, <1>3, <1>6, <1>7 DEF Starts, CallTypes, TypeOK

LEMMA StartAdditionalEffect ==
  ASSUME TypeOK, ProcsOK, CallOK, NEW S \in SUBSET Additional, StartAdditional(S)
  PROVE  \E T \in SUBSET S :
           Starts(T) /\ at = "idle" /\ \A n \in T : nodes[n].status # "STARTED"
<1> DEFINE toStart == {n \in S : nodes[n].status # "STARTED"}
<1>1. /\ Called /\ Launch(toStart, nodes)
      /\ WaitFor(Cardinality(AliveIn(nodes')) + Cardinality(toStart), toStart, {})
      /\ UNCHANGED <<stopVars, topology, mishaps>>
  BY DEF StartAdditional
<1>2. /\ toStart \in SUBSET S /\ toStart \in SUBSET Ids
      /\ \A n \in toStart : nodes[n].status # "STARTED"
  BY ConstantFacts
<1> HIDE DEF toStart
<1>3. Launches(toStart, nodes)
  BY <1>1, <1>2, LaunchEffect, RowFacts
<1>4. /\ expect' = Cardinality(AliveNodes' \cup toStart) /\ started' = toStart
      /\ rest' = {} /\ at' = "wait"
  BY <1>1, <1>2, <1>3, AliveAfter DEF WaitFor
<1>5. at = "idle" /\ started = {} /\ CallTypes
  BY <1>1, CalledFacts DEF CallTypes, CallOK, InStart, TypeOK
<1>6. Starts(toStart)
  BY <1>1, <1>3, <1>4, <1>5 DEF Starts
<1> QED BY <1>2, <1>5, <1>6

-----------------------------------------------------------------------------
\* What the steps of a call that goes on change.

LEMMA ReturnFacts ==
  ASSUME TypeOK, Return
  PROVE  /\ at' = "idle" /\ expect' = 0 /\ started' = {} /\ rest' = {}
         /\ victims' = {} /\ pids' = {} /\ owed' = {} /\ calls' \in 0 .. MaxCalls
BY DEF Return, TypeOK

\* The PIDs that grep_log finds are of the logs, and a process that logged a snapshot has
\* written its PID before.
LEMMA GrepFacts ==
  ASSUME TypeOK, NEW S, Grep(S)
  PROVE  /\ Tame
         /\ \A n \in Ids : nodes'[n].log = nodes[n].log
         /\ \A n \in Ids : /\ nodes[n].status \in {"STARTED", "STARTING"}
                           /\ nodes[n].log \in Heard
                           => /\ nodes[n].log # NoProc /\ nodes'[n].pid = nodes[n].log
         /\ \A n \in Ids : nodes'[n].status =
              IF nodes[n].status \in {"STARTED", "STARTING"} /\ n \in S THEN "STARTED"
              ELSE nodes[n].status
         /\ \A n \in Ids : nodes[n].status \in {"STARTED", "STARTING"} => nodes[n].log # NoProc
<1>1. PICK silent \in SUBSET {p \in Proc : procs[p].seen = NoSnapshot} :
        nodes' = [n \in Ids |->
          IF nodes[n].status \notin {"STARTED", "STARTING"} THEN nodes[n]
          ELSE [nodes[n] EXCEPT
                 !.pid    = IF nodes[n].log \in silent THEN NoProc ELSE nodes[n].log,
                 !.status = IF n \in S THEN "STARTED" ELSE @]]
  BY DEF Grep
<1>2. ASSUME NEW n \in Ids, nodes[n].status \notin {"STARTED", "STARTING"}
      PROVE  nodes'[n] = nodes[n]
  BY <1>1, <1>2
<1>3. ASSUME NEW n \in Ids, nodes[n].status \in {"STARTED", "STARTING"}
      PROVE  /\ nodes'[n] \in Row /\ nodes'[n].log = nodes[n].log
             /\ nodes'[n].pid = IF nodes[n].log \in silent THEN NoProc ELSE nodes[n].log
             /\ nodes'[n].status = IF n \in S THEN "STARTED" ELSE nodes[n].status
  <2>1. nodes[n] \in Row
    BY RowFacts
  <2>2. nodes'[n] = [nodes[n] EXCEPT
                      !.pid    = IF nodes[n].log \in silent THEN NoProc ELSE nodes[n].log,
                      !.status = IF n \in S THEN "STARTED" ELSE @]
    BY <1>1, <1>3
  <2> QED BY <2>1, <2>2 DEF Row, NodeStatus
<1>4. nodes' \in [Ids -> Row]
  BY <1>1, <1>2, <1>3, RowFacts
<1>5. Tame
  BY <1>2, <1>3, <1>4 DEF Tame
<1>6. \A n \in Ids : nodes[n].status \in {"STARTED", "STARTING"} => nodes[n].log # NoProc
  BY DEF Grep
<1>7. \A p \in Heard : p \notin silent
  BY <1>1 DEF Heard
<1> QED BY <1>2, <1>3, <1>5, <1>6, <1>7

LEMMA UpdateEffect ==
  ASSUME TypeOK, NEW n \in Ids, UpdateStartedNodeStatus(n)
  PROVE  AtOnce /\ procs' = procs /\ nodes[n].status = "STARTING"
<1>1. at = "idle" /\ calls' \in 0 .. MaxCalls
  BY CalledFacts DEF UpdateStartedNodeStatus
<1>2. Tame
  BY GrepFacts DEF UpdateStartedNodeStatus
<1> QED BY <1>1, <1>2, SameProcs DEF UpdateStartedNodeStatus, AtOnce, CallTypes, TypeOK

LEMMA PollEffect ==
  ASSUME TypeOK, Poll
  PROVE  /\ at = "poll" /\ Tame /\ Calm /\ CallTypes /\ procs' = procs /\ topology' = topology
         /\ \A n \in Ids : /\ nodes'[n].pid \in {nodes[n].pid, NoProc}
                           /\ nodes'[n] = nodes[n] \/ (n \in victims /\ nodes[n].pid # NoProc)
         /\ \/ UNCHANGED <<at, startVars, stopVars>>
            \/ Return /\ ((\A p \in pids : ~ Running(p)) \/ "late" \in mishaps')
<1>1. ASSUME NEW n \in Ids
      PROVE  /\ nodes'[n] \in Row
             /\ \/ nodes'[n] = nodes[n]
                \/ /\ n \in victims /\ nodes[n].pid # NoProc
                   /\ nodes'[n].status = "KILLED"
                   /\ nodes'[n].pid = NoProc /\ nodes'[n].log = nodes[n].log
  <2>1. nodes'[n] = IF n \in victims /\ nodes[n].pid # NoProc
                    THEN Deleted(nodes[n]) ELSE nodes[n]
    BY DEF Poll
  <2> QED BY <2>1, RowFacts, NodeFacts
<1>2. nodes' \in [Ids -> Row]
  BY <1>1 DEF Poll
<1>0. at = "poll" /\ UNCHANGED <<procs, topology>>
  BY DEF Poll
<1>3. Tame /\ Calm
  BY <1>1, <1>2, TableEffect
<1>4. CallTypes /\ \/ UNCHANGED <<at, startVars, stopVars>>
                   \/ Return /\ (~ (\E p \in pids : Running(p)) \/ "late" \in mishaps')
  <2>0. \/ UNCHANGED <<calls, at, startVars, stopVars, mishaps>>
        \/ Return /\ Blame("late", \E p \in pids : Running(p))
    BY DEF Poll
  <2>1. CASE UNCHANGED <<calls, at, startVars, stopVars, mishaps>>
    BY <2>1 DEF CallTypes, TypeOK
  <2>2. CASE Return /\ Blame("late", \E p \in pids : Running(p))
    <3>1. CallTypes
      BY <2>2, ReturnFacts, BlameFacts DEF CallTypes, Mishap
    <3>2. (\E p \in pids : Running(p)) => "late" \in mishaps'
      BY <2>2 DEF Blame
    <3> QED BY <2>2, <3>1, <3>2
  <2> QED BY <2>0, <2>1, <2>2
<1>5. ~ (\E p \in pids : Running(p)) => \A p \in pids : ~ Running(p)
  OBVIOUS
<1> QED BY <1>0, <1>1, <1>3, <1>4, <1>5

LEMMA PollRaisesEffect ==
  ASSUME TypeOK, PollRaises
  PROVE  /\ Return /\ CallTypes /\ "remote" \in mishaps' /\ UNCHANGED <<nodes, procs, topology>>
BY ReturnFacts, BlameFacts DEF PollRaises, CallTypes, Mishap

LEMMA StartFailsEffect ==
  ASSUME TypeOK, StartFails
  PROVE  /\ Return /\ CallTypes /\ "failed" \in mishaps' /\ UNCHANGED <<nodes, procs, topology>>
BY ReturnFacts, BlameFacts DEF StartFails, CallTypes, Mishap

-----------------------------------------------------------------------------
\* The kinds of step.

\* The nodes of S are launched; when nothing went wrong, over no process that runs.
Launching(S) ==
  /\ Launches(S, nodes) /\ CallTypes /\ UNCHANGED <<stopVars, topology>>
  /\ Starts(S) \/ (/\ at = "idle" /\ "unchecked" \in mishaps'
                   /\ UNCHANGED <<at, startVars>>)
  /\ mishaps' = {} => \A p \in Proc : Free(p) => procs[p].owner \notin S

\* A call that returns at once; when nothing went wrong, the table knows what runs.
Settling ==
  /\ AtOnce
  /\ Calm \/ \E n \in Ids : nodes[n].status = "STARTING"
  /\ mishaps' = {} => \A p \in Proc : Free(p)' =>
                        \A n \in Ids : n = procs[p].owner =>
                          nodes'[n].status = "STARTED" /\ nodes'[n].pid = p

Stopping(S) ==
  /\ at = "idle" /\ CallTypes /\ SameLives /\ Tame /\ Calm
  /\ UNCHANGED <<startVars, topology>>
  /\ \A m \in Ids : nodes'[m].pid = nodes[m].pid
  /\ \A m \in Ids \ S : nodes'[m] = nodes[m]
  /\ at' = "poll" /\ victims' = S /\ pids' = PidsOf(S)
  /\ owed' = {p \in Proc : Free(p) /\ procs[p].owner \in S}

Ending ==
  /\ Return /\ CallTypes /\ UNCHANGED <<nodes, procs, topology>>
  /\ \/ "failed" \in mishaps'
     \/ at = "poll" /\ "remote" \in mishaps'

\* Between two calls, and when nothing went wrong, the table knows what runs.
LEMMA IdleKnown ==
  ASSUME NInv, at = "idle", mishaps = {}, NEW p \in Proc, Free(p),
         NEW n \in Ids, n = procs[p].owner
  PROVE  nodes[n].status = "STARTED" /\ nodes[n].pid = p
BY DEF NInv, KnownOK, Known, InStart

LEMMA SettlingFacts ==
  ASSUME NInv, AtOnce, Calm,
         ASSUME NEW p \in Proc, NEW n \in Ids, mishaps = {}, mishaps' = {},
                n = procs[p].owner, nodes[n].status = "STARTED", nodes[n].pid = p,
                Free(p), Free(p)'
         PROVE  nodes'[n].status = "STARTED" /\ nodes'[n].pid = p
  PROVE  Settling
<1> SUFFICES ASSUME mishaps' = {}, NEW p \in Proc, Free(p)', NEW n \in Ids, n = procs[p].owner
             PROVE  nodes'[n].status = "STARTED" /\ nodes'[n].pid = p
  BY DEF Settling
<1>1. mishaps = {} /\ at = "idle" /\ Free(p)
  BY DEF AtOnce, CallTypes, SameLives
<1>2. nodes[n].status = "STARTED" /\ nodes[n].pid = p
  BY <1>1, IdleKnown
<1> QED BY <1>1, <1>2

LEMMA KillNodeSettles ==
  ASSUME NInv, NEW n \in Ids, NEW lost \in BOOLEAN, NEW ignore \in BOOLEAN,
         KillNode(n, lost, ignore)
  PROVE  Settling
<1>1. AtOnce /\ Calm
  BY KillNodeEffect DEF NInv
<1>2. ASSUME NEW p \in Proc, NEW m \in Ids, mishaps' = {}, m = procs[p].owner,
             nodes[m].status = "STARTED", nodes[m].pid = p, Free(p)'
      PROVE  nodes'[m].status = "STARTED" /\ nodes'[m].pid = p
  <2>1. m # n
    BY <1>2, KillNodeEffect DEF NInv
  <2> QED BY <1>2, <2>1, KillNodeEffect DEF NInv
<1> QED BY <1>1, <1>2, SettlingFacts

LEMMA KillNodesSettles ==
  ASSUME NInv, NEW S \in SUBSET Ids, NEW lost \in BOOLEAN, KillNodes(S, lost)
  PROVE  Settling
<1>1. AtOnce /\ Calm
  BY KillNodesEffect DEF NInv
<1>2. lost => "remote" \in mishaps'
  BY KillNodesEffect DEF NInv
<1>3. \A m \in Ids \ S : nodes'[m] = nodes[m]
  BY KillNodesEffect DEF NInv
<1>4. ~ lost => \A p \in PidsOf(S) : ~ Free(p)'
  BY KillNodesEffect DEF NInv
<1>5. ASSUME NEW p \in Proc, NEW m \in Ids, mishaps' = {}, m = procs[p].owner,
             nodes[m].status = "STARTED", nodes[m].pid = p, Free(p)'
      PROVE  nodes'[m].status = "STARTED" /\ nodes'[m].pid = p
  <2>1. m \in S => p \in PidsOf(S)
    BY <1>5, ConstantFacts DEF PidsOf
  <2>2. m \notin S
    BY <1>2, <1>4, <1>5, <2>1
  <2> QED BY <1>3, <1>5, <2>2
<1> QED BY <1>1, <1>5, SettlingFacts

LEMMA CheckSettles ==
  ASSUME NInv, NEW n \in Ids, CheckNodeStatus(n)
  PROVE  Settling
<1>1. AtOnce /\ Calm
  BY CheckEffect DEF NInv
<1>2. ~ Running(nodes[n].pid) /\ \A m \in Ids \ {n} : nodes'[m] = nodes[m]
  BY CheckEffect DEF NInv
<1>3. ASSUME NEW p \in Proc, NEW m \in Ids, m = procs[p].owner,
             nodes[m].status = "STARTED", nodes[m].pid = p, Free(p)
      PROVE  nodes'[m].status = "STARTED" /\ nodes'[m].pid = p
  BY <1>2, <1>3 DEF Free
<1> QED BY <1>1, <1>3, SettlingFacts

LEMMA AddSettles ==
  ASSUME NInv, NEW count \in 1 .. Cardinality(Additional), AddAdditional(count)
  PROVE  Settling
<1>1. AtOnce /\ Calm
  BY AddEffect DEF NInv
<1>2. "overwritten" \notin mishaps' =>
        \A n \in Ids : nodes'[n] = nodes[n] \/ nodes[n].status = "GONE"
  BY AddEffect DEF NInv
<1> QED BY <1>1, <1>2, SettlingFacts

LEMMA RemoveSettles ==
  ASSUME NInv, RemoveAdditional
  PROVE  Settling
<1>1. AtOnce /\ Calm
  BY RemoveEffect DEF NInv
<1>2. \A n \in Ids : nodes'[n] = nodes[n] \/ nodes[n].status = "KILLED"
  BY RemoveEffect DEF NInv
<1> QED BY <1>1, <1>2, SettlingFacts

LEMMA ResetSettles ==
  ASSUME NInv, NEW hard \in BOOLEAN, Reset(hard)
  PROVE  Settling
<1>1. AtOnce /\ Calm
  BY ResetEffect DEF NInv
<1>2. \/ "forced" \in mishaps'
      \/ ~ HasProcess(Ids)
      \/ \A n \in Ids : /\ nodes'[n].status = nodes[n].status
                        /\ nodes'[n].pid = nodes[n].pid
  BY ResetEffect DEF NInv
<1>3. ~ HasProcess(Ids) => \A p \in Proc : Free(p) => procs[p].owner \notin Ids
  BY DEF HasProcess
<1> QED BY <1>1, <1>2, <1>3, SettlingFacts

LEMMA UpdateSettles ==
  ASSUME NInv, NEW n \in Ids, UpdateStartedNodeStatus(n)
  PROVE  Settling
<1>1. AtOnce /\ nodes[n].status = "STARTING"
  BY UpdateEffect DEF NInv
<1>2. ~ InStart
  BY <1>1 DEF AtOnce, InStart
<1>3. mishaps # {}
  BY <1>1, <1>2 DEF NInv, CountOK, Checked
<1> QED BY <1>1, <1>3 DEF Settling, AtOnce, CallTypes

LEMMA StartNodeLaunches ==
  ASSUME NInv, NEW n \in Ids, NEW force \in BOOLEAN, NEW skip \in BOOLEAN,
         StartNode(n, force, skip)
  PROVE  Launching({n})
<1>1. at = "idle" /\ (nodes[n].status = "STARTED" => mishaps' # {})
  BY StartNodeEffect DEF NInv
<1>2. \/ Starts({n})
      \/ /\ Launches({n}, nodes) /\ CallTypes /\ "unchecked" \in mishaps'
         /\ UNCHANGED <<at, startVars, stopVars, topology>>
  BY StartNodeEffect DEF NInv
<1>3. mishaps \subseteq mishaps'
  BY <1>2 DEF Starts, CallTypes
<1>4. mishaps' = {} => \A p \in Proc : Free(p) => procs[p].owner # n
  BY <1>1, <1>3, IdleKnown
<1> QED BY <1>1, <1>2, <1>4 DEF Launching, Starts

LEMMA StartsLaunches ==
  ASSUME NInv, NEW S \in SUBSET Ids, Starts(S), at = "idle",
         \/ \A n \in S : nodes[n].status # "STARTED" \/ mishaps' # {}
         \/ ~ HasProcess(S)
  PROVE  Launching(S)
<1>1. mishaps \subseteq mishaps'
  BY DEF Starts, CallTypes
<1>2. ASSUME mishaps' = {}, NEW p \in Proc, Free(p)
      PROVE  procs[p].owner \notin S
  <2>1. CASE \A n \in S : nodes[n].status # "STARTED" \/ mishaps' # {}
    BY <1>1, <1>2, <2>1, IdleKnown
  <2>2. CASE ~ HasProcess(S)
    BY <1>2, <2>2 DEF HasProcess
  <2> QED BY <2>1, <2>2
<1> QED BY <1>2 DEF Launching, Starts

LEMMA StartNodesLaunches ==
  ASSUME NInv, NEW S \in SUBSET Ids, NEW force \in BOOLEAN, StartNodes(S, force)
  PROVE  \E T \in SUBSET Ids : Launching(T)
<1>1. PICK T \in SUBSET S :
        /\ Starts(T) /\ at = "idle"
        /\ \A n \in T : nodes[n].status # "STARTED" \/ ~ HasProcess(S) \/ mishaps' # {}
  BY StartNodesEffect DEF NInv
<1>2. ~ HasProcess(S) => ~ HasProcess(T)
  BY DEF HasProcess
<1>3. Launching(T)
  BY <1>1, <1>2, StartsLaunches
<1> QED BY <1>3

LEMMA StartGridLaunches ==
  ASSUME NInv, StartGrid
  PROVE  Launching({Coordinator})
<1>1. Starts({Coordinator}) /\ at = "idle" /\ AliveNodes = {}
  BY StartGridEffect DEF NInv
<1>2. \A n \in {Coordinator} : nodes[n].status # "STARTED"
  BY <1>1, ConstantFacts DEF AliveNodes, AliveIn
<1> QED BY <1>1, <1>2, StartsLaunches, ConstantFacts

LEMMA StartAdditionalLaunches ==
  ASSUME NInv, NEW S \in SUBSET Additional, StartAdditional(S)
  PROVE  \E T \in SUBSET Ids : Launching(T)
<1>1. PICK T \in SUBSET S :
        Starts(T) /\ at = "idle" /\ \A n \in T : nodes[n].status # "STARTED"
  BY StartAdditionalEffect DEF NInv
<1>2. Launching(T)
  BY <1>1, StartsLaunches, ConstantFacts
<1> QED BY <1>1, <1>2, ConstantFacts

LEMMA LaunchRestLaunches ==
  ASSUME NInv, LaunchRest
  PROVE  Launching(rest) /\ rest \in SUBSET Ids
<1>1. /\ Starts(rest) /\ at = "launch" /\ started = {Coordinator} /\ AliveNodes = {}
      /\ Coordinator \notin rest /\ rest \in SUBSET Ids /\ mishaps' = mishaps
  BY LaunchRestEffect DEF NInv
<1>2. ASSUME mishaps' = {}, NEW p \in Proc, Free(p)
      PROVE  procs[p].owner \notin rest
  <2>1. Known(p) /\ procs[p].owner \in Ids
    BY <1>1, <1>2, RowFacts DEF NInv, KnownOK
  <2>2. nodes[procs[p].owner].status # "STARTED"
    BY <1>1, <2>1 DEF AliveNodes, AliveIn
  <2> QED BY <1>1, <2>1, <2>2 DEF Known
<1> QED BY <1>1, <1>2 DEF Launching, Starts

LEMMA Kinds ==
  ASSUME NInv, [Next]_vars
  PROVE  \/ UNCHANGED vars
         \/ Proceeds
         \/ \E S \in SUBSET Ids : Launching(S)
         \/ Settling
         \/ \E S \in SUBSET Ids : Stopping(S)
         \/ Ending
         \/ Poll
         \/ WaitFound
         \/ Record
<1>1. ASSUME NEW S \in SUBSET Ids, NEW signal \in {"TERM", "KILL"}, NEW lost \in BOOLEAN,
             StopNodes(S, signal, lost)
      PROVE  Stopping(S) \/ Settling
  <2>1. /\ at = "idle" /\ CallTypes /\ SameLives /\ Tame /\ Calm
        /\ UNCHANGED <<startVars, topology>>
        /\ \A m \in Ids : nodes'[m].pid = nodes[m].pid
        /\ \A m \in Ids \ S : nodes'[m] = nodes[m]
        /\ \/ /\ ~ lost /\ at' = "poll" /\ victims' = S /\ pids' = PidsOf(S)
              /\ owed' = {p \in Proc : Free(p) /\ procs[p].owner \in S}
           \/ UNCHANGED <<at, stopVars>> /\ "remote" \in mishaps'
    BY <1>1, StopNodesEffect DEF NInv
  <2>2. CASE at' = "poll" /\ victims' = S /\ pids' = PidsOf(S)
             /\ owed' = {p \in Proc : Free(p) /\ procs[p].owner \in S}
    BY <2>1, <2>2 DEF Stopping
  <2>3. CASE UNCHANGED <<at, stopVars>> /\ "remote" \in mishaps'
    BY <2>1, <2>3 DEF Settling, AtOnce
  <2> QED BY <2>1, <2>2, <2>3
<1>2. ASSUME Calls
      PROVE  \/ \E S \in SUBSET Ids : Launching(S)
             \/ Settling
             \/ \E S \in SUBSET Ids : Stopping(S)
  <2>1. CASE \E n \in Ids, force, skip \in BOOLEAN : StartNode(n, force, skip)
    BY <2>1, StartNodeLaunches
  <2>2. CASE \E S \in SUBSET Ids, force \in BOOLEAN : StartNodes(S, force)
    BY <2>2, StartNodesLaunches
  <2>3. CASE StartGrid
    BY <2>3, StartGridLaunches, ConstantFacts
  <2>4. CASE \E S \in SUBSET Additional : StartAdditional(S)
    BY <2>4, StartAdditionalLaunches
  <2>5. CASE \E n \in Ids : UpdateStartedNodeStatus(n)
    BY <2>5, UpdateSettles
  <2>6. CASE \E n \in Ids, lost, ignore \in BOOLEAN : KillNode(n, lost, ignore)
    BY <2>6, KillNodeSettles
  <2>7. CASE \E S \in SUBSET Ids, lost \in BOOLEAN : KillNodes(S, lost)
    BY <2>7, KillNodesSettles
  <2>8. CASE \E S \in SUBSET Ids, signal \in {"TERM", "KILL"}, lost \in BOOLEAN :
               StopNodes(S, signal, lost)
    BY <2>8, <1>1
  <2>9. CASE \E n \in Ids : CheckNodeStatus(n)
    BY <2>9, CheckSettles
  <2>10. CASE \E count \in 1 .. Cardinality(Additional) : AddAdditional(count)
    BY <2>10, AddSettles
  <2>11. CASE RemoveAdditional
    BY <2>11, RemoveSettles
  <2>12. CASE \E hard \in BOOLEAN : Reset(hard)
    BY <2>12, ResetSettles
  <2> QED
    BY <1>2, <2>1, <2>2, <2>3, <2>4, <2>5, <2>6, <2>7, <2>8, <2>9, <2>10, <2>11, <2>12 DEF Calls
<1>3. ASSUME CallStep
      PROVE  \/ \E S \in SUBSET Ids : Launching(S)
             \/ Ending \/ Poll \/ WaitFound \/ Record
  <2>1. CASE LaunchRest
    BY <2>1, LaunchRestLaunches
  <2>2. CASE StartFails
    BY <2>2, StartFailsEffect DEF NInv, Ending
  <2>3. CASE PollRaises
    <3>1. at = "poll"
      BY <2>3 DEF PollRaises
    <3> QED BY <2>3, <3>1, PollRaisesEffect DEF NInv, Ending
  <2> QED BY <1>3, <2>1, <2>2, <2>3 DEF CallStep
<1>4. ASSUME Processes
      PROVE  Proceeds
  BY <1>4, ProcessesProceed DEF NInv
<1> QED BY <1>2, <1>3, <1>4 DEF Next, Stopped

-----------------------------------------------------------------------------
\* Every kind of step keeps each part of the invariant.

LEMMA LaunchingFacts ==
  ASSUME NEW S \in SUBSET Ids, Launching(S)
  PROVE  /\ Launches(S, nodes) /\ CallTypes /\ topology' = topology
         /\ UNCHANGED stopVars
         /\ \/ Starts(S) /\ at' = "wait" /\ InStart'
            \/ at = "idle" /\ "unchecked" \in mishaps' /\ UNCHANGED <<at, startVars>>
BY DEF Launching, Starts, InStart

LEMMA ProcsNext ==
  ASSUME NInv, [Next]_vars
  PROVE  ProcsOK'
<1>1. ASSUME SameLives, topology' = topology
      PROVE  ProcsOK'
  BY <1>1, SameLivesFacts DEF NInv
<1>2. ASSUME procs' = procs, topology' = topology
      PROVE  ProcsOK'
  BY <1>1, <1>2, SameProcs DEF NInv
<1>3. CASE UNCHANGED vars
  BY <1>2, <1>3 DEF vars
<1>4. CASE \E S \in SUBSET Ids : Launching(S)
  <2>1. PICK S \in SUBSET Ids : Launches(S, nodes) /\ topology' = topology
    BY <1>4, LaunchingFacts
  <2>2. /\ Born' \subseteq 1 .. Cardinality(Born') /\ Heard' = Heard
        /\ \A p \in Proc : procs'[p].state \in {"unborn", "booting"} => procs'[p].seen = NoSnapshot
    BY <2>1 DEF Launches
  <2> QED BY <2>1, <2>2 DEF NInv, ProcsOK
<1>5. CASE Settling
  BY <1>1, <1>5 DEF Settling, AtOnce
<1>6. CASE \E S \in SUBSET Ids : Stopping(S)
  BY <1>1, <1>6 DEF Stopping
<1>7. CASE Ending \/ WaitFound \/ Record
  BY <1>2, <1>7 DEF Ending, WaitFound, Record
<1>8. CASE Poll
  BY <1>2, <1>8 DEF Poll
<1>9. CASE Proceeds
  BY <1>9 DEF Proceeds
<1> QED BY Kinds, <1>3, <1>4, <1>5, <1>6, <1>7, <1>8, <1>9

LEMMA CallNext ==
  ASSUME NInv, [Next]_vars
  PROVE  CallOK'
<1>1. CASE UNCHANGED <<nodes, at, startVars, stopVars>>
  BY <1>1 DEF NInv, CallOK, InStart, AliveNodes, AliveIn, startVars, stopVars
<1>2. CASE \E S \in SUBSET Ids : Launching(S)
  <2>1. PICK S \in SUBSET Ids : Launching(S)
    BY <1>2
  <2>2. CASE Starts(S)
    <3>1. /\ at' = "wait" /\ started' = started \cup S /\ at \in {"idle", "launch"}
          /\ expect' = Cardinality(AliveNodes' \cup started')
          /\ rest' = {} \/ /\ started' = {Coordinator} /\ rest' = Default \ {Coordinator}
                           /\ AliveNodes' = {}
          /\ UNCHANGED <<victims, pids, owed>>
      BY <2>2 DEF Starts, stopVars
    <3>2. \A n \in started' : nodes'[n].status = "STARTING"
      BY <2>2, <3>1 DEF Starts, Launches, NInv, TypeOK, CallOK, InStart
    <3>3. victims = {} /\ pids = {} /\ owed = {}
      BY <3>1 DEF NInv, CallOK
    <3> QED BY <3>1, <3>2, <3>3 DEF CallOK, InStart
  <2>3. CASE at = "idle" /\ UNCHANGED <<at, startVars>>
    <3>1. UNCHANGED <<at, expect, started, rest, victims, pids, owed>>
      BY <2>1, <2>3, LaunchingFacts DEF startVars, stopVars
    <3> QED BY <2>3, <3>1 DEF NInv, CallOK, InStart
  <2> QED BY <2>1, <2>2, <2>3, LaunchingFacts
<1>3. CASE Settling
  <2>1. at = "idle" /\ UNCHANGED <<at, expect, started, rest, victims, pids, owed>>
    BY <1>3 DEF Settling, AtOnce, startVars, stopVars
  <2> QED BY <2>1 DEF NInv, CallOK, InStart
<1>4. CASE \E S \in SUBSET Ids : Stopping(S)
  <2>1. PICK S \in SUBSET Ids : Stopping(S)
    BY <1>4
  <2>2. /\ at = "idle" /\ at' = "poll" /\ UNCHANGED <<expect, started, rest>>
        /\ victims' = S /\ pids' = PidsOf(S)
        /\ \A n \in Ids : nodes'[n].pid = nodes[n].pid
    BY <2>1 DEF Stopping, startVars
  <2>3. \A n \in victims' : nodes'[n].pid \in pids' \cup {NoProc}
    BY <2>2 DEF PidsOf
  <2> QED BY <2>2, <2>3 DEF NInv, CallOK, InStart
<1>5. CASE Return
  BY <1>5 DEF Return, CallOK, InStart
<1>6. CASE Poll /\ UNCHANGED <<at, startVars, stopVars>>
  <2>1. at = "poll" /\ UNCHANGED <<at, expect, started, rest, victims, pids, owed>>
    BY <1>6 DEF Poll, startVars, stopVars
  <2>2. \A n \in Ids : nodes'[n].pid \in {nodes[n].pid, NoProc}
    BY <1>6, PollEffect DEF NInv
  <2>3. victims \subseteq Ids
    BY DEF NInv, TypeOK
  <2> QED BY <2>1, <2>2, <2>3 DEF NInv, CallOK, InStart
<1>7. CASE WaitFound
  <2>1. /\ at = "wait" /\ at' = IF rest = {} THEN "record" ELSE "launch"
        /\ UNCHANGED <<nodes, expect, started, rest, victims, pids, owed>>
    BY <1>7 DEF WaitFound, startVars, stopVars
  <2> QED BY <2>1 DEF NInv, CallOK, InStart, AliveNodes, AliveIn
<1>8. CASE Proceeds
  BY <1>1, <1>8 DEF Proceeds
<1>9. CASE UNCHANGED vars
  BY <1>1, <1>9 DEF vars
<1>10. CASE Ending \/ Record
  BY <1>5, <1>10 DEF Ending, Record
<1>11. CASE Poll
  BY <1>5, <1>6, <1>11, PollEffect DEF NInv
<1> QED BY Kinds, <1>2, <1>3, <1>4, <1>7, <1>8, <1>9, <1>10, <1>11

LEMMA TypeNext ==
  ASSUME NInv, [Next]_vars
  PROVE  TypeOK'
<1>0. calls \in 0 .. MaxCalls /\ mishaps \subseteq Mishap /\ TypeOK
  BY DEF NInv, TypeOK
<1>1. calls' \in 0 .. MaxCalls /\ mishaps' \subseteq Mishap
  <2>1. CASE CallTypes
    BY <2>1 DEF CallTypes
  <2>2. CASE UNCHANGED <<calls, mishaps>>
    BY <1>0, <2>2
  <2>3. CASE Record
    BY <1>0, <2>3, ReturnFacts DEF Record
  <2> QED BY Kinds, <1>0, <2>1, <2>2, <2>3, LaunchingFacts, PollEffect
          DEF vars, Proceeds, Settling, AtOnce, Stopping, Ending, WaitFound
<1>2. nodes' \in [Ids -> Row]
  <2>1. CASE Tame
    BY <2>1 DEF Tame
  <2>2. CASE nodes' = nodes
    BY <1>0, <2>2, RowFacts
  <2>3. CASE Record
    BY <1>0, <2>1, <2>3, GrepFacts DEF Record
  <2>4. CASE \E S \in SUBSET Ids : Launching(S)
    BY <2>4, LaunchingFacts DEF Launches
  <2> QED BY Kinds, <1>0, <2>1, <2>2, <2>3, <2>4, PollEffect
          DEF vars, Proceeds, Settling, AtOnce, Stopping, Ending, WaitFound
<1>3. procs' \in [Proc -> Life]
  <2>1. CASE SameLives
    BY <2>1 DEF SameLives
  <2>2. CASE procs' = procs
    BY <1>0, <2>2, RowFacts
  <2>3. CASE \E S \in SUBSET Ids : Launching(S)
    BY <2>3, LaunchingFacts DEF Launches
  <2> QED BY Kinds, <2>1, <2>2, <2>3
          DEF vars, Proceeds, Settling, AtOnce, Stopping, Ending, WaitFound, Poll, Record
<1>4. topology' \in [ver : 0 .. 2 * MaxProcs, members : SUBSET Proc]
  <2>1. CASE topology' = topology
    BY <1>0, <2>1 DEF TypeOK
  <2>2. CASE \E S \in SUBSET Ids : Launching(S)
    BY <2>1, <2>2, LaunchingFacts
  <2> QED BY Kinds, <2>1, <2>2
          DEF vars, Proceeds, Settling, AtOnce, Stopping, Ending, WaitFound, Poll, Record
<1>5. at' \in {"idle", "wait", "launch", "record", "poll"}
  <2>1. CASE Return \/ UNCHANGED at
    BY <1>0, <2>1 DEF Return, TypeOK
  <2>2. CASE \E S \in SUBSET Ids : Launching(S)
    BY <2>1, <2>2, LaunchingFacts
  <2>3. CASE Poll
    BY <1>0, <2>1, <2>3, PollEffect
  <2> QED BY Kinds, <2>1, <2>2, <2>3
          DEF vars, Proceeds, Settling, AtOnce, Stopping, Ending, WaitFound, Record
<1>6. started' \subseteq Ids /\ rest' \subseteq Default
  <2>1. CASE Return \/ UNCHANGED startVars
    BY <1>0, <2>1 DEF Return, TypeOK, startVars
  <2>2. CASE \E S \in SUBSET Ids : Starts(S)
    BY <1>0, <2>2 DEF Starts, TypeOK
  <2>3. CASE \E S \in SUBSET Ids : Launching(S)
    BY <2>1, <2>2, <2>3, LaunchingFacts
  <2>4. CASE Poll
    BY <1>0, <2>1, <2>4, PollEffect
  <2> QED BY Kinds, <2>1, <2>3, <2>4
          DEF vars, Proceeds, Settling, AtOnce, Stopping, Ending, WaitFound, Record
<1>7. victims' \subseteq Ids /\ pids' \subseteq Proc /\ owed' \subseteq Proc
  <2>1. CASE Return \/ UNCHANGED stopVars
    BY <1>0, <2>1 DEF Return, TypeOK, stopVars
  <2>2. CASE \E S \in SUBSET Ids : Stopping(S)
    BY <1>0, <2>2, PidsFacts DEF Stopping
  <2>3. CASE \E S \in SUBSET Ids : Launching(S)
    BY <2>1, <2>3, LaunchingFacts
  <2>4. CASE Poll
    BY <1>0, <2>1, <2>4, PollEffect
  <2> QED BY Kinds, <2>1, <2>2, <2>3, <2>4
          DEF vars, Proceeds, Settling, AtOnce, Ending, WaitFound, Record
<1>8. expect' \in 0 .. Cardinality(Present')
  <2>1. Present' \in SUBSET Ids /\ Cardinality(Present') \in Nat
    BY CountFacts DEF Present
  <2>2. CASE InStart'
    <3>1. /\ expect' = Cardinality(AliveNodes' \cup started')
          /\ \A n \in started' : nodes'[n].status = "STARTING"
      BY <2>2, CallNext DEF CallOK
    <3>2. AliveNodes' \cup started' \in SUBSET Present'
      BY <1>6, <3>1 DEF AliveNodes, AliveIn, Present
    <3>3. /\ IsFiniteSet(Present')
          /\ Cardinality(AliveNodes' \cup started') \in Nat
      BY <2>1, <3>2, CountFacts
    <3>4. Cardinality(AliveNodes' \cup started') <= Cardinality(Present')
      BY <3>2, <3>3, FS_Subset
    <3> QED BY <2>1, <3>1, <3>3, <3>4
  <2>3. CASE ~ InStart'
    BY <2>1, <2>3, CallNext DEF CallOK
  <2> QED BY <2>2, <2>3
<1> QED BY <1>1, <1>2, <1>3, <1>4, <1>5, <1>6, <1>7, <1>8 DEF TypeOK, Row, Life

LEMMA OwnNext ==
  ASSUME NInv, [Next]_vars
  PROVE  OwnOK'
<1>0. TypeOK /\ OwnOK
  BY DEF NInv
<1>1. CASE Tame /\ Born' = Born /\ \A p \in Proc : procs'[p].owner = procs[p].owner
  <2> SUFFICES ASSUME NEW n \in Ids, NEW p \in {nodes'[n].pid, nodes'[n].log} \ {NoProc}
               PROVE  p \in Born' /\ procs'[p].owner = n
    BY DEF OwnOK
  <2>1. p \in {nodes[n].pid, nodes[n].log} \ {NoProc}
    BY <1>1 DEF Tame
  <2>2. p \in Born /\ procs[p].owner = n
    BY <1>0, <2>1 DEF OwnOK
  <2> QED BY <1>1, <2>2 DEF Born
<1>2. CASE nodes' = nodes /\ Born' = Born /\ \A p \in Proc : procs'[p].owner = procs[p].owner
  <2>1. nodes' \in [Ids -> Row]
    BY <1>0, <1>2, RowFacts
  <2> QED BY <1>1, <1>2, <2>1 DEF Tame
<1>3. CASE \E S \in SUBSET Ids : Launching(S)
  <2>1. PICK S \in SUBSET Ids : Launches(S, nodes)
    BY <1>3, LaunchingFacts
  <2> SUFFICES ASSUME NEW n \in Ids, NEW p \in {nodes'[n].pid, nodes'[n].log} \ {NoProc}
               PROVE  p \in Born' /\ procs'[p].owner = n
    BY DEF OwnOK
  <2>2. ASSUME NEW q \in Born
        PROVE  q \in Born' /\ procs'[q].owner = procs[q].owner
    BY <2>1, <2>2 DEF Launches, Born
  <2>3. CASE p \in {nodes[n].pid, nodes[n].log}
    <3>1. p \in Born /\ procs[p].owner = n
      BY <1>0, <2>3 DEF OwnOK
    <3> QED BY <2>2, <3>1
  <2>4. CASE n \in S /\ p = nodes'[n].log
    BY <2>1, <2>4 DEF Launches, Born
  <2> QED BY <2>1, <2>3, <2>4 DEF Launches
<1>4. ASSUME SameLives
      PROVE  Born' = Born /\ \A p \in Proc : procs'[p].owner = procs[p].owner
  BY <1>0, <1>4, SameLivesFacts DEF SameLives
<1>5. ASSUME procs' = procs
      PROVE  SameLives
  BY <1>0, <1>5, SameProcs
<1>6. CASE Record
  BY <1>0, <1>1, <1>4, <1>5, <1>6, GrepFacts DEF Record
<1>7. CASE Poll
  BY <1>0, <1>1, <1>4, <1>5, <1>7, PollEffect
<1>8. CASE Settling \/ \E S \in SUBSET Ids : Stopping(S)
  BY <1>1, <1>4, <1>8 DEF Settling, AtOnce, Stopping
<1>9. CASE UNCHANGED vars \/ Ending \/ WaitFound
  BY <1>2, <1>4, <1>5, <1>9 DEF vars, Ending, WaitFound
<1>10. CASE Proceeds
  BY <1>2, <1>10 DEF Proceeds
<1> QED BY Kinds, <1>3, <1>6, <1>7, <1>8, <1>9, <1>10

LEMMA CountNext ==
  ASSUME NInv, [Next]_vars
  PROVE  CountOK'
<1>0. TypeOK /\ CountOK
  BY DEF NInv
<1> SUFFICES ASSUME Checked', NEW n \in Ids, nodes'[n].status = "STARTING"
             PROVE  InStart' /\ n \in started'
  BY DEF CountOK
<1>1. ASSUME mishaps \subseteq mishaps', nodes[n].status = "STARTING"
      PROVE  InStart /\ n \in started
  <2>1. Checked
    BY <1>1 DEF Checked
  <2> QED BY <1>0, <1>1, <2>1 DEF CountOK
<1>2. CASE UNCHANGED <<nodes, at, started, mishaps>>
  BY <1>1, <1>2 DEF InStart
<1>3. CASE \E S \in SUBSET Ids : Launching(S)
  <2>1. PICK S \in SUBSET Ids : Launching(S)
    BY <1>3
  <2>2. Launches(S, nodes) /\ mishaps \subseteq mishaps'
    BY <2>1, LaunchingFacts DEF CallTypes
  <2>3. Starts(S) /\ InStart'
    BY <2>1, LaunchingFacts DEF Checked
  <2>4. started' = started \cup S
    BY <2>3 DEF Starts
  <2>5. n \notin S => nodes[n].status = "STARTING"
    BY <2>2 DEF Launches
  <2> QED BY <1>1, <2>2, <2>3, <2>4, <2>5
<1>4. CASE Calm /\ mishaps \subseteq mishaps' /\ at \in {"idle", "poll"}
  BY <1>1, <1>4 DEF Calm, InStart
<1>5. CASE Settling
  <2>1. at = "idle" /\ mishaps \subseteq mishaps'
    BY <1>5 DEF Settling, AtOnce, CallTypes
  <2>2. ASSUME NEW m \in Ids, nodes[m].status = "STARTING"
        PROVE  FALSE
    BY <1>0, <2>1, <2>2 DEF CountOK, Checked, InStart
  <2> QED BY <1>4, <1>5, <2>1, <2>2 DEF Settling
<1>6. CASE \E S \in SUBSET Ids : Stopping(S)
  BY <1>4, <1>6 DEF Stopping, CallTypes
<1>7. CASE Poll
  BY <1>0, <1>4, <1>7, PollEffect DEF CallTypes
<1>8. CASE Ending
  <2>1. mishaps \subseteq mishaps' /\ nodes' = nodes
    BY <1>8 DEF Ending, CallTypes
  <2>2. at = "poll"
    BY <1>8 DEF Ending, Checked
  <2> QED BY <1>1, <2>1, <2>2 DEF InStart
<1>9. CASE WaitFound
  <2>1. /\ mishaps' = mishaps /\ nodes' = nodes /\ started' = started
        /\ at' \in {"record", "launch"}
    BY <1>9 DEF WaitFound, startVars
  <2> QED BY <1>1, <2>1 DEF InStart
<1>10. CASE Record
  <2>1. mishaps' = mishaps /\ Grep(started)
    BY <1>10 DEF Record
  <2>2. nodes'[n].status = IF nodes[n].status \in {"STARTED", "STARTING"} /\ n \in started
                           THEN "STARTED" ELSE nodes[n].status
    BY <1>0, <2>1, GrepFacts
  <2> QED BY <1>1, <2>1, <2>2
<1> QED BY Kinds, <1>2, <1>3, <1>5, <1>6, <1>7, <1>8, <1>9, <1>10 DEF vars, startVars, Proceeds

\* As many snapshots as there are started and starting nodes: each of them has one.
LEMMA FoundFacts ==
  ASSUME NInv, Checked, WaitFound
  PROVE  \A n \in started : nodes[n].log # NoProc /\ nodes[n].log \in Heard
<1>0. /\ at = "wait" /\ Cardinality(Answering) >= expect
      /\ TypeOK /\ CountOK /\ CallOK
  BY DEF WaitFound, NInv
<1>1. expect = Cardinality(AliveNodes \cup started) /\ started \subseteq Ids
  BY <1>0 DEF CallOK, InStart, TypeOK
<1>2. Answering \subseteq AliveNodes \cup started
  BY <1>0 DEF Answering, Watched, AliveNodes, AliveIn, CountOK
<1>3. AliveNodes \cup started \in SUBSET Ids
  BY <1>1 DEF AliveNodes, AliveIn
<1> HIDE DEF AliveNodes
<1> DEFINE Counted == AliveNodes \cup started
<1>4. /\ IsFiniteSet(Counted) /\ Cardinality(Counted) \in Nat
      /\ Cardinality(Answering) \in Nat /\ Answering \subseteq Counted
  BY <1>2, <1>3, CountFacts
<1>5. /\ Cardinality(Answering) <= Cardinality(Counted)
      /\ Cardinality(Answering) = Cardinality(Counted) => Answering = Counted
  BY <1>4, FS_Subset
<1>6. Answering = Counted
  BY <1>0, <1>1, <1>4, <1>5
<1> SUFFICES ASSUME NEW n \in started
             PROVE  nodes[n].log # NoProc /\ nodes[n].log \in Heard
  OBVIOUS
<1>7. n \in Watched /\ SeenBy(n).ver > 0 /\ n \in Ids
  BY <1>1, <1>6 DEF Answering
<1>8. nodes[n].log \in Proc /\ nodes[n].log # NoProc
  BY <1>0, <1>7, RowFacts DEF Watched
<1>9. procs[nodes[n].log].seen # NoSnapshot
  BY <1>7 DEF SeenBy, NoSnapshot
<1> QED BY <1>8, <1>9 DEF Heard

LEMMA HeardNext ==
  ASSUME NInv, [Next]_vars
  PROVE  HeardOK'
<1>0. TypeOK /\ HeardOK
  BY DEF NInv
<1> SUFFICES ASSUME Checked'
             PROVE  /\ \A n \in AliveNodes' :
                         /\ nodes'[n].pid # NoProc
                         /\ nodes'[n].log \in {nodes'[n].pid, NoProc}
                         /\ nodes'[n].pid \in Heard'
                    /\ at' = "record" =>
                         \A n \in started' : nodes'[n].log # NoProc /\ nodes'[n].log \in Heard'
  BY DEF HeardOK
<1>1. ASSUME mishaps \subseteq mishaps', NEW n \in Ids, nodes[n].status = "STARTED"
      PROVE  /\ nodes[n].pid # NoProc /\ nodes[n].log \in {nodes[n].pid, NoProc}
             /\ nodes[n].pid \in Heard
  <2>1. Checked
    BY <1>1 DEF Checked
  <2> QED BY <1>0, <1>1, <2>1 DEF HeardOK, AliveNodes, AliveIn
\* the started nodes are as they were
<1>2. CASE /\ mishaps \subseteq mishaps' /\ Heard \subseteq Heard' /\ at' # "record"
           /\ \A n \in Ids : nodes'[n].status = "STARTED" =>
                /\ nodes[n].status = "STARTED" /\ nodes'[n].pid = nodes[n].pid
                /\ nodes'[n].log \in {nodes[n].log, NoProc}
  BY <1>1, <1>2 DEF AliveNodes, AliveIn
<1>3. CASE /\ mishaps = mishaps' /\ Heard \subseteq Heard' /\ UNCHANGED <<at, started, nodes>>
  <2>1. Checked
    BY <1>3 DEF Checked
  <2> QED BY <1>0, <1>3, <2>1 DEF HeardOK, AliveNodes, AliveIn
<1>4. ASSUME SameLives
      PROVE  Heard' = Heard
  BY <1>0, <1>4, SameLivesFacts
<1>5. ASSUME procs' = procs
      PROVE  Heard' = Heard
  BY <1>0, <1>4, <1>5, SameProcs
<1>6. CASE \E S \in SUBSET Ids : Launching(S)
  <2>1. PICK S \in SUBSET Ids : Launching(S)
    BY <1>6
  <2>2. Launches(S, nodes) /\ mishaps \subseteq mishaps'
    BY <2>1, LaunchingFacts DEF CallTypes
  <2>3. at' # "record"
    BY <2>1, LaunchingFacts
  <2> QED BY <1>2, <2>2, <2>3 DEF Launches
<1>7. CASE Calm /\ mishaps \subseteq mishaps' /\ Heard' = Heard /\ at' # "record"
  BY <1>2, <1>7 DEF Calm
<1>8. CASE Settling
  <2>1. /\ at' # "record" /\ mishaps \subseteq mishaps' /\ Heard' = Heard
        /\ at = "idle"
    BY <1>4, <1>8 DEF Settling, AtOnce, CallTypes
  <2>2. ASSUME NEW m \in Ids, nodes[m].status = "STARTING"
        PROVE  FALSE
    BY <2>1, <2>2 DEF NInv, CountOK, Checked, InStart
  <2> QED BY <1>7, <1>8, <2>1, <2>2 DEF Settling
<1>9. CASE \E S \in SUBSET Ids : Stopping(S)
  BY <1>4, <1>7, <1>9 DEF Stopping, CallTypes
<1>10. CASE Poll
  <2>1. at' # "record"
    BY <1>0, <1>10, PollEffect DEF Return
  <2> QED BY <1>0, <1>5, <1>7, <1>10, <2>1, PollEffect DEF CallTypes
<1>11. CASE Ending
  <2>1. /\ at' # "record" /\ mishaps \subseteq mishaps' /\ Heard' = Heard /\ nodes' = nodes
    BY <1>5, <1>11 DEF Ending, Return, CallTypes
  <2> QED BY <1>2, <2>1
<1>12. CASE WaitFound
  <2>1. /\ mishaps' = mishaps /\ nodes' = nodes /\ started' = started /\ Heard' = Heard
    BY <1>5, <1>12 DEF WaitFound, startVars
  <2>2. Checked
    BY <2>1 DEF Checked
  <2>3. \A n \in started : nodes[n].log # NoProc /\ nodes[n].log \in Heard
    BY <1>12, <2>2, FoundFacts
  <2> QED BY <1>1, <2>1, <2>3 DEF AliveNodes, AliveIn
<1>13. CASE Record
  <2>1. /\ at = "record" /\ at' = "idle" /\ mishaps' = mishaps /\ Heard' = Heard
        /\ Grep(started)
    BY <1>5, <1>13 DEF Record, Return
  <2>2. Checked
    BY <2>1 DEF Checked
  <2> SUFFICES ASSUME NEW n \in Ids, nodes'[n].status = "STARTED"
               PROVE  /\ nodes'[n].pid # NoProc /\ nodes'[n].log \in {nodes'[n].pid, NoProc}
                      /\ nodes'[n].pid \in Heard
    BY <2>1 DEF AliveNodes, AliveIn
  <2>3. /\ nodes'[n].log = nodes[n].log
        /\ /\ nodes[n].status \in {"STARTED", "STARTING"} /\ nodes[n].log \in Heard
           => nodes[n].log # NoProc /\ nodes'[n].pid = nodes[n].log
        /\ nodes[n].status \in {"STARTED", "STARTING"} => nodes[n].log # NoProc
        /\ nodes'[n].status = IF nodes[n].status \in {"STARTED", "STARTING"} /\ n \in started
                              THEN "STARTED" ELSE nodes[n].status
    BY <1>0, <2>1, GrepFacts
  <2>4. CASE nodes[n].status = "STARTED"
    <3>1. nodes[n].log \in Heard
      BY <1>1, <2>1, <2>3, <2>4
    <3> QED BY <2>3, <2>4, <3>1
  <2>5. CASE nodes[n].status = "STARTING" /\ n \in started
    <3>1. nodes[n].log \in Heard
      BY <1>0, <2>1, <2>2, <2>5 DEF HeardOK
    <3> QED BY <2>3, <2>5, <3>1
  <2> QED BY <2>3, <2>4, <2>5
<1>14. CASE UNCHANGED vars
  BY <1>3, <1>5, <1>14 DEF vars, startVars
<1>15. CASE Proceeds
  BY <1>3, <1>15 DEF Proceeds, startVars
<1> QED BY Kinds, <1>6, <1>8, <1>9, <1>10, <1>11, <1>12, <1>13, <1>14, <1>15

LEMMA KnownNext ==
  ASSUME NInv, [Next]_vars
  PROVE  KnownOK'
<1>0. TypeOK /\ KnownOK /\ CallOK
  BY DEF NInv
<1> SUFFICES ASSUME mishaps' = {}
             PROVE  /\ \A p \in Proc : Free(p)' => Known(p)'
                    /\ at' = "poll" => owed' \subseteq pids'
  BY DEF KnownOK
<1>1. ASSUME mishaps \subseteq mishaps'
      PROVE  /\ mishaps = {} /\ \A p \in Proc : Free(p) => Known(p)
             /\ at = "poll" => owed \subseteq pids
  BY <1>0, <1>1 DEF KnownOK
<1>2. ASSUME procs' = procs
      PROVE  \A p \in Proc : Free(p)' => Free(p)
  BY <1>2 DEF Free, Running
<1>3. CASE UNCHANGED vars
  BY <1>1, <1>3 DEF vars, startVars, stopVars, Free, Running, Known, InStart
<1>4. CASE Proceeds
  <2>1. /\ UNCHANGED <<nodes, at, started, pids, owed, mishaps>>
        /\ \A p \in Proc : procs'[p].owner = procs[p].owner /\ (Free(p)' => Free(p))
    BY <1>4 DEF Proceeds, startVars, stopVars
  <2> QED BY <1>1, <2>1 DEF Known, InStart
<1>5. CASE \E S \in SUBSET Ids : Launching(S)
  <2>1. PICK S \in SUBSET Ids : Launching(S)
    BY <1>5
  <2>2. Starts(S) /\ Launches(S, nodes) /\ mishaps \subseteq mishaps'
    BY <2>1, LaunchingFacts DEF CallTypes
  <2>3. at \in {"idle", "launch"} /\ at' = "wait" /\ started' = started \cup S
    BY <2>2 DEF Starts
  <2>4. \A p \in Proc : Free(p) => procs[p].owner \notin S /\ procs[p].owner \in Ids
    BY <1>0, <2>1, RowFacts DEF Launching
  <2>5. ASSUME NEW p \in Proc, Free(p)'
        PROVE  Known(p)'
    <3>1. CASE procs'[p] = procs[p]
      <4>1. PICK n \in Ids : n = procs[p].owner
        BY <1>0, RowFacts
      <4>2. Free(p)
        BY <2>5, <3>1 DEF Free, Running
      <4>3. nodes'[n] = nodes[n]
        BY <2>2, <2>4, <4>1, <4>2 DEF Launches
      <4>4. \/ nodes[n].status = "STARTED" /\ nodes[n].pid = p
            \/ n \in started /\ nodes[n].log = p
        BY <1>1, <2>2, <2>3, <4>1, <4>2 DEF Known
      <4> QED BY <2>3, <3>1, <4>1, <4>3, <4>4 DEF Known, InStart
    <3>2. CASE \E n \in S : p = nodes'[n].log
      <4>1. PICK n \in S : p = nodes'[n].log /\ procs'[p].owner = n
        BY <2>2, <3>2 DEF Launches
      <4> QED BY <2>3, <4>1 DEF Known, InStart
    <3> QED BY <2>2, <3>1, <3>2 DEF Launches
  <2> QED BY <2>3, <2>5
<1>6. CASE Settling
  <2>1. /\ at' = "idle"
        /\ \A p \in Proc : /\ procs'[p].owner = procs[p].owner
                           /\ Free(p)' => \A n \in Ids : n = procs[p].owner =>
                                nodes'[n].status = "STARTED" /\ nodes'[n].pid = p
    BY <1>6 DEF Settling, AtOnce, SameLives
  <2>2. \A p \in Proc : procs[p].owner \in Ids
    BY <1>0, RowFacts
  <2> QED BY <2>1, <2>2 DEF Known
<1>7. CASE \E S \in SUBSET Ids : Stopping(S)
  <2>1. PICK S \in SUBSET Ids : Stopping(S)
    BY <1>7
  <2>2. /\ at = "idle" /\ at' = "poll" /\ mishaps \subseteq mishaps' /\ pids' = PidsOf(S)
        /\ \A m \in Ids \ S : nodes'[m] = nodes[m]
        /\ owed' = {p \in Proc : Free(p) /\ procs[p].owner \in S}
        /\ \A p \in Proc : procs'[p].owner = procs[p].owner /\ (Free(p)' => Free(p))
    BY <2>1 DEF Stopping, CallTypes, SameLives
  <2>3. ASSUME NEW p \in Proc, Free(p)
        PROVE  \E n \in Ids : /\ n = procs[p].owner /\ nodes[n].status = "STARTED"
                              /\ nodes[n].pid = p /\ (n \in S => p \in pids')
    <3>1. PICK n \in Ids : n = procs[p].owner
      BY <1>0, RowFacts
    <3>2. nodes[n].status = "STARTED" /\ nodes[n].pid = p
      BY <1>1, <2>2, <2>3, <3>1, IdleKnown
    <3>3. n \in S => p \in PidsOf(S)
      BY <3>2, ConstantFacts DEF PidsOf
    <3> QED BY <2>2, <3>1, <3>2, <3>3
  <2>4. owed' \subseteq pids'
    BY <2>2, <2>3
  <2>5. ASSUME NEW p \in Proc, Free(p)'
        PROVE  Known(p)'
    <3>1. PICK n \in Ids : /\ n = procs[p].owner /\ nodes[n].status = "STARTED"
                           /\ nodes[n].pid = p /\ (n \in S => p \in pids')
      BY <2>2, <2>3, <2>5
    <3> QED BY <2>2, <3>1 DEF Known
  <2> QED BY <2>4, <2>5
<1>8. CASE Poll
  <2>1. /\ at = "poll" /\ procs' = procs /\ mishaps \subseteq mishaps'
    BY <1>0, <1>8, PollEffect DEF CallTypes
  <2>2. \A n \in Ids : nodes'[n] = nodes[n] \/ (n \in victims /\ nodes[n].pid # NoProc)
    BY <1>0, <1>8, PollEffect
  <2>3. \/ UNCHANGED <<at, startVars, stopVars>>
        \/ Return /\ ((\A p \in pids : ~ Running(p)) \/ "late" \in mishaps')
    BY <1>0, <1>8, PollEffect
  <2>4. ASSUME NEW p \in Proc, Free(p)'
        PROVE  /\ Free(p)
               /\ p \in pids \/ \E n \in Ids : /\ n = procs[p].owner /\ nodes'[n] = nodes[n]
                                               /\ nodes[n].status = "STARTED"
                                               /\ nodes[n].pid = p
    <3>1. PICK n \in Ids : n = procs[p].owner
      BY <1>0, RowFacts
    <3>2. Free(p)
      BY <1>2, <2>1, <2>4
    <3>3. p \in pids \/ (nodes[n].status = "STARTED" /\ nodes[n].pid = p)
      BY <1>1, <2>1, <3>1, <3>2 DEF Known, InStart
    <3>4. n \in victims => nodes[n].pid \in pids \cup {NoProc}
      BY <1>0, <2>1 DEF CallOK
    <3> QED BY <2>2, <3>1, <3>2, <3>3, <3>4, ConstantFacts
  <2>5. CASE UNCHANGED <<at, startVars, stopVars>>
    <3>1. at' = "poll" /\ pids' = pids /\ owed' = owed /\ procs' = procs
      BY <2>1, <2>5 DEF stopVars
    <3> QED BY <1>1, <2>1, <2>4, <3>1 DEF Known
  <2>6. CASE Return /\ \A p \in pids : ~ Running(p)
    <3>1. at' = "idle" /\ \A p \in pids : ~ Free(p)
      BY <2>6 DEF Return, Free
    <3> QED BY <2>1, <2>4, <3>1 DEF Known
  <2> QED BY <2>3, <2>5, <2>6
<1>9. CASE Ending
  BY <1>9 DEF Ending
<1>10. CASE WaitFound
  <2>1. /\ mishaps' = mishaps /\ nodes' = nodes /\ started' = started /\ procs' = procs
        /\ at = "wait" /\ at' \in {"record", "launch"}
    BY <1>10 DEF WaitFound, startVars
  <2> QED BY <1>1, <1>2, <2>1 DEF Known, InStart
<1>11. CASE Record
  <2>1. /\ at = "record" /\ at' = "idle" /\ mishaps' = mishaps /\ procs' = procs
        /\ Grep(started)
    BY <1>11 DEF Record, Return
  <2>2. Checked
    BY <2>1 DEF Checked
  <2>3. ASSUME NEW p \in Proc, Free(p)'
        PROVE  Known(p)'
    <3>1. PICK n \in Ids : n = procs[p].owner
      BY <1>0, RowFacts
    <3>2. \/ nodes[n].status = "STARTED" /\ nodes[n].pid = p
          \/ n \in started /\ nodes[n].log = p
      BY <1>1, <1>2, <2>1, <2>3, <3>1 DEF Known
    <3>3. /\ /\ nodes[n].status \in {"STARTED", "STARTING"} /\ nodes[n].log \in Heard
             => nodes[n].log # NoProc /\ nodes'[n].pid = nodes[n].log
          /\ nodes[n].status \in {"STARTED", "STARTING"} => nodes[n].log # NoProc
          /\ nodes'[n].status = IF nodes[n].status \in {"STARTED", "STARTING"} /\ n \in started
                                THEN "STARTED" ELSE nodes[n].status
      BY <1>0, <2>1, GrepFacts
    <3>4. CASE nodes[n].status = "STARTED" /\ nodes[n].pid = p
      <4>1. nodes[n].log \in {p, NoProc} /\ p \in Heard
        BY <2>2, <3>4 DEF NInv, HeardOK, AliveNodes, AliveIn
      <4>2. nodes'[n].pid = p /\ nodes'[n].status = "STARTED"
        BY <3>3, <3>4, <4>1
      <4> QED BY <2>1, <3>1, <4>2 DEF Known
    <3>5. CASE n \in started /\ nodes[n].log = p
      <4>1. nodes[n].log \in Heard /\ nodes[n].status = "STARTING"
        BY <1>0, <2>1, <2>2, <3>5 DEF NInv, HeardOK, CallOK, InStart
      <4>2. nodes'[n].pid = p /\ nodes'[n].status = "STARTED"
        BY <3>3, <3>5, <4>1
      <4> QED BY <2>1, <3>1, <4>2 DEF Known
    <3> QED BY <3>2, <3>4, <3>5
  <2> QED BY <2>1, <2>3
<1> QED BY Kinds, <1>3, <1>4, <1>5, <1>6, <1>7, <1>8, <1>9, <1>10, <1>11

-----------------------------------------------------------------------------
LEMMA NInit ==
  ASSUME Init
  PROVE  NInv
<1>1. Present \in SUBSET Ids /\ Cardinality(Present) \in Nat
  BY CountFacts DEF Present
<1>2. Born = {} /\ Heard = {} /\ AliveNodes = {}
  BY DEF Init, Born, Heard, Unborn, NoSnapshot, AliveNodes, AliveIn, Node
<1>3. Cardinality({}) = 0
  BY FS_EmptySet
<1>4. \A n \in Ids : /\ nodes[n] \in Row /\ nodes[n].status \in {"NEW", "GONE"}
                     /\ nodes[n].pid = NoProc /\ nodes[n].log = NoProc
  BY NodeFacts DEF Init, NodeStatus
<1>5. nodes \in [Ids -> Row] /\ procs \in [Proc -> Life]
  BY <1>4, UnbornFacts DEF Init
<1>6. TypeOK
  BY <1>1, <1>5, ConstantFacts DEF Init, TypeOK, Row, Life
<1>7. ProcsOK
  BY <1>2, <1>3, UnbornFacts DEF Init, ProcsOK
<1>8. OwnOK
  BY <1>4 DEF OwnOK
<1>9. CallOK
  BY DEF Init, CallOK, InStart
<1>10. CountOK
  BY <1>4 DEF CountOK
<1>11. HeardOK
  BY <1>2 DEF HeardOK, Init
<1>12. KnownOK
  BY DEF Init, KnownOK, Free, Running, Unborn
<1> QED BY <1>6, <1>7, <1>8, <1>9, <1>10, <1>11, <1>12 DEF NInv

LEMMA NNext ==
  ASSUME NInv, [Next]_vars
  PROVE  NInv'
BY TypeNext, ProcsNext, OwnNext, CallNext, CountNext, HeardNext, KnownNext DEF NInv

LEMMA Reachable == Spec => []NInv
<1>1. Init => NInv
  BY NInit
<1>2. NInv /\ [Next]_vars => NInv'
  BY NNext
<1> QED BY <1>1, <1>2, PTL DEF Spec

-----------------------------------------------------------------------------
\* The table, the processes and the call that goes on are of their types; the number of
\* servers that wait_for_topology_snapshot wants is never more than the nodes there are.
THEOREM NodeTypes == Spec => []TypeOK
<1>1. NInv => TypeOK
  BY DEF NInv
<1> QED BY <1>1, Reachable, PTL

\* Where no start has failed or skipped the check, a node is recorded as started with the
\* PID of a process that was launched for it, and its log is that process's or forgotten.
THEOREM ANodeHasItsOwnProcess == Spec => []StartedIsItsOwn
<1>1. NInv => StartedIsItsOwn
  <2> SUFFICES ASSUME NInv, Checked, NEW n \in AliveNodes
               PROVE  /\ nodes[n].pid # NoProc
                      /\ procs[nodes[n].pid].owner = n
                      /\ nodes[n].log \in {nodes[n].pid, NoProc}
    BY DEF StartedIsItsOwn, Checked
  <2>1. nodes[n].pid # NoProc /\ nodes[n].log \in {nodes[n].pid, NoProc} /\ n \in Ids
    BY DEF NInv, HeardOK, AliveNodes, AliveIn
  <2> QED BY <2>1 DEF NInv, OwnOK
<1> QED BY <1>1, Reachable, PTL

\* Where nothing went wrong, a process that runs between two calls is the one whose PID its
\* node has: kill_node and stop_nodes can reach it.
THEOREM NoProcessIsForgotten == Spec => []NoOrphan
<1>1. NInv => NoOrphan
  BY RowFacts DEF NInv, KnownOK, Known, InStart, NoOrphan
<1> QED BY <1>1, Reachable, PTL

\* When stop_nodes returns 0, no process of the nodes it was asked to stop is left.
THEOREM AStopIsTrue == Spec => StopReturnsTruth
<1>1. NInv /\ [Next]_vars =>
        (at = "poll" /\ at' = "idle" /\ mishaps' = {} => \A p \in owed : ~ Running(p))
  <2> SUFFICES ASSUME NInv, [Next]_vars, at = "poll", at' = "idle", mishaps' = {}
               PROVE  \A p \in owed : ~ Running(p)
    OBVIOUS
  <2>1. Poll
    BY Kinds, LaunchingFacts
       DEF vars, Proceeds, Settling, AtOnce, Stopping, Ending, WaitFound, Record
  <2>2. \A p \in pids : ~ Running(p)
    BY <2>1, PollEffect DEF NInv
  <2>3. mishaps = {}
    BY <2>1, PollEffect DEF NInv, CallTypes
  <2> QED BY <2>2, <2>3 DEF NInv, KnownOK
<1> QED BY <1>1, Reachable, PTL DEF Spec, StopReturnsTruth
=============================================================================
