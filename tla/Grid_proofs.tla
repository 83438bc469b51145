----------------------------- MODULE Grid_proofs -----------------------------
(***************************************************************************)
(* Proofs about control.sh and the local file storage over a grid, for any *)
(* nodes, hosts, clients and bounds.                                       *)
(*                                                                         *)
(* An activation that is refused or comes too late leaves no line in the   *)
(* logs of the nodes it asked, apart from those of earlier ones, so that   *)
(* the count of the lines it waits for cannot be complete (TookOK).  The   *)
(* logs of the commands of a host are numbered from 1 without a gap as     *)
(* long as client and server were at one host (NumbersOK).  The archive of *)
(* a host with one default node has the data of that node (TarsOK).        *)
(***************************************************************************)
EXTENDS Grid, TLAPS, FiniteSetTheorems

-----------------------------------------------------------------------------
\* The types that the proofs need.
Typed ==
  /\ started \subseteq NodeSet /\ port \subseteq NodeSet /\ up \subseteq NodeSet
  /\ log \in [NodeSet -> SUBSET BOOLEAN] /\ due \subseteq NodeSet \X BOOLEAN
  /\ clientIndex \in 0 .. Len(Clients)
  /\ ran \in [AllHosts -> Nat]
  /\ cu.asked \subseteq NodeSet /\ DOMAIN cu = {"op", "pc", "asked", "old", "took", "count"}
  /\ cu.pc = "poll" => cu.op \in {"activate", "deactivate"}
  /\ cu.pc = "set" => cu.op = "rebase"
  /\ events \in 0 .. MaxEvents

\* Of the nodes asked, those whose logs had no line of an earlier activation.
New == cu.asked \ cu.old

\* As long as a call that has not activated the cluster waits, these get no such line.
TookOK ==
  cu.op = "activate" /\ ~cu.took =>
    /\ cu.pc = "poll" => \A n \in New : TRUE \notin log[n] /\ <<n, TRUE>> \notin due
    /\ cu.pc = "done" => New = {}

\* The logs have the numbers from 1.  A command costs an event, the two of a rebase at least one.
NumbersOK ==
  /\ ~apart => logs = [h \in AllHosts |-> 1 .. ran[h]]
  /\ \A h \in AllHosts : ran[h] <= 2 * events
  /\ cu.pc = "set" => \A h \in AllHosts : ran[h] + 1 <= 2 * events

\* The default nodes of a host.
DefaultsAt(h) == {n \in NodeSet \ Additional : HostOf[n] = h}

TarsOK ==
  \A h \in AllHosts : \A n \in NodeSet :
    DefaultsAt(h) = {n} /\ tars[h] # NoTar => n \in DOMAIN tars[h] /\ tars[h][n] = stored[n]

DataOK == \A h \in intact : \A n \in NodeSet : DefaultsAt(h) = {n} => db[n] = stored[n]

GInv == Typed /\ TookOK /\ NumbersOK /\ TarsOK /\ DataOK /\ intact \subseteq AllHosts

-----------------------------------------------------------------------------
LEMMA TableFacts ==
  /\ IsFiniteSet(NodeSet) /\ IsFiniteSet(AllHosts)
  /\ \A n \in NodeSet : HostOf[n] \in AllHosts
  /\ \A i \in 1 .. Len(Clients) : Clients[i] \in AllHosts
  /\ Len(Clients) \in Nat \ {0}
  <1>1. Servers \in Seq(NodeSet) /\ Len(Servers) \in Nat /\ DOMAIN Servers = 1 .. Len(Servers)
    BY ControlAssumption DEF NodeSet
  <1> DEFINE g == [k \in 1 .. Len(Servers) |-> Servers[k]]
  <1>2. g \in Surjection(1 .. Len(Servers), NodeSet)
    BY <1>1 DEF Surjection, NodeSet, Range
  <1> HIDE DEF g
  <1>3. IsFiniteSet(NodeSet)
    BY <1>1, <1>2, FS_Interval, FS_Surjection
  <1>4. \A n \in NodeSet : HostOf[n] \in AllHosts
    BY ControlAssumption DEF NodeSet, AllHosts, Range
  <1>5. Clients \in Seq(Range(Clients)) /\ Clients # << >>
    BY ControlAssumption
  <1>6. Len(Clients) \in Nat \ {0} /\ \A i \in 1 .. Len(Clients) : Clients[i] \in Range(Clients)
    BY <1>5
  <1>7. IsFiniteSet(AllHosts)
    <2> DEFINE hosts   == [n \in NodeSet |-> HostOf[n]]
               clients == [k \in 1 .. Len(Clients) |-> Clients[k]]
    <2>1. hosts \in Surjection(NodeSet, Range(HostOf))
      BY ControlAssumption DEF Surjection, NodeSet, Range
    <2>2. clients \in Surjection(1 .. Len(Clients), Range(Clients))
      BY <1>5 DEF Surjection, Range
    <2> HIDE DEF hosts, clients
    <2>3. IsFiniteSet(Range(HostOf))
      BY <2>1, <1>3, FS_Surjection
    <2>4. IsFiniteSet(1 .. Len(Clients))
      BY <1>6, FS_Interval
    <2>5. IsFiniteSet(Range(Clients))
      BY <2>2, <2>4, FS_Surjection
    <2> QED
      BY <2>3, <2>5, FS_Union DEF AllHosts
  <1> QED
    BY <1>3, <1>4, <1>6, <1>7 DEF AllHosts

LEMMA SomeCounted ==
  ASSUME NEW S, S \subseteq NodeSet
  PROVE  IsFiniteSet(S) /\ Cardinality(S) \in Nat
  BY TableFacts, FS_Subset, FS_CardinalityType

LEMMA EventsGrow ==
  ASSUME events \in 0 .. MaxEvents, NEW n \in Nat, Happen(n)
  PROVE  events' \in 0 .. MaxEvents /\ events' = events + n
  BY EventsAssumption DEF Happen

\* What sends no command and changes no data.
LEMMA NumbersKept ==
  ASSUME Typed, NumbersOK, UNCHANGED <<logs, ran, apart>>, events' \in events .. MaxEvents,
         cu'.pc = "set" => cu.pc = "set"
  PROVE  NumbersOK'
  <1>1. events \in Nat /\ events' \in Nat /\ events <= events' /\ \A h \in AllHosts : ran[h] \in Nat
    BY EventsAssumption DEF Typed
  <1>2. \A h \in AllHosts : ran'[h] <= 2 * events'
    BY <1>1 DEF NumbersOK
  <1>3. cu'.pc = "set" => \A h \in AllHosts : ran'[h] + 1 <= 2 * events'
    BY <1>1 DEF NumbersOK
  <1> QED
    BY <1>2, <1>3 DEF NumbersOK

LEMMA DataKept ==
  ASSUME TarsOK, DataOK, intact \subseteq AllHosts, UNCHANGED lfsVars
  PROVE  TarsOK' /\ DataOK' /\ intact' \subseteq AllHosts
  BY DEF TarsOK, DataOK, DefaultsAt, lfsVars

-----------------------------------------------------------------------------
\* The nodes.
LEMMA NodeSteps ==
  ASSUME Typed, TookOK, NEW n \in NodeSet,
         \/ StartServer(n) \/ KillServer(n) \/ CrashServer(n)
         \/ \E line \in BOOLEAN : WriteLine(n, line)
  PROVE  /\ Typed' /\ TookOK' /\ UNCHANGED <<clientVars, cu>> /\ events' \in events .. MaxEvents
  <1>0. events \in 0 .. MaxEvents /\ UNCHANGED <<clientVars, cu>>
    BY DEF Typed, StartServer, KillServer, CrashServer, WriteLine
  <1>1. events' \in events .. MaxEvents /\ events' \in 0 .. MaxEvents
    <2>1. CASE Happens
      BY <2>1, <1>0, EventsGrow DEF Happens
    <2>2. CASE UNCHANGED events
      BY <2>2, <1>0, EventsAssumption
    <2> QED
      BY <2>1, <2>2 DEF StartServer, KillServer, CrashServer, WriteLine
  <1>2. CASE StartServer(n)
    <2>1. /\ up' = up \cup {n} /\ started' = started \cup {n}
          /\ port' \in {port \cup {n}, port \ {n}} /\ log' = [log EXCEPT ![n] = {}]
          /\ UNCHANGED <<due, clientVars, cu>> /\ cu.pc # "poll"
      BY <1>2 DEF StartServer, CuFree
    <2>2. Typed'
      BY <2>1, <1>1 DEF Typed, clientVars
    <2>3. TookOK'
      BY <2>1 DEF TookOK, New
    <2> QED
      BY <1>0, <1>1, <2>2, <2>3
  <1>3. CASE KillServer(n) \/ CrashServer(n)
    <2>1. /\ up' \subseteq up /\ started' \subseteq started /\ port' \subseteq port
          /\ due' \subseteq due /\ UNCHANGED <<log, clientVars, cu>>
      BY <1>3 DEF KillServer, CrashServer, Gone, tableVars
    <2>2. Typed'
      BY <2>1, <1>1 DEF Typed, clientVars
    <2>3. TookOK'
      BY <2>1 DEF TookOK, New
    <2> QED
      BY <1>0, <1>1, <2>2, <2>3
  <1>4. CASE \E line \in BOOLEAN : WriteLine(n, line)
    <2>1. PICK line \in BOOLEAN :
            /\ <<n, line>> \in due
            /\ log' = [log EXCEPT ![n] = log[n] \cup {line}] /\ due' = due \ {<<n, line>>}
            /\ UNCHANGED <<up, tableVars, clientVars, cu>>
      BY <1>4 DEF WriteLine, Typed
    <2>2. \A m \in NodeSet : log'[m] = IF m = n THEN log[n] \cup {line} ELSE log[m]
      BY <2>1 DEF Typed
    <2>3. Typed'
      <3>1. log' \in [NodeSet -> SUBSET BOOLEAN]
        BY <2>1 DEF Typed
      <3> QED
        BY <3>1, <2>1, <1>1 DEF Typed, clientVars, tableVars
    <2>4. New \subseteq NodeSet
      BY DEF Typed, New
    <2>5. TookOK'
      <3> SUFFICES ASSUME cu.op = "activate", ~cu.took, cu.pc = "poll", NEW m \in New
                   PROVE  TRUE \notin log'[m] /\ <<m, TRUE>> \notin due'
        BY <2>1 DEF TookOK, New
      <3>1. m \in NodeSet /\ TRUE \notin log[m] /\ <<m, TRUE>> \notin due
        BY <2>4 DEF TookOK
      <3>2. <<m, TRUE>> \notin due'
        BY <3>1, <2>1
      <3>3. CASE m = n
        <4>1. TRUE \notin {line}
          BY <3>1, <3>3, <2>1
        <4>2. log'[m] = log[m] \cup {line}
          BY <3>3, <2>2
        <4> QED
          BY <3>1, <3>2, <4>1, <4>2, Zenon
      <3>4. CASE m # n
        <4>1. log'[m] = log[m]
          BY <3>1, <3>4, <2>2
        <4> QED
          BY <3>1, <3>2, <4>1
      <3> QED
        BY <3>3, <3>4
    <2> QED
      BY <1>0, <1>1, <2>3, <2>5
  <1> QED
    BY <1>2, <1>3, <1>4

-----------------------------------------------------------------------------
\* The activation.
LEMMA ActivateSteps ==
  ASSUME Typed, TookOK, NEW on \in BOOLEAN, NEW nodes, NEW refused \in BOOLEAN,
         Activate(on, nodes, refused)
  PROVE  /\ Typed' /\ TookOK' /\ UNCHANGED clientVars /\ events' \in events .. MaxEvents
         /\ cu'.pc = "poll"
  <1> DEFINE asked == nodes \cap port
             took  == ~refused /\ asked \cap up # {} /\ active # on
  <1>1. /\ Happen(1 + AsNumber(refused))
        /\ due' = IF took THEN due \cup up \X {on} ELSE due
        /\ cu' = [op |-> IF on THEN "activate" ELSE "deactivate", pc |-> "poll", asked |-> asked,
                  old |-> {n \in asked : on \in log[n] \/ <<n, on>> \in due}, took |-> took, count |-> 0]
        /\ UNCHANGED <<up, topology, log, tableVars, clientVars>>
    BY DEF Activate
  <1>2. events' \in events .. MaxEvents /\ events' \in 0 .. MaxEvents
    <2>1. 1 + AsNumber(refused) \in Nat
      BY DEF AsNumber
    <2> QED
      BY <2>1, <1>1, EventsGrow DEF Typed
  <1>3. /\ cu'.op = (IF on THEN "activate" ELSE "deactivate") /\ cu'.pc = "poll"
        /\ cu'.asked = asked /\ cu'.took = took
        /\ cu'.old = {n \in asked : on \in log[n] \/ <<n, on>> \in due}
        /\ DOMAIN cu' = {"op", "pc", "asked", "old", "took", "count"}
    BY <1>1
  <1>4. Typed'
    <2>1. due' \subseteq NodeSet \X BOOLEAN /\ asked \subseteq NodeSet
      BY <1>1 DEF Typed
    <2> HIDE DEF asked, took
    <2> QED
      BY <2>1, <1>1, <1>2, <1>3 DEF Typed, tableVars, clientVars
  <1>5. TookOK'
    <2> SUFFICES ASSUME cu'.op = "activate", ~took, NEW n \in New'
                 PROVE  TRUE \notin log'[n] /\ <<n, TRUE>> \notin due'
      BY <1>3 DEF TookOK
    <2>1. on = TRUE /\ due' = due /\ log' = log
      BY <1>1, <1>3
    <2> QED
      BY <2>1, <1>3 DEF New
  <1> QED
    BY <1>1, <1>2, <1>3, <1>4, <1>5

LEMMA PollSteps ==
  ASSUME Typed, TookOK, Poll
  PROVE  /\ Typed' /\ TookOK' /\ UNCHANGED clientVars /\ events' \in events .. MaxEvents
         /\ cu'.pc # "set"
  <1> DEFINE on == cu.op = "activate"
             got(R) == {n \in cu.asked \ R : on \in log[n]}
             last(R) == Complete(on, got(R)) \/ Expires
  <1>1. PICK R \in SUBSET cu.asked :
          /\ Happen(Cardinality(R))
          /\ cu' = [cu EXCEPT !.count = @ + 1,
                              !.pc = IF ~last(R) THEN "poll"
                                     ELSE IF Complete(on, got(R)) THEN "done" ELSE "raised"]
    BY DEF Poll
  <1>2. cu.pc = "poll" /\ UNCHANGED <<clusterVars, tableVars, clientVars>>
    BY DEF Poll
  <1>3. events' \in events .. MaxEvents /\ events' \in 0 .. MaxEvents
    BY <1>1, SomeCounted, EventsGrow DEF Typed
  <1>4. /\ cu'.op = cu.op /\ cu'.asked = cu.asked /\ cu'.old = cu.old /\ cu'.took = cu.took
        /\ cu'.pc = (IF ~last(R) THEN "poll" ELSE IF Complete(on, got(R)) THEN "done" ELSE "raised")
        /\ DOMAIN cu' = DOMAIN cu
    <2> HIDE DEF last, got, on
    <2> QED
      BY <1>1 DEF Typed
  <1>5. Typed'
    <2> HIDE DEF last, got, on
    <2> QED
      BY <1>2, <1>3, <1>4 DEF Typed, clusterVars, tableVars, clientVars
  <1>6. TookOK'
    <2> SUFFICES ASSUME cu.op = "activate", ~cu.took
                 PROVE  /\ cu'.pc = "poll" => \A n \in New : TRUE \notin log[n] /\ <<n, TRUE>> \notin due
                        /\ cu'.pc = "done" => New = {}
      BY <1>2, <1>4 DEF TookOK, New, clusterVars
    <2>1. \A n \in New : TRUE \notin log[n] /\ <<n, TRUE>> \notin due
      BY <1>2 DEF TookOK
    <2>2. ASSUME cu'.pc = "done" PROVE New = {}
      <3>1. on = TRUE /\ Complete(on, got(R))
        BY <2>2, <1>4
      <3>2. got(R) \subseteq cu.asked /\ Cardinality(got(R)) = Cardinality(cu.asked)
        BY <3>1 DEF Complete
      <3>3. IsFiniteSet(cu.asked)
        BY SomeCounted DEF Typed
      <3>4. got(R) = cu.asked
        <4> HIDE DEF got
        <4> QED
          BY <3>2, <3>3, FS_Subset
      <3>5. \A n \in cu.asked : TRUE \in log[n]
        BY <3>1, <3>4
      <3> QED
        BY <3>5, <2>1 DEF New
    <2> QED
      BY <2>1, <2>2
  <1> QED
    BY <1>2, <1>3, <1>4, <1>5, <1>6

-----------------------------------------------------------------------------
\* The commands.
LEMMA NextNumber ==
  ASSUME NEW h \in AllHosts, NEW r \in Nat, r + 1 <= 2 * MaxEvents, logs[h] = 1 .. r
  PROVE  LogNumber(h) = r + 1
  <1>1. /\ r + 1 \in 1 .. 2 * MaxEvents /\ r + 1 \notin logs[h]
        /\ \A j \in 1 .. (r + 1) - 1 : j \in logs[h]
    BY EventsAssumption
  <1>2. ASSUME NEW i \in 1 .. 2 * MaxEvents, i \notin logs[h], \A j \in 1 .. i - 1 : j \in logs[h]
        PROVE  i = r + 1
    <2>1. i \in Nat /\ i \notin 1 .. r
      BY <1>2, EventsAssumption
    <2>2. ~(r + 1 \in 1 .. i - 1)
      BY <1>2
    <2> QED
      BY <2>1, <2>2, EventsAssumption
  <1> QED
    BY <1>1, <1>2 DEF LogNumber

LEMMA Doubled ==
  ASSUME NEW e \in Nat, NEW f \in Nat, e + 1 <= f
  PROVE  2 * e \in Nat /\ 2 * f \in Nat /\ 2 * e + 1 <= 2 * f /\ 2 * e + 2 <= 2 * f
  OBVIOUS

LEMMA AtMost ==
  ASSUME Typed, NEW a \in Int, NEW b \in Int, a <= b, \A h \in AllHosts : ran[h] <= a
  PROVE  \A h \in AllHosts : ran[h] <= b
  <1> SUFFICES ASSUME NEW h \in AllHosts
               PROVE  ran[h] <= b
    OBVIOUS
  <1>1. PICK r \in Nat : r = ran[h]
    BY DEF Typed
  <1>2. r <= a
    BY <1>1
  <1>3. r <= b
    BY <1>2
  <1> QED
    BY <1>1, <1>3

\* One command: if its client and its server are at one host, the number of its log is the next.
LEMMA OneCommand ==
  ASSUME Typed, NumbersOK, NEW opt, Sent(opt), NEW k \in Nat,
         \A h \in AllHosts : ran[h] <= k, k + 1 <= 2 * MaxEvents
  PROVE  /\ clientIndex' \in 0 .. Len(Clients)
         /\ ran' \in [AllHosts -> Nat] /\ \A h \in AllHosts : ran'[h] <= k + 1
         /\ ~apart' => logs' = [h \in AllHosts |-> 1 .. ran'[h]]
  <1>1. NextClient \in 1 .. Len(Clients)
    BY TableFacts DEF NextClient, Typed
  <1>2. PICK client \in AllHosts : client = Clients[NextClient]
    BY <1>1, TableFacts
  <1>3. clientIndex' \in 0 .. Len(Clients)
    BY <1>1 DEF Sent
  <1>4. CASE ServerOf(opt) = << >>
    <2>1. UNCHANGED <<logs, ran, apart>>
      BY <1>4 DEF Sent
    <2> QED
      BY <2>1, <1>3 DEF NumbersOK, Typed
  <1>5. CASE ServerOf(opt) # << >>
    <2> DEFINE host == HostOf[ServerOf(opt)[1]]
    <2>1. /\ logs' = [logs EXCEPT ![client] = @ \cup {LogNumber(host)}]
          /\ ran' = [ran EXCEPT ![client] = @ + 1]
          /\ apart' = (apart \/ client # host)
      BY <1>2, <1>5 DEF Sent
    <2> HIDE DEF host
    <2>2. ran' \in [AllHosts -> Nat] /\ ran'[client] = ran[client] + 1
          /\ \A h \in AllHosts : h # client => ran'[h] = ran[h]
      BY <2>1 DEF Typed
    <2>3. \A h \in AllHosts : ran'[h] <= k + 1 /\ ran[h] \in Nat
      BY <2>2 DEF Typed
    <2>4. ASSUME ~apart' PROVE logs' = [h \in AllHosts |-> 1 .. ran'[h]]
      <3>1. ~apart /\ host = client
        BY <2>4, <2>1
      <3>2. logs = [h \in AllHosts |-> 1 .. ran[h]]
        BY <3>1 DEF NumbersOK
      <3>3. LogNumber(host) = ran[client] + 1
        <4>1. PICK r \in Nat : r = ran[client]
          BY DEF Typed
        <4>2. r <= k
          BY <4>1
        <4>3. r + 1 <= 2 * MaxEvents
          BY <4>2, EventsAssumption
        <4>4. logs[client] = 1 .. r
          BY <3>2, <4>1
        <4> QED
          BY <4>1, <4>3, <4>4, <3>1, NextNumber
      <3>4. (1 .. ran[client]) \cup {ran[client] + 1} = 1 .. ran'[client]
        BY <2>2, <2>3
      <3>5. \A h \in AllHosts : logs'[h] = 1 .. ran'[h]
        BY <2>1, <2>2, <3>2, <3>3, <3>4
      <3>6. logs' = [h \in AllHosts |-> logs'[h]]
        BY <2>1, <3>2
      <3> QED
        BY <3>5, <3>6
    <2> QED
      BY <1>3, <2>2, <2>3, <2>4
  <1> QED
    BY <1>4, <1>5

LEMMA BaselineSteps ==
  ASSUME Typed, NumbersOK, NEW opt, NEW nodes, BaselineCommand(opt, nodes)
  PROVE  Typed' /\ TookOK' /\ NumbersOK'
  <1>0. events \in 0 .. MaxEvents /\ MaxEvents \in Nat
    BY EventsAssumption DEF Typed
  <1>2. /\ cu.pc \notin {"poll", "set"} /\ Happens /\ Sent(opt)
        /\ cu' = [Idle EXCEPT !.pc = IF ServerOf(opt) = << >> THEN "raised" ELSE "done"]
        /\ UNCHANGED <<up, topology, active, log, due, tableVars>>
    BY DEF BaselineCommand, CuFree
  <1>3. events' \in 0 .. MaxEvents /\ events' = events + 1
    BY <1>2, <1>0, EventsGrow DEF Happens
  <1>4. /\ cu'.op = "none" /\ cu'.pc \in {"raised", "done"} /\ cu'.asked = {}
        /\ DOMAIN cu' = {"op", "pc", "asked", "old", "took", "count"}
    BY <1>2 DEF Idle
  <1>5. \A h \in AllHosts : ran[h] <= 2 * events
    BY <1>2 DEF NumbersOK
  <1>6. 2 * events \in Nat /\ 2 * events + 1 <= 2 * MaxEvents
    <2>1. events \in Nat /\ events + 1 <= MaxEvents
      BY <1>3, <1>0
    <2> QED
      BY <2>1, <1>0, Doubled
  <1>7. /\ clientIndex' \in 0 .. Len(Clients)
        /\ ran' \in [AllHosts -> Nat] /\ \A h \in AllHosts : ran'[h] <= 2 * events + 1
        /\ ~apart' => logs' = [h \in AllHosts |-> 1 .. ran'[h]]
    BY <1>2, <1>5, <1>6, OneCommand
  <1>8. Typed'
    BY <1>2, <1>3, <1>4, <1>7 DEF Typed, tableVars
  <1>9. \A h \in AllHosts : ran'[h] <= 2 * events'
    BY <1>3, <1>7, <1>0
  <1> QED
    BY <1>4, <1>7, <1>8, <1>9 DEF TookOK, NumbersOK

LEMMA ReadSteps ==
  ASSUME Typed, NumbersOK, ReadTopology
  PROVE  Typed' /\ TookOK' /\ NumbersOK'
  <1>0. events \in 0 .. MaxEvents /\ MaxEvents \in Nat
    BY EventsAssumption DEF Typed
  <1>2. /\ cu.pc \notin {"poll", "set"} /\ Happens /\ Sent("")
        /\ cu' = [Idle EXCEPT !.op = "rebase", !.pc = IF Answers("") THEN "set" ELSE "raised",
                              !.count = IF Answers("") THEN Len(topology) ELSE 0]
        /\ UNCHANGED <<clusterVars, tableVars>>
    BY DEF ReadTopology, CuFree
  <1>3. events' \in 0 .. MaxEvents /\ events' = events + 1
    BY <1>2, <1>0, EventsGrow DEF Happens
  <1>4. /\ cu'.op = "rebase" /\ cu'.pc \in {"raised", "set"} /\ cu'.asked = {}
        /\ DOMAIN cu' = {"op", "pc", "asked", "old", "took", "count"}
    BY <1>2 DEF Idle
  <1>5. \A h \in AllHosts : ran[h] <= 2 * events
    BY <1>2 DEF NumbersOK
  <1>6. 2 * events \in Nat /\ 2 * events + 1 <= 2 * MaxEvents
    <2>1. events \in Nat /\ events + 1 <= MaxEvents
      BY <1>3, <1>0
    <2> QED
      BY <2>1, <1>0, Doubled
  <1>7. /\ clientIndex' \in 0 .. Len(Clients)
        /\ ran' \in [AllHosts -> Nat] /\ \A h \in AllHosts : ran'[h] <= 2 * events + 1
        /\ ~apart' => logs' = [h \in AllHosts |-> 1 .. ran'[h]]
    BY <1>2, <1>5, <1>6, OneCommand
  <1>8. Typed'
    BY <1>2, <1>3, <1>4, <1>7 DEF Typed, tableVars, clusterVars
  <1>9. \A h \in AllHosts : ran'[h] + 1 <= 2 * events' /\ ran'[h] <= 2 * events'
    BY <1>3, <1>7, <1>0
  <1> QED
    BY <1>4, <1>7, <1>8, <1>9 DEF TookOK, NumbersOK

LEMMA SetSteps ==
  ASSUME Typed, NumbersOK, SetBaseline
  PROVE  Typed' /\ TookOK' /\ NumbersOK'
  <1>0. events \in 0 .. MaxEvents /\ MaxEvents \in Nat
    BY EventsAssumption DEF Typed
  <1>1. PICK ok \in BOOLEAN :
          /\ Happen(AsNumber(~ok /\ Answers("") /\ active))
          /\ cu' = [cu EXCEPT !.pc = IF ok THEN "done" ELSE "raised"]
    BY DEF SetBaseline
  <1>2. /\ cu.pc = "set" /\ Sent("")
        /\ UNCHANGED <<up, topology, active, log, due, tableVars>>
    BY DEF SetBaseline
  <1>3. events' \in 0 .. MaxEvents /\ events <= events'
    <2>1. PICK k \in Nat : k = AsNumber(~ok /\ Answers("") /\ active)
      BY DEF AsNumber
    <2>2. Happen(k)
      BY <2>1, <1>1
    <2>3. events' \in 0 .. MaxEvents /\ events' = events + k
      BY <2>2, <1>0, EventsGrow
    <2> QED
      BY <2>3, <1>0
  <1>4. /\ cu'.op = "rebase" /\ cu'.pc \in {"raised", "done"} /\ cu'.asked \subseteq NodeSet
        /\ DOMAIN cu' = {"op", "pc", "asked", "old", "took", "count"}
    BY <1>1, <1>2 DEF Typed
  <1>5. \A h \in AllHosts : ran[h] <= 2 * events - 1 /\ ran[h] \in Nat
    <2>1. \A h \in AllHosts : ran[h] + 1 <= 2 * events /\ ran[h] \in Nat
      BY <1>2 DEF NumbersOK, Typed
    <2> QED
      BY <2>1, <1>0
  <1>6. PICK c \in AllHosts : TRUE
    BY TableFacts
  <1>7. 2 * events - 1 \in Nat /\ (2 * events - 1) + 1 <= 2 * MaxEvents
    BY <1>5, <1>6, <1>0
  <1>8. /\ clientIndex' \in 0 .. Len(Clients)
        /\ ran' \in [AllHosts -> Nat] /\ \A h \in AllHosts : ran'[h] <= (2 * events - 1) + 1
        /\ ~apart' => logs' = [h \in AllHosts |-> 1 .. ran'[h]]
    BY <1>2, <1>5, <1>7, OneCommand
  <1>9. Typed'
    BY <1>2, <1>3, <1>4, <1>8 DEF Typed, tableVars
  <1>10. \A h \in AllHosts : ran'[h] <= 2 * events'
    BY <1>3, <1>8, <1>0
  <1> QED
    BY <1>4, <1>8, <1>9, <1>10 DEF TookOK, NumbersOK


-----------------------------------------------------------------------------
\* The data.
LEMMA OnlyOneIsSaved ==
  ASSUME NEW h, NEW n \in NodeSet, DefaultsAt(h) = {n}
  PROVE  SavedAt(h) = {n} /\ HostOf[n] = h
  <1>1. \E i \in DOMAIN Servers : Servers[i] = n
    BY DEF NodeSet, Range
  <1>2. Place(n) \in DOMAIN Servers
    BY <1>1 DEF Place
  <1>3. DOMAIN Servers \subseteq Int
    BY ControlAssumption
  <1>4. Place(n) <= Place(n)
    <2>1. PICK p \in Int : p = Place(n)
      BY <1>2, <1>3
    <2>2. p <= p
      OBVIOUS
    <2> QED
      BY <2>1, <2>2
  <1>5. \A m \in NodeSet \ Additional : HostOf[m] = h <=> m = n
    BY DEF DefaultsAt
  <1>6. n \in NodeSet \ Additional
    BY DEF DefaultsAt
  <1> QED
    BY <1>4, <1>5, <1>6 DEF SavedAt, FirstOf

LEMMA OfflineEvents ==
  ASSUME Typed, NEW R \in SUBSET AllHosts, Offline(R)
  PROVE  events' \in events .. MaxEvents /\ events' \in 0 .. MaxEvents
  <1>1. PICK k \in Nat : k = Cardinality(R)
    BY TableFacts, FS_Subset, FS_CardinalityType
  <1>2. Happen(k)
    BY <1>1 DEF Offline
  <1> QED
    BY <1>2, EventsGrow, EventsAssumption DEF Typed

LEMMA DataLeavesControl ==
  ASSUME Typed, TookOK, NumbersOK, UNCHANGED controlVars,
         events' \in events .. MaxEvents, events' \in 0 .. MaxEvents
  PROVE  Typed' /\ TookOK' /\ NumbersOK'
  <1>1. UNCHANGED <<up, log, due, started, port, clientIndex, logs, ran, apart, cu>>
    BY DEF controlVars, clusterVars, tableVars, clientVars
  <1>2. Typed'
    BY <1>1 DEF Typed
  <1>3. TookOK'
    BY <1>1 DEF TookOK, New
  <1> QED
    BY <1>1, <1>2, <1>3, NumbersKept

LEMMA DataSteps ==
  ASSUME GInv, UNCHANGED controlVars,
         \/ \E n \in NodeSet : WriteData(n)
         \/ \E R \in SUBSET AllHosts : SaveLfs(R) \/ RestoreLfs(R)
         \/ \E nodes \in {NodeSet \ Additional} \cup {{n} : n \in NodeSet} : DeleteLfs(nodes)
  PROVE  GInv'
  <1>0. Typed /\ TookOK /\ NumbersOK /\ TarsOK /\ DataOK
    BY DEF GInv
  <1>1. CASE \E n \in NodeSet : WriteData(n)
    <2>1. intact' = {} /\ UNCHANGED <<tars, stored>> /\ UNCHANGED events
      BY <1>1 DEF WriteData, Quiet
    <2>2. events' \in events .. MaxEvents /\ events' \in 0 .. MaxEvents
      BY <2>1, <1>0, EventsAssumption DEF Typed
    <2>3. Typed' /\ TookOK' /\ NumbersOK'
      BY <2>2, <1>0, DataLeavesControl
    <2>4. TarsOK' /\ DataOK'
      BY <2>1, <1>0 DEF TarsOK, DataOK, DefaultsAt
    <2> QED
      BY <2>1, <2>3, <2>4 DEF GInv
  <1>2. CASE \E R \in SUBSET AllHosts : SaveLfs(R)
    <2>1. PICK R \in SUBSET AllHosts : SaveLfs(R)
      BY <1>2
    <2> DEFINE hosts == {h \in AllHosts : SavedAt(h) # {}} \ R
    <2>2. /\ Offline(R) /\ intact' = {}
          /\ tars' = [h \in AllHosts |-> IF h \in hosts THEN [n \in SavedAt(h) |-> db[n]] ELSE tars[h]]
          /\ stored' = [n \in NodeSet |-> IF HostOf[n] \in R THEN stored[n] ELSE db[n]]
      BY <2>1 DEF SaveLfs
    <2>3. Typed' /\ TookOK' /\ NumbersOK'
      BY <2>2, <1>0, OfflineEvents, DataLeavesControl
    <2>4. DataOK' /\ intact' \subseteq AllHosts
      BY <2>2 DEF DataOK
    <2>5. TarsOK'
      <3> SUFFICES ASSUME NEW h \in AllHosts, NEW n \in NodeSet, DefaultsAt(h) = {n}, tars'[h] # NoTar
                   PROVE  n \in DOMAIN tars'[h] /\ tars'[h][n] = stored'[n]
        BY DEF TarsOK, DefaultsAt
      <3>1. SavedAt(h) = {n} /\ HostOf[n] = h
        BY OnlyOneIsSaved
      <3>2. CASE h \in R
        <4>1. tars'[h] = tars[h] /\ stored'[n] = stored[n]
          BY <3>1, <3>2, <2>2
        <4> QED
          BY <4>1, <1>0 DEF TarsOK
      <3>3. CASE h \notin R
        <4>1. h \in hosts
          BY <3>1, <3>3
        <4>2. tars'[h] = [m \in SavedAt(h) |-> db[m]] /\ stored'[n] = db[n]
          BY <3>1, <3>3, <4>1, <2>2
        <4> QED
          BY <4>2, <3>1
      <3> QED
        BY <3>2, <3>3
    <2> QED
      BY <2>3, <2>4, <2>5 DEF GInv
  <1>3. CASE \E R \in SUBSET AllHosts : RestoreLfs(R)
    <2>1. PICK R \in SUBSET AllHosts : RestoreLfs(R)
      BY <1>3
    <2>2. /\ Offline(R) /\ intact' = {h \in AllHosts \ R : tars[h] # NoTar}
          /\ db' = [n \in NodeSet |-> IF HostOf[n] \in R THEN db[n] ELSE Unpacked(n)]
          /\ UNCHANGED <<tars, stored>>
      BY <2>1 DEF RestoreLfs
    <2>3. Typed' /\ TookOK' /\ NumbersOK'
      BY <2>2, <1>0, OfflineEvents, DataLeavesControl
    <2>4. TarsOK' /\ intact' \subseteq AllHosts
      BY <2>2, <1>0 DEF TarsOK, DefaultsAt
    <2>5. DataOK'
      <3> SUFFICES ASSUME NEW h \in intact', NEW n \in NodeSet, DefaultsAt(h) = {n}
                   PROVE  db'[n] = stored'[n]
        BY DEF DataOK, DefaultsAt
      <3>1. h \in AllHosts /\ h \notin R /\ tars[h] # NoTar /\ HostOf[n] = h
        BY <2>2, OnlyOneIsSaved
      <3>2. n \in DOMAIN tars[h] /\ tars[h][n] = stored[n]
        BY <3>1, <1>0 DEF TarsOK
      <3>3. db'[n] = Unpacked(n) /\ Unpacked(n) = tars[h][n]
        BY <2>2, <3>1, <3>2 DEF Unpacked
      <3> QED
        BY <3>2, <3>3, <2>2
    <2> QED
      BY <2>3, <2>4, <2>5 DEF GInv
  <1>4. CASE \E nodes \in {NodeSet \ Additional} \cup {{n} : n \in NodeSet} : DeleteLfs(nodes)
    <2>1. Offline({}) /\ intact' = {} /\ UNCHANGED <<tars, stored>>
      BY <1>4 DEF DeleteLfs
    <2>2. Typed' /\ TookOK' /\ NumbersOK'
      BY <2>1, <1>0, OfflineEvents, DataLeavesControl
    <2>3. TarsOK' /\ DataOK' /\ intact' \subseteq AllHosts
      BY <2>1, <1>0 DEF TarsOK, DataOK, DefaultsAt
    <2> QED
      BY <2>2, <2>3 DEF GInv
  <1> QED
    BY <1>1, <1>2, <1>3, <1>4

-----------------------------------------------------------------------------
LEMMA Start ==
  ASSUME Init
  PROVE  GInv
  <1>1. /\ started = {} /\ port = {} /\ up = {} /\ due = {} /\ intact = {} /\ events = 0
        /\ log = [n \in NodeSet |-> {}] /\ clientIndex = 0
        /\ logs = [h \in AllHosts |-> {}] /\ ran = [h \in AllHosts |-> 0]
        /\ tars = [h \in AllHosts |-> NoTar] /\ cu = Idle
    BY DEF Init, ControlInit, LfsInit
  <1>2. cu.op = "none" /\ cu.pc = "idle" /\ cu.asked = {}
        /\ DOMAIN cu = {"op", "pc", "asked", "old", "took", "count"}
    BY <1>1 DEF Idle
  <1>3. clientIndex \in 0 .. Len(Clients) /\ events \in 0 .. MaxEvents /\ ran \in [AllHosts -> Nat]
    BY <1>1, TableFacts, EventsAssumption
  <1>4. Typed
    BY <1>1, <1>2, <1>3 DEF Typed
  <1>5. NumbersOK
    <2>1. \A h \in AllHosts : 1 .. ran[h] = {} /\ ran[h] <= 2 * events
      BY <1>1
    <2>2. logs = [h \in AllHosts |-> 1 .. ran[h]]
      BY <2>1, <1>1
    <2> QED
      BY <2>1, <2>2, <1>2 DEF NumbersOK
  <1> QED
    BY <1>1, <1>2, <1>4, <1>5 DEF GInv, TookOK, TarsOK, DataOK

LEMMA Step ==
  ASSUME GInv, [Next]_vars
  PROVE  GInv'
  <1>0. Typed /\ TookOK /\ NumbersOK /\ TarsOK /\ DataOK /\ intact \subseteq AllHosts
    BY DEF GInv
  <1>1. ASSUME NEW n \in NodeSet, NodeChanges(n)
        PROVE  GInv'
    <2>1. CASE WriteData(n) /\ UNCHANGED controlVars
      BY <2>1, DataSteps
    <2>2. CASE /\ UNCHANGED lfsVars
               /\ \/ StartServer(n) \/ KillServer(n) \/ CrashServer(n)
                  \/ \E line \in BOOLEAN : WriteLine(n, line)
      <3>1. /\ Typed' /\ TookOK' /\ UNCHANGED <<clientVars, cu>> /\ events' \in events .. MaxEvents
        BY <2>2, <1>0, NodeSteps
      <3>2. NumbersOK'
        BY <3>1, <1>0, NumbersKept DEF clientVars
      <3> QED
        BY <2>2, <3>1, <3>2, <1>0, DataKept DEF GInv
    <2> QED
      BY <1>1, <2>1, <2>2 DEF NodeChanges, Control, Data
  <1>2. ASSUME NEW on \in BOOLEAN, NEW refused \in BOOLEAN, NEW nodes,
               Activate(on, nodes, refused), UNCHANGED lfsVars
        PROVE  GInv'
    <2>1. /\ Typed' /\ TookOK' /\ UNCHANGED clientVars /\ events' \in events .. MaxEvents
          /\ cu'.pc = "poll"
      BY <1>2, <1>0, ActivateSteps
    <2>2. NumbersOK'
      BY <2>1, <1>0, NumbersKept DEF clientVars
    <2> QED
      BY <1>2, <2>1, <2>2, <1>0, DataKept DEF GInv
  <1>3. CASE Control(Poll)
    <2>1. /\ Typed' /\ TookOK' /\ UNCHANGED clientVars /\ events' \in events .. MaxEvents
          /\ cu'.pc # "set" /\ UNCHANGED lfsVars
      BY <1>3, <1>0, PollSteps DEF Control
    <2>2. NumbersOK'
      BY <2>1, <1>0, NumbersKept DEF clientVars
    <2> QED
      BY <2>1, <2>2, <1>0, DataKept DEF GInv
  <1>4. CASE \E opt \in {"", "use_same_host", "use_another_host"}, nodes \in SUBSET up :
               Control(BaselineCommand(opt, nodes))
    <2>1. PICK opt, nodes : BaselineCommand(opt, nodes) /\ UNCHANGED lfsVars
      BY <1>4 DEF Control
    <2>2. Typed' /\ TookOK' /\ NumbersOK'
      BY <2>1, <1>0, BaselineSteps
    <2> QED
      BY <2>1, <2>2, <1>0, DataKept DEF GInv
  <1>5. CASE Control(ReadTopology) \/ Control(SetBaseline)
    <2>1. Typed' /\ TookOK' /\ NumbersOK' /\ UNCHANGED lfsVars
      BY <1>5, <1>0, ReadSteps, SetSteps DEF Control
    <2> QED
      BY <2>1, <1>0, DataKept DEF GInv
  <1>6. CASE UNCHANGED vars
    <2>1. UNCHANGED controlVars /\ UNCHANGED lfsVars /\ UNCHANGED events
      BY <1>6 DEF vars
    <2>2. events' \in events .. MaxEvents /\ events' \in 0 .. MaxEvents
      BY <2>1, <1>0, EventsAssumption DEF Typed
    <2>3. Typed' /\ TookOK' /\ NumbersOK'
      BY <2>1, <2>2, <1>0, DataLeavesControl
    <2> QED
      BY <2>1, <2>3, <1>0, DataKept DEF GInv
  <1>7. CASE Commands
    <2>1. CASE \/ \E on, refused \in BOOLEAN : Control(Activate(on, started, refused))
               \/ \E n \in started \cap port, on, refused \in BOOLEAN : Control(Activate(on, {n}, refused))
      BY <2>1, <1>2 DEF Control
    <2>2. CASE \/ \E R \in SUBSET AllHosts : Data(SaveLfs(R)) \/ Data(RestoreLfs(R))
               \/ \E nodes \in {NodeSet \ Additional} \cup {{n} : n \in NodeSet} : Data(DeleteLfs(nodes))
      BY <2>2, DataSteps DEF Data
    <2> QED
      BY <1>7, <2>1, <2>2, <1>3, <1>4, <1>5 DEF Commands
  <1> QED
    BY <1>1, <1>6, <1>7 DEF Next

LEMMA Always == Spec => []GInv
  BY Start, Step, PTL DEF Spec

\* An activation that returns has activated the cluster, if one of the nodes it asked had no
\* line of an earlier activation in its log (__activate).
THEOREM AnActivationIsTrue == Spec => []ActivatedIsActive
  <1>1. ASSUME GInv
        PROVE  ActivatedIsActive
    BY <1>1 DEF GInv, TookOK, New, ActivatedIsActive
  <1> QED
    BY <1>1, Always, PTL

\* No log of a command overwrites another, as long as client and server were at one host
\* (control_utility and its choice of a number by `ls`).
THEOREM NoLogIsOverwritten == Spec => []LogsKept
  <1>1. ASSUME GInv
        PROVE  LogsKept
    <2> SUFFICES ASSUME ~apart, NEW h \in AllHosts
                 PROVE  Cardinality(logs[h]) = ran[h]
      BY DEF LogsKept
    <2>1. PICK r \in Nat : r = ran[h]
      BY <1>1 DEF GInv, Typed
    <2>2. logs[h] = 1 .. r
      BY <2>1, <1>1 DEF GInv, NumbersOK
    <2>3. Cardinality(1 .. r) = r
      BY FS_Interval
    <2> QED
      BY <2>1, <2>2, <2>3
  <1> QED
    BY <1>1, Always, PTL

\* A default node that is the only one of its host has after restore_lfs what it had when
\* save_lfs stored it.
THEOREM ALoneNodeIsRestored == Spec => []RestoredIsStored
  <1>1. ASSUME GInv
        PROVE  RestoredIsStored
    <2> SUFFICES ASSUME NEW h \in intact, Cardinality(DefaultsAt(h)) = 1, NEW n \in DefaultsAt(h)
                 PROVE  db[n] = stored[n]
      BY DEF RestoredIsStored, DefaultsAt
    <2>1. DefaultsAt(h) \subseteq NodeSet
      BY DEF DefaultsAt
    <2>2. IsFiniteSet(DefaultsAt(h))
      BY <2>1, SomeCounted
    <2>3. PICK m : DefaultsAt(h) = {m}
      BY <2>2, FS_Singleton
    <2>4. DefaultsAt(h) = {n} /\ n \in NodeSet
      BY <2>1, <2>3
    <2> QED
      BY <2>4, <1>1 DEF GInv, DataOK
  <1> QED
    BY <1>1, Always, PTL
=============================================================================
