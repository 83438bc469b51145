--------------------------- MODULE SshPool_proofs ---------------------------
(***************************************************************************)
(* Proofs about the SSH pool, for any hosts, threads, commands, attempts,  *)
(* dying sessions and calls.                                               *)
(*                                                                         *)
(* The threads share the clients of all the hosts: a thread that has lost  *)
(* its session replaces the clients that the others are about to take.     *)
(* What saves a call is that a host belongs to one thread at a time        *)
(* (TasksOK), that a reconnection only ever puts a living session in the   *)
(* place of another (Fresh), and that a thread makes one at most (PassOK). *)
(***************************************************************************)
EXTENDS SshPool, TLAPS, SequenceTheorems

Active(w) == worker[w].pc # "idle"

\* A host of the call is in the queue, with one thread, or answered; a thread that has not
\* lost its session starts the next reconnection with the first host.
TasksOK ==
  /\ main # "executing" => queue = {} /\ WorkersIdle
  /\ \A h \in queue : answer[h].state = "pending"
  /\ \A w \in Workers : Active(w) =>
       answer[worker[w].host].state = "pending" /\ worker[w].host \notin queue
  /\ \A v, w \in Workers :
       Active(v) /\ Active(w) /\ worker[v].host = worker[w].host => v = w
  /\ \A w \in Workers : worker[w].pc # "connect" => dial[w].at = 1

\* How often a command may have been executed when its thread is at w.
Allowed(w, i) ==
  (IF worker[w].repeat THEN 1 ELSE 0)
    + (IF worker[w].pc = "connect" \/ (worker[w].pc = "run" /\ i < worker[w].next)
       THEN 1 ELSE 0)

PassOf(w) == Active(w) =>
  /\ \A i \in Index : executed[worker[w].host][i] <= Allowed(w, i)
  /\ kind = "transfer" => ~ worker[w].repeat /\ worker[w].pc # "connect"
  /\ worker[w].pc = "connect" => ~ worker[w].repeat

PassOK ==
  /\ \A h \in queue, i \in Index : executed[h][i] = 0
  /\ \A w \in Workers : PassOf(w)

\* The outputs a thread has so far come from this pass.
OutputOf(w) == worker[w].pc = "run" =>
  /\ Increasing(worker[w].output)
  /\ \A i \in DOMAIN worker[w].output :
       /\ worker[w].output[i] < worker[w].next
       /\ executed[worker[w].host][worker[w].output[i]] > 0

OutputOK == \A w \in Workers : OutputOf(w)

\* A session is dead only if it was opened, and no client is newer than the last one opened.
SessionsOK ==
  /\ \A d \in dead : d[2] \in 1 .. opened[d[1]]
  /\ \A h \in Hosts : clients[h] <= opened[h]

\* A registered session that is dead is at least the second one that died.
Fresh(h) == h \in troubled \/ (IsDead(h, clients[h]) => hits[h] >= 2)

\* What the current call knows of the sessions that died.
HitsOf(w) ==
  LET h == worker[w].host IN
  /\ worker[w].pc = "run" /\ IsDead(h, worker[w].session) => hits[h] >= 1
  /\ worker[w].pc = "connect" \/ (Active(w) /\ worker[w].repeat) => hits[h] >= 1
  /\ worker[w].pc = "connect" =>
       \A i \in 1 .. dial[w].at - 1 : HostSeq[i] = h => Fresh(h)
  /\ worker[w].pc = "begin" /\ worker[w].repeat => Fresh(h)
  /\ worker[w].pc = "run" /\ worker[w].repeat /\ h \notin troubled
       /\ IsDead(h, worker[w].session) => hits[h] >= 2

HitsOK ==
  /\ \A h \in Hosts : IsDead(h, clients[h]) => hits[h] >= 1
  /\ \A w \in Workers : HitsOf(w)

\* A thread has the output of every command it has passed, but where that may be missing.
CompleteOf(w) ==
  /\ kind = "exec" /\ worker[w].pc = "run"
  /\ worker[w].host \notin troubled /\ hits[worker[w].host] <= 1
  => Len(worker[w].output) = worker[w].next - 1

CompleteOK == \A w \in Workers : CompleteOf(w)

PInv ==
  /\ TypeOK /\ TasksOK /\ PassOK /\ OutputOK /\ SessionsOK /\ HitsOK /\ CompleteOK
  /\ AtMostTwice /\ OutputsOfOnePass /\ OneDropIsMasked

-----------------------------------------------------------------------------
\* What the type of a thread says of its fields.
Thread == [pc      : {"idle", "begin", "run", "connect"},
           host    : Hosts,
           session : Session,
           next    : 1 .. Commands + 1,
           output  : Seq(Index),
           repeat  : BOOLEAN]

LEMMA ConstantFacts ==
  /\ Len(HostSeq) \in Nat \ {0}
  /\ \A i \in 1 .. Len(HostSeq) : HostSeq[i] \in Hosts
  /\ Commands \in Nat \ {0} /\ Retries \in Nat \ {0} /\ MaxCalls \in Nat
  /\ Workers \subseteq Agents /\ Main \in Agents /\ Main \notin Workers
BY HostSeqAssumption, WorkersAssumption, BoundsAssumption DEF Hosts, Agents

LEMMA IdleFacts ==
  /\ Idle \in Thread
  /\ Idle.pc = "idle" /\ Idle.repeat = FALSE /\ Idle.output = << >> /\ Idle.next = 1
BY ConstantFacts DEF Idle, Thread, Session, Index

-----------------------------------------------------------------------------
\* What the steps change, of the threads and of the connections.

\* What a step of the thread w that goes on with its task leaves.
Goes(w, pc, repeat) ==
  /\ \A v \in Workers \ {w} : worker'[v] = worker[v]
  /\ worker'[w] \in Thread
  /\ worker'[w].pc = pc /\ worker'[w].repeat = repeat /\ worker'[w].host = worker[w].host
  /\ worker' \in [Workers -> Thread]

\* What the end of a task leaves.
Ends(w, state) ==
  /\ worker' \in [Workers -> Thread]
  /\ worker'[w] = Idle
  /\ \A v \in Workers \ {w} : worker'[v] = worker[v]
  /\ answer'[worker[w].host].state = state
  /\ \A h \in Hosts \ {worker[w].host} : answer'[h] = answer[h]

LEMMA ThreadFacts ==
  ASSUME TypeOK
  PROVE  /\ worker \in [Workers -> Thread]
         /\ \A w \in Workers :
              /\ worker[w] \in Thread
              /\ worker[w].host \in Hosts
              /\ worker[w].session \in Nat
              /\ worker[w].next \in 1 .. Commands + 1
              /\ worker[w].output \in Seq(Index)
              /\ worker[w].repeat \in BOOLEAN
              /\ worker[w].pc \in {"idle", "begin", "run", "connect"}
<1>1. worker \in [Workers -> Thread]
  BY DEF TypeOK, Thread
<1> QED BY <1>1 DEF Thread, Session

LEMMA FinishEffect ==
  ASSUME TypeOK, NEW w \in Workers, NEW s \in {"done", "raised"}, NEW o \in Seq(Index),
         Finish(w, s, o)
  PROVE  /\ Ends(w, s)
         /\ answer'[worker[w].host].output = o
         /\ answer' \in [Hosts -> [state  : {"none", "pending", "done", "raised", "lost"},
                                   output : Seq(Index)]]
<1>1. Answer(s, o) \in [state  : {"none", "pending", "done", "raised", "lost"},
                        output : Seq(Index)]
      /\ Answer(s, o).state = s /\ Answer(s, o).output = o
  BY DEF Answer
<1>2. worker' = [worker EXCEPT ![w] = Idle] /\ answer' = [answer EXCEPT ![worker[w].host] = Answer(s, o)]
  BY DEF Finish
<1>3. worker' \in [Workers -> Thread] /\ worker'[w] = Idle
      /\ \A v \in Workers \ {w} : worker'[v] = worker[v]
  BY <1>2, ThreadFacts, IdleFacts
<1> QED BY <1>1, <1>2, <1>3, ThreadFacts DEF Ends, TypeOK

LEMMA BeginEffect ==
  ASSUME TypeOK, NEW w \in Workers, Begin(w)
  PROVE  /\ worker[w].pc = "begin"
         /\ \/ Finish(w, "raised", << >>)
            \/ /\ Goes(w, "run", worker[w].repeat) /\ answer' = answer
               /\ worker'[w].session = clients[worker[w].host]
               /\ worker'[w].next = 1 /\ worker'[w].output = << >>
         /\ UNCHANGED <<callVars, sessionVars, historyVars, queue, dial>>
<1>1. CASE clients[worker[w].host] = 0
  BY <1>1 DEF Begin
<1>2. CASE clients[worker[w].host] # 0
  <2> DEFINE r == [worker[w] EXCEPT !.pc = "run", !.session = clients[worker[w].host],
                                    !.next = 1, !.output = << >>]
  <2>1. worker' = [worker EXCEPT ![w] = r] /\ answer' = answer
    BY <1>2, ThreadFacts DEF Begin
  <2>2. /\ clients[worker[w].host] \in Session /\ << >> \in Seq(Index)
        /\ 1 \in 1 .. Commands + 1
    BY ThreadFacts, ConstantFacts DEF TypeOK
  <2>3. /\ r \in Thread /\ r.pc = "run" /\ r.repeat = worker[w].repeat /\ r.next = 1
        /\ r.host = worker[w].host /\ r.session = clients[worker[w].host] /\ r.output = << >>
    BY <2>2, ThreadFacts DEF Thread
  <2> HIDE DEF r
  <2>4. Goes(w, "run", worker[w].repeat) /\ worker'[w] = r
    BY <2>1, <2>3, ThreadFacts DEF Goes
  <2> QED BY <2>1, <2>3, <2>4 DEF Begin
<1> QED BY <1>1, <1>2

\* A command that is executed, or passed over.
LEMMA AdvanceEffect ==
  ASSUME TypeOK, NEW w \in Workers, Running(w), NEW o \in Seq(Index),
         worker' = [worker EXCEPT ![w].next = worker[w].next + 1, ![w].output = o]
  PROVE  /\ Goes(w, "run", worker[w].repeat)
         /\ worker'[w].session = worker[w].session
         /\ worker'[w].next = worker[w].next + 1
         /\ worker'[w].output = o
<1> DEFINE r == [worker[w] EXCEPT !.next = worker[w].next + 1, !.output = o]
<1>1. worker' = [worker EXCEPT ![w] = r]
  BY ThreadFacts
<1>2. worker[w].next + 1 \in 1 .. Commands + 1
  BY ThreadFacts, ConstantFacts DEF Running
<1>3. /\ r \in Thread /\ r.pc = "run" /\ r.repeat = worker[w].repeat
      /\ r.next = worker[w].next + 1 /\ r.output = o
      /\ r.host = worker[w].host /\ r.session = worker[w].session
  BY <1>2, ThreadFacts DEF Thread, Running
<1> HIDE DEF r
<1> QED BY <1>1, <1>3, ThreadFacts DEF Goes

\* One more execution of the command i at the host h.
Counts(h, i) ==
  /\ executed' \in [Hosts -> [Index -> Nat]]
  /\ executed'[h][i] = executed[h][i] + 1
  /\ \A j \in Index \ {i} : executed'[h][j] = executed[h][j]
  /\ \A g \in Hosts \ {h} : executed'[g] = executed[g]

LEMMA CountsEffect ==
  ASSUME TypeOK, NEW h \in Hosts, NEW i \in Index,
         executed' = [executed EXCEPT ![h][i] = executed[h][i] + 1]
  PROVE  Counts(h, i)
<1> DEFINE r == [executed[h] EXCEPT ![i] = executed[h][i] + 1]
<1>1. /\ r \in [Index -> Nat] /\ r[i] = executed[h][i] + 1
      /\ \A j \in Index \ {i} : r[j] = executed[h][j]
  BY DEF TypeOK
<1>2. executed' = [executed EXCEPT ![h] = r]
  BY DEF TypeOK
<1> HIDE DEF r
<1> QED BY <1>1, <1>2 DEF Counts, TypeOK

LEMMA ExecuteEffect ==
  ASSUME TypeOK, NEW w \in Workers, Execute(w)
  PROVE  /\ Running(w) /\ worker[w].next \in Index
         /\ ~ IsDead(worker[w].host, worker[w].session)
         /\ Goes(w, "run", worker[w].repeat)
         /\ worker'[w].session = worker[w].session
         /\ worker'[w].next = worker[w].next + 1
         /\ worker'[w].output = Append(worker[w].output, worker[w].next)
         /\ Counts(worker[w].host, worker[w].next)
         /\ UNCHANGED <<callVars, sessionVars, hits, troubled, queue, dial, answer>>
<1>1. Running(w) /\ worker[w].next \in Index
  BY ThreadFacts DEF Execute, Running, Index
<1>2. Append(worker[w].output, worker[w].next) \in Seq(Index)
  BY <1>1, ThreadFacts
<1>3. worker' = [worker EXCEPT ![w].next = worker[w].next + 1,
                               ![w].output = Append(worker[w].output, worker[w].next)]
  BY ThreadFacts DEF Execute
<1>4. executed' = [executed EXCEPT ![worker[w].host][worker[w].next]
                       = executed[worker[w].host][worker[w].next] + 1]
  BY DEF Execute
<1>5. Counts(worker[w].host, worker[w].next)
  BY <1>1, <1>4, ThreadFacts, CountsEffect
<1> QED BY <1>1, <1>2, <1>3, <1>5, AdvanceEffect DEF Execute

LEMMA ExecuteRaisesEffect ==
  ASSUME TypeOK, NEW w \in Workers, ExecuteRaises(w)
  PROVE  /\ Running(w) /\ worker[w].next \in Index
         /\ executed' = executed \/ Counts(worker[w].host, worker[w].next)
         /\ troubled' = troubled \cup {worker[w].host}
         /\ Finish(w, "raised", << >>) /\ << >> \in Seq(Index)
         /\ UNCHANGED <<callVars, sessionVars, hits, queue, dial>>
<1>1. Running(w) /\ worker[w].next \in Index
  BY ThreadFacts DEF ExecuteRaises, Running, Index
<1>2. \/ executed' = executed
      \/ executed' = [executed EXCEPT ![worker[w].host][worker[w].next]
                        = executed[worker[w].host][worker[w].next] + 1]
  BY DEF ExecuteRaises
<1>3. executed' = executed \/ Counts(worker[w].host, worker[w].next)
  BY <1>1, <1>2, ThreadFacts, CountsEffect
<1> QED BY <1>1, <1>3 DEF ExecuteRaises

LEMMA PassOverEffect ==
  ASSUME TypeOK, NEW w \in Workers, Running(w), PassOver(w)
  PROVE  \/ kind = "transfer" /\ Finish(w, "done", worker[w].output)
         \/ /\ kind = "exec" /\ Goes(w, "run", worker[w].repeat) /\ answer' = answer
            /\ worker'[w].session = worker[w].session
            /\ worker'[w].next = worker[w].next + 1
            /\ worker'[w].output = worker[w].output
<1>1. CASE kind = "transfer"
  BY <1>1 DEF PassOver
<1>2. CASE kind # "transfer"
  <2>1. worker' = [worker EXCEPT ![w].next = worker[w].next + 1] /\ answer' = answer
    BY <1>2, ThreadFacts DEF PassOver
  <2>2. worker' = [worker EXCEPT ![w].next = worker[w].next + 1, ![w].output = worker[w].output]
    BY <2>1, ThreadFacts DEF Thread
  <2>3. kind = "exec"
    BY <1>2 DEF TypeOK
  <2> QED BY <2>1, <2>2, <2>3, ThreadFacts, AdvanceEffect
<1> QED BY <1>1, <1>2

LEMMA SessionDeadEffect ==
  ASSUME TypeOK, NEW w \in Workers, SessionDead(w)
  PROVE  /\ Running(w) /\ IsDead(worker[w].host, worker[w].session)
         /\ UNCHANGED <<callVars, sessionVars, historyVars, queue, dial>>
         /\ \/ /\ kind = "exec" /\ ~ worker[w].repeat
               /\ Goes(w, "connect", FALSE) /\ answer' = answer
            \/ (kind = "transfer" \/ worker[w].repeat) /\ PassOver(w)
<1>1. CASE kind = "exec" /\ ~ worker[w].repeat
  <2> DEFINE r == [worker[w] EXCEPT !.pc = "connect"]
  <2>1. worker' = [worker EXCEPT ![w] = r] /\ answer' = answer
    BY <1>1, ThreadFacts DEF SessionDead
  <2>2. r \in Thread /\ r.pc = "connect" /\ r.repeat = FALSE /\ r.host = worker[w].host
    BY <1>1, ThreadFacts DEF Thread
  <2> HIDE DEF r
  <2>3. Goes(w, "connect", FALSE)
    BY <2>1, <2>2, ThreadFacts DEF Goes
  <2> QED BY <1>1, <2>1, <2>3 DEF SessionDead
<1>2. CASE ~ (kind = "exec" /\ ~ worker[w].repeat)
  BY <1>2, ThreadFacts DEF SessionDead, TypeOK
<1> QED BY <1>1, <1>2

LEMMA TakeEffect ==
  ASSUME TypeOK, NEW w \in Workers, Take(w)
  PROVE  /\ worker[w].pc = "idle"
         /\ worker' \in [Workers -> Thread]
         /\ \A v \in Workers \ {w} : worker'[v] = worker[v]
         /\ worker'[w].pc = "begin" /\ worker'[w].repeat = FALSE
         /\ worker'[w].host \in queue /\ queue' = queue \ {worker'[w].host}
         /\ UNCHANGED <<callVars, sessionVars, historyVars, dial, answer>>
<1>1. PICK h \in queue : /\ worker' = [worker EXCEPT ![w] = [Idle EXCEPT !.pc = "begin", !.host = h]]
                         /\ queue' = queue \ {h}
  BY DEF Take
<1> DEFINE r == [Idle EXCEPT !.pc = "begin", !.host = h]
<1>2. r \in Thread /\ r.pc = "begin" /\ r.repeat = FALSE /\ r.host = h
  BY IdleFacts DEF Thread, TypeOK
<1> HIDE DEF r
<1>3. worker' = [worker EXCEPT ![w] = r]
  BY <1>1 DEF r
<1> QED BY <1>1, <1>2, <1>3, ThreadFacts DEF Take

\* A second pass begins as the reconnection ends.
LEMMA BeginAgainEffect ==
  ASSUME TypeOK, NEW w \in Workers,
         worker' = [worker EXCEPT ![w].pc = "begin", ![w].repeat = TRUE]
  PROVE  Goes(w, "begin", TRUE)
<1> DEFINE r == [worker[w] EXCEPT !.pc = "begin", !.repeat = TRUE]
<1>1. worker' = [worker EXCEPT ![w] = r]
  BY ThreadFacts
<1>2. r \in Thread /\ r.pc = "begin" /\ r.repeat = TRUE /\ r.host = worker[w].host
  BY ThreadFacts DEF Thread
<1> HIDE DEF r
<1> QED BY <1>1, <1>2, ThreadFacts DEF Goes

\* The loop of connect() goes on with the next host, or ends: the main thread is ready, a
\* thread of the pool begins its second pass.
LEMMA NextHostEffect ==
  ASSUME TypeOK, NEW a \in Agents, Connecting(a), NextHost(a)
  PROVE  /\ dial' \in [Agents -> [at : 1 .. Len(HostSeq), attempt : 0 .. Retries - 1]]
         /\ \A b \in Agents \ {a} : dial'[b] = dial[b]
         /\ \/ /\ dial'[a].at = dial[a].at + 1
               /\ UNCHANGED <<main, worker>>
            \/ /\ dial[a].at = Len(HostSeq) /\ dial'[a].at = 1
               /\ a = Main /\ main' = "ready" /\ worker' = worker
            \/ /\ dial[a].at = Len(HostSeq) /\ dial'[a].at = 1
               /\ a \in Workers /\ main' = main
               /\ Goes(a, "begin", TRUE)
<1>1. /\ dial[a].at \in 1 .. Len(HostSeq) /\ FirstDial.at = 1
      /\ FirstDial \in [at : 1 .. Len(HostSeq), attempt : 0 .. Retries - 1]
  BY ConstantFacts DEF TypeOK, FirstDial
<1>2. CASE dial[a].at < Len(HostSeq)
  <2> DEFINE d == [at |-> dial[a].at + 1, attempt |-> 0]
  <2>1. d \in [at : 1 .. Len(HostSeq), attempt : 0 .. Retries - 1] /\ d.at = dial[a].at + 1
    BY <1>1, <1>2, ConstantFacts
  <2>2. dial' = [dial EXCEPT ![a] = d] /\ UNCHANGED <<main, worker>>
    BY <1>2 DEF NextHost
  <2> HIDE DEF d
  <2> QED BY <2>1, <2>2 DEF TypeOK
<1>3. CASE ~ dial[a].at < Len(HostSeq)
  <2>1. dial[a].at = Len(HostSeq) /\ dial' = [dial EXCEPT ![a] = FirstDial]
    BY <1>1, <1>3, ConstantFacts DEF NextHost
  <2>2. \/ a = Main /\ main' = "ready" /\ worker' = worker
        \/ /\ a \in Workers /\ main' = main
           /\ Goes(a, "begin", TRUE)
    BY <1>3, ConstantFacts, BeginAgainEffect DEF NextHost, Connecting
  <2> QED BY <1>1, <2>1, <2>2 DEF TypeOK
<1> QED BY <1>2, <1>3

\* An attempt that failed: the next attempt, the next host, or exit(1).
LEMMA ConnectFailsEffect ==
  ASSUME TypeOK, NEW a \in Agents, NEW fatal \in BOOLEAN, ConnectFails(a, fatal)
  PROVE  /\ dial' \in [Agents -> [at : 1 .. Len(HostSeq), attempt : 0 .. Retries - 1]]
         /\ \A b \in Agents \ {a} : dial'[b] = dial[b]
         /\ UNCHANGED <<calls, kind, sessionVars, executed, hits, queue>>
         /\ troubled' = troubled \cup {Dialled(a)}
         /\ \/ dial'[a].at = dial[a].at /\ UNCHANGED <<main, worker, answer>>
            \/ a = Main /\ main' = "exited" /\ dial'[a].at = 1 /\ UNCHANGED <<worker, answer>>
            \/ /\ a \in Workers /\ Ends(a, "lost") /\ dial'[a].at = 1 /\ main' = main
               /\ answer' \in [Hosts -> [state  : {"none", "pending", "done", "raised", "lost"},
                                         output : Seq(Index)]]
<1>1. /\ dial[a] \in [at : 1 .. Len(HostSeq), attempt : 0 .. Retries - 1]
      /\ FirstDial.at = 1
      /\ FirstDial \in [at : 1 .. Len(HostSeq), attempt : 0 .. Retries - 1]
  BY ConstantFacts DEF TypeOK, FirstDial
<1>2. CASE ~ fatal /\ dial[a].attempt + 1 < Retries /\ dial' = [dial EXCEPT ![a].attempt = @ + 1]
           /\ UNCHANGED <<main, worker, answer>>
  <2> DEFINE d == [dial[a] EXCEPT !.attempt = @ + 1]
  <2>1. dial' = [dial EXCEPT ![a] = d]
    BY <1>2 DEF TypeOK
  <2>2. d \in [at : 1 .. Len(HostSeq), attempt : 0 .. Retries - 1] /\ d.at = dial[a].at
    BY <1>1, <1>2, ConstantFacts
  <2> HIDE DEF d
  <2> QED BY <1>2, <2>1, <2>2 DEF ConnectFails, TypeOK
<1>3. CASE /\ dial' = [dial EXCEPT ![a] = FirstDial]
           /\ IF a = Main
              THEN main' = "exited" /\ UNCHANGED <<worker, answer>>
              ELSE /\ worker' = [worker EXCEPT ![a] = Idle]
                   /\ answer' = [answer EXCEPT ![worker[a].host].state = "lost"]
                   /\ UNCHANGED main
  <2>1. CASE a = Main
    BY <1>1, <1>3, <2>1 DEF ConnectFails, TypeOK
  <2>2. CASE a # Main
    <3>1. a \in Workers /\ worker[a].host \in Hosts
      BY <2>2, ThreadFacts DEF Agents
    <3>2. worker' \in [Workers -> Thread] /\ worker'[a] = Idle
          /\ \A v \in Workers \ {a} : worker'[v] = worker[v]
      BY <1>3, <2>2, <3>1, ThreadFacts, IdleFacts
    <3> DEFINE h == worker[a].host
               r == [answer[h] EXCEPT !.state = "lost"]
    <3>3. answer' = [answer EXCEPT ![h] = r]
      BY <1>3, <2>2, <3>1 DEF TypeOK
    <3>4. r \in [state  : {"none", "pending", "done", "raised", "lost"}, output : Seq(Index)]
          /\ r.state = "lost"
      BY <3>1 DEF TypeOK
    <3> HIDE DEF r
    <3>5. Ends(a, "lost") /\ answer' \in [Hosts -> [state  : {"none", "pending", "done", "raised", "lost"},
                                         output : Seq(Index)]]
      BY <3>1, <3>2, <3>3, <3>4 DEF Ends, TypeOK
    <3> QED BY <1>1, <1>3, <2>2, <3>1, <3>5 DEF ConnectFails, TypeOK
  <2> QED BY <2>1, <2>2
<1> QED BY <1>2, <1>3 DEF ConnectFails

LEMMA ConnectSilentEffect ==
  ASSUME TypeOK, NEW a \in Agents, ConnectSilent(a)
  PROVE  \/ /\ dial' \in [Agents -> [at : 1 .. Len(HostSeq), attempt : 0 .. Retries - 1]]
            /\ \A b \in Agents \ {a} : dial'[b] = dial[b]
            /\ dial'[a].at = dial[a].at /\ UNCHANGED <<main, worker>>
         \/ NextHost(a)
<1>1. CASE NextHost(a)
  BY <1>1
<1>2. CASE dial[a].attempt + 1 < Retries /\ dial' = [dial EXCEPT ![a].attempt = @ + 1]
           /\ UNCHANGED <<main, worker>>
  <2> DEFINE d == [dial[a] EXCEPT !.attempt = @ + 1]
  <2>1. dial' = [dial EXCEPT ![a] = d]
    BY <1>2 DEF TypeOK
  <2>2. dial[a] \in [at : 1 .. Len(HostSeq), attempt : 0 .. Retries - 1]
    BY DEF TypeOK
  <2>3. d \in [at : 1 .. Len(HostSeq), attempt : 0 .. Retries - 1] /\ d.at = dial[a].at
    BY <1>2, <2>2, ConstantFacts
  <2> HIDE DEF d
  <2> QED BY <1>2, <2>1, <2>3 DEF TypeOK
<1> QED BY <1>1, <1>2 DEF ConnectSilent

-----------------------------------------------------------------------------
\* The steps keep the types.

LEMMA DialledFacts ==
  ASSUME TypeOK, NEW a \in Agents
  PROVE  Dialled(a) \in Hosts /\ dial[a].at \in 1 .. Len(HostSeq)
BY ConstantFacts DEF TypeOK, Dialled

LEMMA TypeInit == Init => TypeOK
<1> SUFFICES ASSUME Init PROVE TypeOK
  OBVIOUS
<1>1. worker \in [Workers -> Thread]
  BY IdleFacts DEF Init
<1>2. dial \in [Agents -> [at : 1 .. Len(HostSeq), attempt : 0 .. Retries - 1]]
  BY ConstantFacts DEF Init, FirstDial
<1>3. answer \in [Hosts -> [state  : {"none", "pending", "done", "raised", "lost"},
                            output : Seq(Index)]]
  BY DEF Init, Answer
<1> QED BY <1>1, <1>2, <1>3, ConstantFacts DEF Init, TypeOK, Thread, Session

LEMMA TypeNext ==
  ASSUME TypeOK, [Next]_vars
  PROVE  TypeOK'
<1> USE DEF callVars, sessionVars, historyVars
<1>1. ASSUME NEW a \in Agents, Connect(a)
      PROVE  TypeOK'
  <2>1. Connecting(a) /\ NextHost(a) /\ UNCHANGED <<calls, kind, dead, historyVars, queue, answer>>
    BY <1>1 DEF Connect
  <2>2. clients' \in [Hosts -> Session] /\ opened' \in [Hosts -> Session]
    BY <1>1, DialledFacts DEF Connect, TypeOK, Session
  <2>3. /\ dial' \in [Agents -> [at : 1 .. Len(HostSeq), attempt : 0 .. Retries - 1]]
        /\ worker' \in [Workers -> Thread]
        /\ main' \in {"connecting", "ready", "executing", "exited"}
    BY <2>1, NextHostEffect, ThreadFacts DEF TypeOK, Goes
  <2> QED BY <2>1, <2>2, <2>3 DEF TypeOK, Thread
<1>2. ASSUME NEW a \in Agents, ConnectSilent(a)
      PROVE  TypeOK'
  <2>1. /\ Connecting(a) /\ troubled' = troubled \cup {Dialled(a)}
        /\ UNCHANGED <<calls, kind, sessionVars, executed, hits, queue, answer>>
    BY <1>2 DEF ConnectSilent
  <2>2. /\ dial' \in [Agents -> [at : 1 .. Len(HostSeq), attempt : 0 .. Retries - 1]]
        /\ worker' \in [Workers -> Thread]
        /\ main' \in {"connecting", "ready", "executing", "exited"}
    BY <1>2, <2>1, ConnectSilentEffect, NextHostEffect, ThreadFacts DEF TypeOK, Goes
  <2> QED BY <2>1, <2>2, DialledFacts DEF TypeOK, Thread
<1>3. ASSUME NEW a \in Agents, NEW fatal \in BOOLEAN, ConnectFails(a, fatal)
      PROVE  TypeOK'
  <2>1. /\ worker' \in [Workers -> Thread]
        /\ main' \in {"connecting", "ready", "executing", "exited"}
        /\ answer' \in [Hosts -> [state  : {"none", "pending", "done", "raised", "lost"},
                                  output : Seq(Index)]]
    BY <1>3, ConnectFailsEffect, ThreadFacts DEF TypeOK, Ends
  <2>2. /\ dial' \in [Agents -> [at : 1 .. Len(HostSeq), attempt : 0 .. Retries - 1]]
        /\ UNCHANGED <<calls, kind, sessionVars, executed, hits, queue>>
        /\ troubled' = troubled \cup {Dialled(a)}
    BY <1>3, ConnectFailsEffect
  <2>3. troubled' \subseteq Hosts
    BY <2>2, DialledFacts DEF TypeOK
  <2> QED BY <2>1, <2>2, <2>3 DEF TypeOK, Thread
<1>4. ASSUME NEW k \in {"exec", "transfer"}, NEW S \in SUBSET Hosts, Call(k, S)
      PROVE  TypeOK'
  <2>1. answer' \in [Hosts -> [state  : {"none", "pending", "done", "raised", "lost"},
                               output : Seq(Index)]]
    BY <1>4 DEF Call, Answer
  <2>2. executed' \in [Hosts -> [Index -> Nat]] /\ hits' \in [Hosts -> Nat]
    BY <1>4 DEF Call
  <2>3. calls' \in 0 .. MaxCalls
    BY <1>4, ConstantFacts DEF Call, TypeOK
  <2> QED BY <1>4, <2>1, <2>2, <2>3 DEF Call, TypeOK
<1>5. ASSUME NEW w \in Workers, Take(w)
      PROVE  TypeOK'
  BY <1>5, TakeEffect DEF TypeOK, Thread
<1>6. ASSUME NEW w \in Workers, Begin(w)
      PROVE  TypeOK'
  <2>1. << >> \in Seq(Index)
    OBVIOUS
  <2>2. /\ worker' \in [Workers -> Thread]
        /\ answer' \in [Hosts -> [state  : {"none", "pending", "done", "raised", "lost"},
                                  output : Seq(Index)]]
    BY <1>6, <2>1, BeginEffect, FinishEffect DEF TypeOK, Goes, Ends
  <2> QED BY <1>6, <2>2, BeginEffect DEF TypeOK, Thread
<1>7. ASSUME NEW w \in Workers, Execute(w)
      PROVE  TypeOK'
  BY <1>7, ExecuteEffect DEF TypeOK, Thread, Goes, Counts
<1>8. ASSUME NEW w \in Workers, ExecuteRaises(w)
      PROVE  TypeOK'
  <2>1. /\ executed' \in [Hosts -> [Index -> Nat]] /\ troubled' \subseteq Hosts
        /\ Finish(w, "raised", << >>) /\ << >> \in Seq(Index)
        /\ UNCHANGED <<callVars, sessionVars, hits, queue, dial>>
    BY <1>8, ExecuteRaisesEffect, ThreadFacts DEF Counts, TypeOK
  <2>2. /\ worker' \in [Workers -> Thread]
        /\ answer' \in [Hosts -> [state  : {"none", "pending", "done", "raised", "lost"},
                                  output : Seq(Index)]]
    BY <2>1, FinishEffect DEF Ends
  <2> QED BY <2>1, <2>2 DEF TypeOK, Thread
<1>9. ASSUME NEW w \in Workers, Running(w), PassOver(w)
      PROVE  /\ worker' \in [Workers -> Thread]
             /\ answer' \in [Hosts -> [state  : {"none", "pending", "done", "raised", "lost"},
                                       output : Seq(Index)]]
  BY <1>9, PassOverEffect, FinishEffect, ThreadFacts DEF TypeOK, Goes, Ends
<1>10. ASSUME NEW w \in Workers, Refused(w)
       PROVE  TypeOK'
  BY <1>9, <1>10, ThreadFacts DEF Refused, TypeOK, Thread
<1>11. ASSUME NEW w \in Workers, SessionDead(w)
       PROVE  TypeOK'
  <2>1. /\ worker' \in [Workers -> Thread]
        /\ answer' \in [Hosts -> [state  : {"none", "pending", "done", "raised", "lost"},
                                  output : Seq(Index)]]
    BY <1>9, <1>11, SessionDeadEffect DEF TypeOK, Goes
  <2> QED BY <1>11, <2>1, SessionDeadEffect DEF TypeOK, Thread
<1>12. ASSUME NEW w \in Workers, Return(w)
       PROVE  TypeOK'
  <2>1. worker[w].output \in Seq(Index) /\ Finish(w, "done", worker[w].output)
    BY <1>12, ThreadFacts DEF Return
  <2> QED BY <1>12, <2>1, FinishEffect DEF Return, TypeOK, Thread, Ends
<1>13. ASSUME Collect
       PROVE  TypeOK'
  BY <1>13 DEF Collect, TypeOK
<1>14. ASSUME NEW h \in Hosts, NEW n \in 1 .. opened[h], Drop(h, n)
       PROVE  TypeOK'
  <2>1. dead' \subseteq Hosts \X Session /\ hits' \in [Hosts -> Nat]
    BY <1>14 DEF Drop, TypeOK, Session
  <2> QED BY <1>14, <2>1 DEF Drop, TypeOK
<1>15. ASSUME UNCHANGED vars
       PROVE  TypeOK'
  BY <1>15 DEF vars, TypeOK
<1> QED
  BY <1>1, <1>2, <1>3, <1>4, <1>5, <1>6, <1>7, <1>8, <1>10, <1>11, <1>12, <1>13, <1>14, <1>15
     DEF Next, ConnectStep, TaskStep, Stopped

-----------------------------------------------------------------------------
\* A host has one thread, and is answered once.

\* What TasksOK needs of a thread that goes on.
LEMMA TasksGoOn ==
  ASSUME TypeOK, TasksOK, NEW w \in Workers, NEW pc \in {"begin", "run", "connect"},
         NEW repeat, Goes(w, pc, repeat), Active(w), answer' = answer, queue' = queue,
         main' = main, dial'[w].at = 1, \A v \in Workers \ {w} : dial'[v] = dial[v]
  PROVE  TasksOK'
<1>1. \A v \in Workers : /\ Active(v)' <=> Active(v)
                         /\ worker'[v].host = worker[v].host
  BY DEF Goes, Active
<1>2. main = "executing"
  BY DEF TasksOK, WorkersIdle, Active
<1>3. \A v \in Workers : worker'[v].pc # "connect" => dial'[v].at = 1
  BY DEF Goes, TasksOK
<1> QED BY <1>1, <1>2, <1>3 DEF TasksOK

\* The end of a task.
LEMMA TasksEnd ==
  ASSUME TypeOK, TasksOK, NEW w \in Workers, NEW state \in {"done", "raised", "lost"},
         Active(w), Ends(w, state), queue' = queue, main' = main,
         dial'[w].at = 1, \A v \in Workers \ {w} : dial'[v] = dial[v]
  PROVE  TasksOK'
<1>1. /\ \A v \in Workers \ {w} : /\ worker'[v] = worker[v]
                                  /\ Active(v)' <=> Active(v)
                                  /\ Active(v) => worker[v].host # worker[w].host
      /\ ~ Active(w)'
  BY IdleFacts DEF Ends, Active, TasksOK
<1>2. main = "executing"
  BY DEF TasksOK, WorkersIdle, Active
<1>3. \A h \in Hosts \ {worker[w].host} : answer'[h] = answer[h]
  BY DEF Ends
<1>4. /\ queue \subseteq Hosts /\ worker[w].host \notin queue
      /\ \A v \in Workers : worker[v].host \in Hosts
  <2>1. queue \subseteq Hosts
    BY DEF TypeOK
  <2> QED BY <2>1, ThreadFacts DEF TasksOK
<1>5. \A v \in Workers : Active(v)' => v # w /\ Active(v) /\ worker'[v].host = worker[v].host
  BY <1>1
<1>6. \A v \in Workers : worker'[v].pc # "connect" => dial'[v].at = 1
  BY <1>1 DEF TasksOK
<1>7. \A h \in queue' : answer'[h].state = "pending"
  BY <1>3, <1>4 DEF TasksOK
<1>8. \A v \in Workers : Active(v)' =>
        answer'[worker'[v].host].state = "pending" /\ worker'[v].host \notin queue'
  BY <1>1, <1>3, <1>4, <1>5 DEF TasksOK
<1>9. \A u, v \in Workers :
        Active(u)' /\ Active(v)' /\ worker'[u].host = worker'[v].host => u = v
  BY <1>5 DEF TasksOK
<1> QED BY <1>2, <1>6, <1>7, <1>8, <1>9 DEF TasksOK

LEMMA TasksNext ==
  ASSUME TypeOK, TasksOK, [Next]_vars
  PROVE  TasksOK'
<1> USE DEF callVars, sessionVars, historyVars
\* A reconnection that goes on or ends well.
<1>1. ASSUME NEW a \in Agents, Connecting(a), NextHost(a), UNCHANGED <<queue, answer>>
      PROVE  TasksOK'
  <2>1. CASE UNCHANGED <<main, worker>>
    <3>1. a = Main \/ worker[a].pc = "connect"
      BY <1>1 DEF Connecting
    <3>2. \A w \in Workers : worker[w].pc # "connect" => dial'[w].at = 1
      BY <1>1, <3>1, NextHostEffect, ConstantFacts DEF TasksOK
    <3> QED BY <1>1, <2>1, <3>2 DEF TasksOK, Active, WorkersIdle
  <2>2. CASE a = Main /\ main' = "ready" /\ worker' = worker
    <3>1. main = "connecting" /\ \A w \in Workers : dial'[w] = dial[w]
      BY <1>1, <2>2, NextHostEffect, ConstantFacts DEF Connecting
    <3> QED BY <1>1, <2>2, <3>1 DEF TasksOK, Active, WorkersIdle
  <2>3. CASE a \in Workers /\ main' = main /\ Goes(a, "begin", TRUE) /\ dial'[a].at = 1
    <3>1. Active(a) /\ \A w \in Workers \ {a} : dial'[w] = dial[w]
      BY <1>1, <2>3, NextHostEffect, ConstantFacts DEF Connecting, Active
    <3> QED BY <1>1, <2>3, <3>1, TasksGoOn
  <2> QED BY <1>1, <2>1, <2>2, <2>3, NextHostEffect
<1>2. ASSUME NEW a \in Agents, Connect(a)
      PROVE  TasksOK'
  BY <1>1, <1>2 DEF Connect
<1>3. ASSUME NEW a \in Agents, ConnectSilent(a)
      PROVE  TasksOK'
  <2>1. Connecting(a) /\ UNCHANGED <<queue, answer>>
    BY <1>3 DEF ConnectSilent
  <2>2. CASE /\ \A b \in Agents \ {a} : dial'[b] = dial[b]
             /\ dial'[a].at = dial[a].at /\ UNCHANGED <<main, worker>>
    BY <2>1, <2>2, ConstantFacts DEF TasksOK, Active, WorkersIdle
  <2> QED BY <1>1, <1>3, <2>1, <2>2, ConnectSilentEffect
<1>4. ASSUME NEW a \in Agents, NEW fatal \in BOOLEAN, ConnectFails(a, fatal)
      PROVE  TasksOK'
  <2>1. /\ Connecting(a) /\ queue' = queue
        /\ \A b \in Agents \ {a} : dial'[b] = dial[b]
    BY <1>4, ConnectFailsEffect DEF ConnectFails
  <2>2. CASE dial'[a].at = dial[a].at /\ UNCHANGED <<main, worker, answer>>
    BY <2>1, <2>2, ConstantFacts DEF TasksOK, Active, WorkersIdle
  <2>3. CASE a = Main /\ main' = "exited" /\ UNCHANGED <<worker, answer>>
    BY <2>1, <2>3, ConstantFacts DEF TasksOK, Active, WorkersIdle, Connecting
  <2>4. CASE a \in Workers /\ Ends(a, "lost") /\ dial'[a].at = 1 /\ main' = main
    <3>1. Active(a) /\ \A w \in Workers \ {a} : dial'[w] = dial[w]
      BY <2>1, <2>4, ConstantFacts DEF Connecting, Active
    <3> QED BY <2>1, <2>4, <3>1, TasksEnd
  <2> QED BY <1>4, <2>2, <2>3, <2>4, ConnectFailsEffect
<1>5. ASSUME NEW k \in {"exec", "transfer"}, NEW S \in SUBSET Hosts, Call(k, S)
      PROVE  TasksOK'
  <2>1. /\ main = "ready" /\ main' = "executing" /\ queue' = S /\ UNCHANGED <<worker, dial>>
        /\ \A h \in S : answer'[h].state = "pending"
    BY <1>5 DEF Call, Answer
  <2>2. \A w \in Workers : ~ Active(w)
    BY <2>1 DEF TasksOK, WorkersIdle, Active
  <2> QED BY <2>1, <2>2 DEF TasksOK, Active, WorkersIdle
<1>6. ASSUME NEW w \in Workers, Take(w)
      PROVE  TasksOK'
  <2>1. /\ worker[w].pc = "idle" /\ worker'[w].pc = "begin"
        /\ worker'[w].host \in queue /\ queue' = queue \ {worker'[w].host}
        /\ \A v \in Workers \ {w} : worker'[v] = worker[v]
        /\ UNCHANGED <<main, dial, answer>>
    BY <1>6, TakeEffect
  <2> QED BY <2>1 DEF TasksOK, Active, WorkersIdle
<1>7. ASSUME NEW w \in Workers, Begin(w)
      PROVE  TasksOK'
  <2>1. /\ Active(w) /\ queue' = queue /\ main' = main /\ dial' = dial /\ dial[w].at = 1
        /\ \/ Finish(w, "raised", << >>)
           \/ Goes(w, "run", worker[w].repeat) /\ answer' = answer
    BY <1>7, BeginEffect DEF Active, TasksOK
  <2>2. << >> \in Seq(Index)
    OBVIOUS
  <2> QED BY <2>1, <2>2, FinishEffect, TasksGoOn, TasksEnd
<1>8. ASSUME NEW w \in Workers, Execute(w)
      PROVE  TasksOK'
  <2>1. /\ Active(w) /\ queue' = queue /\ main' = main /\ dial' = dial /\ dial[w].at = 1
        /\ Goes(w, "run", worker[w].repeat) /\ answer' = answer
    BY <1>8, ExecuteEffect DEF Active, TasksOK, Running
  <2> QED BY <2>1, TasksGoOn
<1>9. ASSUME NEW w \in Workers, ExecuteRaises(w)
      PROVE  TasksOK'
  <2>1. /\ Active(w) /\ queue' = queue /\ main' = main /\ dial' = dial /\ dial[w].at = 1
        /\ Ends(w, "raised")
    BY <1>9, ExecuteRaisesEffect, FinishEffect DEF Active, TasksOK, Running
  <2> QED BY <2>1, TasksEnd
<1>10. ASSUME NEW w \in Workers, Running(w), PassOver(w), UNCHANGED <<queue, main, dial>>
       PROVE  TasksOK'
  <2>1. /\ Active(w) /\ dial'[w].at = 1
        /\ Ends(w, "done") \/ (Goes(w, "run", worker[w].repeat) /\ answer' = answer)
    BY <1>10, PassOverEffect, FinishEffect, ThreadFacts DEF Active, TasksOK, Running
  <2> QED BY <1>10, <2>1, TasksGoOn, TasksEnd
<1>11. ASSUME NEW w \in Workers, Refused(w)
       PROVE  TasksOK'
  BY <1>10, <1>11 DEF Refused
<1>12. ASSUME NEW w \in Workers, SessionDead(w)
       PROVE  TasksOK'
  <2>1. /\ Active(w) /\ Running(w) /\ UNCHANGED <<queue, main, dial>> /\ dial'[w].at = 1
        /\ PassOver(w) \/ (Goes(w, "connect", FALSE) /\ answer' = answer)
    BY <1>12, SessionDeadEffect DEF Active, TasksOK, Running
  <2> QED BY <1>10, <2>1, TasksGoOn
<1>13. ASSUME NEW w \in Workers, Return(w)
       PROVE  TasksOK'
  <2>1. /\ Active(w) /\ queue' = queue /\ main' = main /\ dial' = dial /\ dial[w].at = 1
        /\ Ends(w, "done")
    BY <1>13, FinishEffect, ThreadFacts DEF Return, Active, TasksOK
  <2> QED BY <2>1, TasksEnd
<1>14. ASSUME Collect
       PROVE  TasksOK'
  <2>1. queue = {} /\ WorkersIdle
    BY <1>14, ThreadFacts DEF Collect, TasksOK, TypeOK, WorkersIdle, Active
  <2> QED BY <1>14, <2>1 DEF Collect, TasksOK, Active, WorkersIdle
<1>15. ASSUME NEW h \in Hosts, NEW n \in 1 .. opened[h], Drop(h, n)
       PROVE  TasksOK'
  BY <1>15 DEF Drop, TasksOK, Active, WorkersIdle
<1>16. ASSUME UNCHANGED vars
       PROVE  TasksOK'
  BY <1>16 DEF vars, TasksOK, Active, WorkersIdle
<1> QED
  BY <1>2, <1>3, <1>4, <1>5, <1>6, <1>7, <1>8, <1>9, <1>11, <1>12, <1>13, <1>14, <1>15, <1>16
     DEF Next, ConnectStep, TaskStep, Stopped

-----------------------------------------------------------------------------
\* No command is executed more than twice.

\* What the other threads have executed is as it was.
LEMMA PassOther ==
  ASSUME NEW v \in Workers, PassOf(v), worker'[v] = worker[v], kind' = kind,
         Active(v) => executed'[worker[v].host] = executed[worker[v].host]
  PROVE  PassOf(v)'
BY DEF PassOf, Active, Allowed

\* A thread that goes on may have executed no less than before.
LEMMA PassGoOn ==
  ASSUME TypeOK, PassOK, NEW w \in Workers, NEW pc \in {"begin", "run", "connect"},
         NEW repeat \in BOOLEAN, Goes(w, pc, repeat), Active(w),
         \A i \in Index : Allowed(w, i) <= Allowed(w, i)',
         kind = "transfer" => ~ repeat /\ pc # "connect",
         pc = "connect" => ~ repeat,
         UNCHANGED <<executed, queue, kind>>
  PROVE  PassOK'
<1>1. /\ worker'[w].pc = pc /\ worker'[w].repeat = repeat /\ worker'[w].host = worker[w].host
      /\ \A v \in Workers \ {w} : worker'[v] = worker[v]
  BY DEF Goes
<1>2. ASSUME NEW i \in Index
      PROVE  executed[worker[w].host][i] <= Allowed(w, i)'
  <2>1. executed[worker[w].host][i] <= Allowed(w, i) /\ executed[worker[w].host][i] \in Nat
    BY ThreadFacts DEF PassOK, PassOf, TypeOK
  <2>2. Allowed(w, i) \in Nat /\ Allowed(w, i)' \in Nat
    BY DEF Allowed
  <2> QED BY <2>1, <2>2
<1>3. PassOf(w)'
  BY <1>1, <1>2 DEF PassOf
<1>4. \A v \in Workers \ {w} : PassOf(v)'
  BY <1>1, PassOther DEF PassOK
<1> QED BY <1>3, <1>4 DEF PassOK

\* A step that ends a task, and executes nothing.
LEMMA PassEnd ==
  ASSUME PassOK, NEW w \in Workers, NEW state, Ends(w, state), UNCHANGED <<executed, queue, kind>>
  PROVE  PassOK'
<1>1. \A v \in Workers \ {w} : worker'[v] = worker[v]
  BY DEF Ends
<1>2. PassOf(w)'
  BY IdleFacts DEF Ends, PassOf, Active
<1>3. \A v \in Workers \ {w} : PassOf(v)'
  BY <1>1, PassOther DEF PassOK
<1> QED BY <1>2, <1>3 DEF PassOK

\* One more execution is within what the thread is allowed once it has passed the command,
\* and is no matter to the others.
LEMMA OneMore ==
  ASSUME TypeOK, TasksOK, PassOK, AtMostTwice, NEW w \in Workers, Running(w),
         worker[w].next \in Index, Counts(worker[w].host, worker[w].next), kind' = kind
  PROVE  /\ AtMostTwice'
         /\ \A i \in Index : executed'[worker[w].host][i]
              <= (IF worker[w].repeat THEN 1 ELSE 0) + (IF i < worker[w].next + 1 THEN 1 ELSE 0)
         /\ \A v \in Workers \ {w} : Active(v) => executed'[worker[v].host] = executed[worker[v].host]
         /\ \A h \in queue : executed'[h] = executed[h]
<1> DEFINE h == worker[w].host
           n == worker[w].next
<1>1. /\ h \in Hosts /\ n \in Index /\ n \in Nat /\ Active(w) /\ worker[w].pc = "run"
      /\ worker[w].repeat \in BOOLEAN
      /\ \A g \in Hosts, i \in Index : executed[g][i] \in Nat
  <2>1. \A g \in Hosts, i \in Index : executed[g][i] \in Nat
    BY DEF TypeOK
  <2>2. n \in Nat
    BY ThreadFacts, ConstantFacts DEF Index
  <2> QED BY <2>1, <2>2, ThreadFacts DEF Running, Active
<1>2. \A i \in Index : executed[h][i] <= (IF worker[w].repeat THEN 1 ELSE 0) + (IF i < n THEN 1 ELSE 0)
  BY <1>1 DEF PassOK, PassOf, Allowed
<1>3. /\ executed'[h][n] = executed[h][n] + 1
      /\ \A i \in Index \ {n} : executed'[h][i] = executed[h][i]
      /\ \A g \in Hosts \ {h} : executed'[g] = executed[g]
  BY DEF Counts
<1>4. kind = "transfer" => ~ worker[w].repeat
  BY <1>1 DEF PassOK, PassOf
<1>5. \A i \in Index : i \in Nat
  BY ConstantFacts DEF Index
<1>6. \A i \in Index : executed'[h][i]
        <= (IF worker[w].repeat THEN 1 ELSE 0) + (IF i < n + 1 THEN 1 ELSE 0)
  <2> HIDE DEF h, n
  <2> TAKE i \in Index
  <2>1. CASE i = n
    BY <1>1, <1>2, <1>3, <2>1
  <2>2. CASE i # n
    <3>1. i < n => i < n + 1
      BY <1>1, <1>5
    <3> QED BY <1>1, <1>2, <1>3, <2>2, <3>1, <1>5
  <2> QED BY <2>1, <2>2
<1>7. AtMostTwice'
  <2> SUFFICES ASSUME NEW g \in Hosts, NEW i \in Index
               PROVE  executed'[g][i] <= (IF kind = "exec" THEN 2 ELSE 1)
    BY DEF AtMostTwice
  <2>1. CASE g # h
    BY <1>3, <2>1 DEF AtMostTwice
  <2>2. CASE g = h
    <3>1. kind \in {"exec", "transfer"}
      BY DEF TypeOK
    <3>2. executed'[h][i] \in Nat
      BY <1>1 DEF Counts
    <3> HIDE DEF h, n
    <3> QED BY <1>4, <1>6, <2>2, <3>1, <3>2
  <2> QED BY <2>1, <2>2
<1>8. \A v \in Workers \ {w} : Active(v) => worker[v].host \in Hosts \ {h}
  BY <1>1, ThreadFacts DEF TasksOK
<1>9. queue \subseteq Hosts \ {h}
  <2>1. queue \subseteq Hosts
    BY DEF TypeOK
  <2> QED BY <1>1, <2>1 DEF TasksOK
<1> QED BY <1>3, <1>6, <1>7, <1>8, <1>9

LEMMA PassNext ==
  ASSUME TypeOK, TasksOK, PassOK, AtMostTwice, [Next]_vars
  PROVE  PassOK' /\ AtMostTwice'
<1> USE DEF callVars, sessionVars, historyVars
<1>1. ASSUME NEW a \in Agents, Connecting(a), NextHost(a), UNCHANGED <<executed, queue, kind>>
      PROVE  PassOK' /\ AtMostTwice'
  <2>1. AtMostTwice'
    BY <1>1 DEF AtMostTwice
  <2>2. CASE worker' = worker
    BY <1>1, <2>1, <2>2 DEF PassOK, PassOf, Active, Allowed
  <2>3. CASE a \in Workers /\ Goes(a, "begin", TRUE)
    <3>1. Active(a) /\ worker[a].pc = "connect" /\ ~ worker[a].repeat /\ kind # "transfer"
      BY <1>1, <2>3, ConstantFacts DEF Connecting, Active, PassOK, PassOf
    <3>2. \A i \in Index : Allowed(a, i) <= Allowed(a, i)'
      BY <2>3, <3>1 DEF Allowed, Goes
    <3>3. PassOK'
      BY <1>1, <2>3, <3>1, <3>2, PassGoOn
    <3> QED BY <2>1, <3>3
  <2> QED BY <1>1, <2>2, <2>3, NextHostEffect
<1>2. ASSUME NEW a \in Agents, Connect(a)
      PROVE  PassOK' /\ AtMostTwice'
  BY <1>1, <1>2 DEF Connect
<1>3. ASSUME NEW a \in Agents, ConnectSilent(a)
      PROVE  PassOK' /\ AtMostTwice'
  <2>1. Connecting(a) /\ UNCHANGED <<executed, queue, kind>>
    BY <1>3 DEF ConnectSilent
  <2>2. CASE worker' = worker
    BY <2>1, <2>2 DEF PassOK, PassOf, Active, Allowed, AtMostTwice
  <2> QED BY <1>1, <1>3, <2>1, <2>2, ConnectSilentEffect
<1>4. ASSUME NEW a \in Agents, NEW fatal \in BOOLEAN, ConnectFails(a, fatal)
      PROVE  PassOK' /\ AtMostTwice'
  <2>1. UNCHANGED <<executed, queue, kind>> /\ (worker' = worker \/ (a \in Workers /\ Ends(a, "lost")))
    BY <1>4, ConnectFailsEffect
  <2>2. AtMostTwice'
    BY <2>1 DEF AtMostTwice
  <2>3. CASE worker' = worker
    BY <2>1, <2>2, <2>3 DEF PassOK, PassOf, Active, Allowed
  <2> QED BY <2>1, <2>2, <2>3, PassEnd
<1>5. ASSUME NEW k \in {"exec", "transfer"}, NEW S \in SUBSET Hosts, Call(k, S)
      PROVE  PassOK' /\ AtMostTwice'
  <2>1. \A w \in Workers : ~ Active(w)'
    BY <1>5 DEF Call, TasksOK, WorkersIdle, Active
  <2>2. \A h \in Hosts, i \in Index : executed'[h][i] = 0
    BY <1>5 DEF Call
  <2>3. queue' \subseteq Hosts
    BY <1>5 DEF Call
  <2> QED BY <2>1, <2>2, <2>3 DEF PassOK, PassOf, AtMostTwice
<1>6. ASSUME NEW w \in Workers, Take(w)
      PROVE  PassOK' /\ AtMostTwice'
  <2>1. /\ worker'[w].pc = "begin" /\ worker'[w].repeat = FALSE
        /\ worker'[w].host \in queue /\ queue' \subseteq queue
        /\ \A v \in Workers \ {w} : worker'[v] = worker[v]
        /\ UNCHANGED <<executed, kind>>
    BY <1>6, TakeEffect
  <2>2. \A i \in Index : executed'[worker'[w].host][i] = 0 /\ Allowed(w, i)' = 0
    BY <2>1 DEF PassOK, PassOf, Allowed
  <2>3. \A v \in Workers \ {w} : PassOf(v)'
    BY <2>1, PassOther DEF PassOK
  <2>4. PassOf(w)'
    <3>1. \A i \in Index : executed'[worker'[w].host][i] <= Allowed(w, i)'
      BY <2>2
    <3> QED BY <2>1, <3>1 DEF PassOf
  <2> QED BY <2>1, <2>3, <2>4 DEF PassOK, AtMostTwice
<1>7. ASSUME NEW w \in Workers, Begin(w)
      PROVE  PassOK' /\ AtMostTwice'
  <2>1. /\ Active(w) /\ worker[w].pc = "begin" /\ UNCHANGED <<executed, queue, kind>>
        /\ \/ Finish(w, "raised", << >>)
           \/ Goes(w, "run", worker[w].repeat) /\ worker'[w].next = 1
    BY <1>7, BeginEffect DEF Active
  <2>2. << >> \in Seq(Index)
    OBVIOUS
  <2>3. AtMostTwice'
    BY <2>1 DEF AtMostTwice
  <2>4. CASE Goes(w, "run", worker[w].repeat) /\ worker'[w].next = 1
    <3>1. \A i \in Index : ~ i < 1
      BY ConstantFacts DEF Index
    <3>2. \A i \in Index : Allowed(w, i) <= Allowed(w, i)'
      BY <2>1, <2>4, <3>1 DEF Allowed, Goes
    <3>3. kind = "transfer" => ~ worker[w].repeat
      BY <2>1 DEF PassOK, PassOf
    <3> QED BY <2>1, <2>3, <2>4, <3>2, <3>3, PassGoOn, ThreadFacts
  <2> QED BY <2>1, <2>2, <2>3, <2>4, FinishEffect, PassEnd
<1>8. ASSUME NEW w \in Workers, Execute(w)
      PROVE  PassOK' /\ AtMostTwice'
  <2>1. /\ Running(w) /\ worker[w].next \in Index /\ Counts(worker[w].host, worker[w].next)
        /\ Goes(w, "run", worker[w].repeat) /\ worker'[w].next = worker[w].next + 1
        /\ UNCHANGED <<queue, kind>> /\ worker[w].pc = "run" /\ Active(w)
    BY <1>8, ExecuteEffect DEF Running, Active
  <2>2. /\ AtMostTwice'
        /\ \A i \in Index : executed'[worker[w].host][i]
             <= (IF worker[w].repeat THEN 1 ELSE 0) + (IF i < worker[w].next + 1 THEN 1 ELSE 0)
        /\ \A v \in Workers \ {w} : Active(v) => executed'[worker[v].host] = executed[worker[v].host]
        /\ \A h \in queue : executed'[h] = executed[h]
    BY <2>1, OneMore
  <2>3. /\ worker'[w].pc = "run" /\ worker'[w].repeat = worker[w].repeat
        /\ worker'[w].host = worker[w].host
        /\ \A v \in Workers \ {w} : worker'[v] = worker[v]
    BY <2>1 DEF Goes
  <2>4. \A v \in Workers \ {w} : PassOf(v)'
    BY <2>1, <2>2, <2>3, PassOther DEF PassOK
  <2>5. \A i \in Index : executed'[worker'[w].host][i] <= Allowed(w, i)'
    BY <2>1, <2>2, <2>3 DEF Allowed
  <2>6. PassOf(w)'
    <3>1. kind = "transfer" => ~ worker[w].repeat
      BY <2>1 DEF PassOK, PassOf
    <3> QED BY <2>1, <2>3, <2>5, <3>1 DEF PassOf
  <2> QED BY <2>1, <2>2, <2>4, <2>6 DEF PassOK
<1>9. ASSUME NEW w \in Workers, ExecuteRaises(w)
      PROVE  PassOK' /\ AtMostTwice'
  <2>1. /\ Running(w) /\ worker[w].next \in Index /\ Ends(w, "raised")
        /\ UNCHANGED <<queue, kind>>
        /\ executed' = executed \/ Counts(worker[w].host, worker[w].next)
    BY <1>9, ExecuteRaisesEffect, FinishEffect
  <2>2. CASE executed' = executed
    BY <2>1, <2>2, PassEnd DEF AtMostTwice
  <2>3. CASE Counts(worker[w].host, worker[w].next)
    <3>1. /\ AtMostTwice'
          /\ \A v \in Workers \ {w} : Active(v) => executed'[worker[v].host] = executed[worker[v].host]
          /\ \A h \in queue : executed'[h] = executed[h]
      BY <2>1, <2>3, OneMore
    <3>2. /\ \A v \in Workers \ {w} : worker'[v] = worker[v]
          /\ ~ Active(w)' /\ worker'[w].pc # "connect"
      BY <2>1, IdleFacts DEF Ends, Active
    <3>3. \A v \in Workers \ {w} : PassOf(v)'
      BY <2>1, <3>1, <3>2, PassOther DEF PassOK
    <3>4. PassOf(w)'
      BY <3>2 DEF PassOf
    <3> QED BY <2>1, <3>1, <3>3, <3>4 DEF PassOK
  <2> QED BY <2>1, <2>2, <2>3
<1>10. ASSUME NEW w \in Workers, Running(w), PassOver(w), UNCHANGED <<executed, queue, kind>>
       PROVE  PassOK' /\ AtMostTwice'
  <2>1. AtMostTwice'
    BY <1>10 DEF AtMostTwice
  <2>2. CASE Ends(w, "done")
    BY <1>10, <2>1, <2>2, PassEnd
  <2>3. CASE /\ kind = "exec" /\ Goes(w, "run", worker[w].repeat)
             /\ worker'[w].next = worker[w].next + 1
    <3>1. \A i \in Index : i \in Nat /\ worker[w].next \in Nat
      BY ConstantFacts, ThreadFacts DEF Index
    <3>2. \A i \in Index : i < worker[w].next => i < worker[w].next + 1
      BY <3>1
    <3>3. \A i \in Index : Allowed(w, i) <= Allowed(w, i)'
      BY <1>10, <2>3, <3>2 DEF Allowed, Goes, Running
    <3>4. Active(w)
      BY <1>10 DEF Active, Running
    <3> QED BY <1>10, <2>1, <2>3, <3>3, <3>4, PassGoOn, ThreadFacts
  <2> QED BY <1>10, <2>2, <2>3, PassOverEffect, FinishEffect, ThreadFacts
<1>11. ASSUME NEW w \in Workers, Refused(w)
       PROVE  PassOK' /\ AtMostTwice'
  BY <1>10, <1>11 DEF Refused
<1>12. ASSUME NEW w \in Workers, SessionDead(w)
       PROVE  PassOK' /\ AtMostTwice'
  <2>1. /\ Active(w) /\ Running(w) /\ UNCHANGED <<executed, queue, kind>>
        /\ \/ PassOver(w)
           \/ kind = "exec" /\ ~ worker[w].repeat /\ Goes(w, "connect", FALSE)
    BY <1>12, SessionDeadEffect DEF Active, Running
  <2>2. CASE kind = "exec" /\ ~ worker[w].repeat /\ Goes(w, "connect", FALSE)
    <3>1. \A i \in Index : Allowed(w, i) <= Allowed(w, i)'
      BY <2>1, <2>2 DEF Allowed, Goes, Running
    <3> QED BY <2>1, <2>2, <3>1, PassGoOn DEF AtMostTwice
  <2> QED BY <1>10, <2>1, <2>2
<1>13. ASSUME NEW w \in Workers, Return(w)
       PROVE  PassOK' /\ AtMostTwice'
  <2>1. Ends(w, "done") /\ UNCHANGED <<executed, queue, kind>>
    BY <1>13, FinishEffect, ThreadFacts DEF Return
  <2> QED BY <2>1, PassEnd DEF AtMostTwice
<1>14. ASSUME Collect
       PROVE  PassOK' /\ AtMostTwice'
  BY <1>14 DEF Collect, PassOK, PassOf, Active, Allowed, AtMostTwice
<1>15. ASSUME NEW h \in Hosts, NEW n \in 1 .. opened[h], Drop(h, n)
       PROVE  PassOK' /\ AtMostTwice'
  BY <1>15 DEF Drop, PassOK, PassOf, Active, Allowed, AtMostTwice
<1>16. ASSUME UNCHANGED vars
       PROVE  PassOK' /\ AtMostTwice'
  BY <1>16 DEF vars, PassOK, PassOf, Active, Allowed, AtMostTwice
<1> QED
  BY <1>2, <1>3, <1>4, <1>5, <1>6, <1>7, <1>8, <1>9, <1>11, <1>12, <1>13, <1>14, <1>15, <1>16
     DEF Next, ConnectStep, TaskStep, Stopped

-----------------------------------------------------------------------------
\* Outputs are of one pass.

\* What was executed stays executed, until the next call.
Grows == \A h \in Hosts, i \in Index : executed[h][i] > 0 => executed'[h][i] > 0

LEMMA CountsGrow ==
  ASSUME TypeOK, NEW h \in Hosts, NEW i \in Index, Counts(h, i)
  PROVE  Grows /\ executed'[h][i] > 0
<1>1. executed[h][i] \in Nat
  BY DEF TypeOK
<1>2. executed'[h][i] > 0
  BY <1>1 DEF Counts
<1> QED BY <1>2 DEF Grows, Counts

LEMMA AppendIncreases ==
  ASSUME NEW s \in Seq(Index), NEW n \in Nat, Increasing(s), \A i \in DOMAIN s : s[i] < n
  PROVE  /\ Increasing(Append(s, n))
         /\ \A i \in DOMAIN Append(s, n) : Append(s, n)[i] < n + 1
         /\ \A i \in DOMAIN Append(s, n) : Append(s, n)[i] = n \/ \E j \in DOMAIN s : Append(s, n)[i] = s[j]
<1> DEFINE t == Append(s, n)
<1>0. \A i \in DOMAIN s : s[i] \in Nat
  BY ConstantFacts DEF Index
<1>1. /\ DOMAIN s = 1 .. Len(s) /\ Len(s) \in Nat
      /\ DOMAIN t = 1 .. Len(s) + 1
      /\ \A i \in 1 .. Len(s) : t[i] = s[i]
      /\ t[Len(s) + 1] = n
  BY ConstantFacts DEF Index
<1> HIDE DEF t
<1>2. \A i \in DOMAIN t : i = Len(s) + 1 \/ i \in DOMAIN s
  BY <1>1
<1>3. \A i \in DOMAIN t : t[i] < n + 1
  BY <1>0, <1>1, <1>2
<1>4. \A i \in DOMAIN t : t[i] = n \/ \E j \in DOMAIN s : t[i] = s[j]
  BY <1>1, <1>2
<1>5. ASSUME NEW i \in DOMAIN t, NEW j \in DOMAIN t, i < j
      PROVE  t[i] < t[j]
  <2>1. i \in DOMAIN s
    BY <1>1, <1>5
  <2>2. CASE j \in DOMAIN s
    BY <1>1, <1>5, <2>1, <2>2 DEF Increasing
  <2>3. CASE j = Len(s) + 1
    BY <1>1, <2>1, <2>3
  <2> QED BY <1>2, <2>2, <2>3
<1>6. Increasing(t)
  BY <1>5 DEF Increasing
<1> QED BY <1>3, <1>4, <1>6 DEF t

LEMMA OutputOther ==
  ASSUME TypeOK, Grows, NEW v \in Workers, OutputOf(v), worker'[v] = worker[v]
  PROVE  OutputOf(v)'
<1>1. \A i \in DOMAIN worker[v].output : worker[v].output[i] \in Index
  BY ThreadFacts
<1>2. worker[v].host \in Hosts
  BY ThreadFacts
<1> QED BY <1>1, <1>2 DEF OutputOf, Grows, Increasing

LEMMA AnswersStay ==
  ASSUME TypeOK, Grows, OutputsOfOnePass,
         \A h \in Hosts : answer'[h].state = "done" => answer'[h] = answer[h]
  PROVE  OutputsOfOnePass'
<1> SUFFICES ASSUME NEW h \in Hosts, answer'[h].state = "done"
             PROVE  /\ Increasing(answer'[h].output)
                    /\ \A i \in DOMAIN answer'[h].output : executed'[h][answer'[h].output[i]] > 0
  BY DEF OutputsOfOnePass, Increasing
<1>1. \A i \in DOMAIN answer[h].output : answer[h].output[i] \in Index
  BY DEF TypeOK
<1> QED BY <1>1 DEF OutputsOfOnePass, Grows

\* A thread goes on: its own output is to be shown.
LEMMA OutputGoOn ==
  ASSUME TypeOK, Grows, OutputOK, OutputsOfOnePass, NEW w \in Workers, OutputOf(w)',
         \A v \in Workers \ {w} : worker'[v] = worker[v], answer' = answer
  PROVE  OutputOK' /\ OutputsOfOnePass'
<1>1. \A v \in Workers \ {w} : OutputOf(v)'
  BY OutputOther DEF OutputOK
<1>2. OutputsOfOnePass'
  BY AnswersStay
<1> QED BY <1>1, <1>2 DEF OutputOK

\* A task ends, and answers with what its thread has, or with an error.
LEMMA OutputEnd ==
  ASSUME TypeOK, Grows, OutputOK, OutputsOfOnePass, NEW w \in Workers,
         NEW state \in {"done", "raised", "lost"}, Ends(w, state),
         state = "done" => worker[w].pc = "run" /\ answer'[worker[w].host].output = worker[w].output
  PROVE  OutputOK' /\ OutputsOfOnePass'
<1>1. \A v \in Workers \ {w} : OutputOf(v)'
  BY OutputOther DEF OutputOK, Ends
<1>2. OutputOf(w)'
  BY IdleFacts DEF Ends, OutputOf
<1>3. OutputsOfOnePass'
  <2> SUFFICES ASSUME NEW h \in Hosts, answer'[h].state = "done"
               PROVE  /\ Increasing(answer'[h].output)
                      /\ \A i \in DOMAIN answer'[h].output : executed'[h][answer'[h].output[i]] > 0
    BY DEF OutputsOfOnePass, Increasing
  <2>1. CASE h = worker[w].host
    <3>1. /\ worker[w].pc = "run" /\ answer'[h].output = worker[w].output /\ OutputOf(w)
          /\ \A i \in DOMAIN worker[w].output : worker[w].output[i] \in Index
      BY <2>1, ThreadFacts DEF Ends, OutputOK
    <3> QED BY <2>1, <3>1 DEF OutputOf, Grows
  <2>2. CASE h # worker[w].host
    <3>1. answer'[h] = answer[h] /\ \A i \in DOMAIN answer[h].output : answer[h].output[i] \in Index
      BY <2>2 DEF Ends, TypeOK
    <3> QED BY <3>1 DEF OutputsOfOnePass, Grows
  <2> QED BY <2>1, <2>2
<1> QED BY <1>1, <1>2, <1>3 DEF OutputOK

LEMMA OutputNext ==
  ASSUME TypeOK, TasksOK, OutputOK, OutputsOfOnePass, [Next]_vars
  PROVE  OutputOK' /\ OutputsOfOnePass'
<1> USE DEF callVars, sessionVars, historyVars
<1>0. executed' = executed => Grows
  BY DEF Grows
\* Steps that touch neither the outputs nor what was executed.
<1>1. ASSUME UNCHANGED <<executed, answer>>, worker' = worker
      PROVE  OutputOK' /\ OutputsOfOnePass'
  BY <1>0, <1>1, OutputOther, AnswersStay DEF OutputOK
\* Steps of a thread that leaves its pass.
<1>2. ASSUME NEW w \in Workers, NEW pc \in {"begin", "connect"}, NEW repeat, Goes(w, pc, repeat),
             UNCHANGED <<executed, answer>>
      PROVE  OutputOK' /\ OutputsOfOnePass'
  <2>1. OutputOf(w)'
    BY <1>2 DEF Goes, OutputOf
  <2> QED BY <1>0, <1>2, <2>1, OutputGoOn DEF Goes
<1>3. ASSUME NEW a \in Agents, Connecting(a), NextHost(a), UNCHANGED <<executed, answer>>
      PROVE  OutputOK' /\ OutputsOfOnePass'
  BY <1>1, <1>2, <1>3, NextHostEffect
<1>4. ASSUME NEW a \in Agents, Connect(a)
      PROVE  OutputOK' /\ OutputsOfOnePass'
  BY <1>3, <1>4 DEF Connect
<1>5. ASSUME NEW a \in Agents, ConnectSilent(a)
      PROVE  OutputOK' /\ OutputsOfOnePass'
  <2>1. Connecting(a) /\ UNCHANGED <<executed, answer>>
    BY <1>5 DEF ConnectSilent
  <2> QED BY <1>1, <1>3, <1>5, <2>1, ConnectSilentEffect
<1>6. ASSUME NEW a \in Agents, NEW fatal \in BOOLEAN, ConnectFails(a, fatal)
      PROVE  OutputOK' /\ OutputsOfOnePass'
  <2>1. executed' = executed /\ \/ UNCHANGED <<worker, answer>>
                                \/ a \in Workers /\ Ends(a, "lost")
    BY <1>6, ConnectFailsEffect
  <2> QED BY <1>0, <1>1, <2>1, OutputEnd
<1>7. ASSUME NEW k \in {"exec", "transfer"}, NEW S \in SUBSET Hosts, Call(k, S)
      PROVE  OutputOK' /\ OutputsOfOnePass'
  <2>1. \A w \in Workers : worker'[w].pc # "run"
    BY <1>7 DEF Call, TasksOK, WorkersIdle
  <2>2. \A h \in Hosts : answer'[h].state # "done"
    BY <1>7 DEF Call, Answer
  <2> QED BY <2>1, <2>2 DEF OutputOK, OutputOf, OutputsOfOnePass
<1>8. ASSUME NEW w \in Workers, Take(w)
      PROVE  OutputOK' /\ OutputsOfOnePass'
  <2>1. /\ worker'[w].pc = "begin" /\ UNCHANGED <<executed, answer>>
        /\ \A v \in Workers \ {w} : worker'[v] = worker[v]
    BY <1>8, TakeEffect
  <2>2. OutputOf(w)'
    BY <2>1 DEF OutputOf
  <2> QED BY <1>0, <2>1, <2>2, OutputGoOn
<1>9. ASSUME NEW w \in Workers, Begin(w)
      PROVE  OutputOK' /\ OutputsOfOnePass'
  <2>1. /\ executed' = executed
        /\ \/ Finish(w, "raised", << >>)
           \/ Goes(w, "run", worker[w].repeat) /\ answer' = answer /\ worker'[w].output = << >>
    BY <1>9, BeginEffect
  <2>2. << >> \in Seq(Index)
    OBVIOUS
  <2>3. CASE Goes(w, "run", worker[w].repeat) /\ answer' = answer /\ worker'[w].output = << >>
    <3>1. OutputOf(w)'
      BY <2>3 DEF OutputOf, Increasing
    <3> QED BY <1>0, <2>1, <2>3, <3>1, OutputGoOn DEF Goes
  <2>4. CASE Ends(w, "raised")
    BY <1>0, <2>1, <2>4, OutputEnd
  <2> QED BY <2>1, <2>2, <2>3, <2>4, FinishEffect
<1>10. ASSUME NEW w \in Workers, Execute(w)
       PROVE  OutputOK' /\ OutputsOfOnePass'
  <2> DEFINE h == worker[w].host
             n == worker[w].next
             s == worker[w].output
  <2>1. /\ worker[w].pc = "run" /\ n \in Index /\ Goes(w, "run", worker[w].repeat)
        /\ worker'[w].next = n + 1 /\ worker'[w].output = Append(s, n) /\ Counts(h, n)
        /\ answer' = answer
    BY <1>10, ExecuteEffect DEF Running
  <2>2. /\ h \in Hosts /\ s \in Seq(Index) /\ n \in Nat /\ OutputOf(w)
        /\ worker'[w].host = h /\ worker'[w].pc = "run"
        /\ \A i \in DOMAIN s : s[i] \in Index
    BY <2>1, ThreadFacts, ConstantFacts DEF OutputOK, Goes, Index
  <2>3. Grows /\ executed'[h][n] > 0
    BY <2>1, <2>2, CountsGrow
  <2>4. /\ Increasing(s) /\ \A i \in DOMAIN s : s[i] < n
        /\ \A i \in DOMAIN s : executed[h][s[i]] > 0
    BY <2>1, <2>2 DEF OutputOf
  <2> HIDE DEF h, n, s
  <2>5. /\ Increasing(Append(s, n)) /\ \A i \in DOMAIN Append(s, n) : Append(s, n)[i] < n + 1
        /\ \A i \in DOMAIN Append(s, n) :
             Append(s, n)[i] = n \/ \E j \in DOMAIN s : Append(s, n)[i] = s[j]
    BY <2>2, <2>4, AppendIncreases
  <2>6. \A i \in DOMAIN s : executed'[h][s[i]] > 0
    BY <2>2, <2>3, <2>4 DEF Grows
  <2>7. \A i \in DOMAIN Append(s, n) : executed'[h][Append(s, n)[i]] > 0
    BY <2>3, <2>5, <2>6
  <2>8. OutputOf(w)'
    BY <2>1, <2>2, <2>5, <2>7 DEF OutputOf, Increasing
  <2> QED BY <2>1, <2>3, <2>8, OutputGoOn DEF Goes
<1>11. ASSUME NEW w \in Workers, ExecuteRaises(w)
       PROVE  OutputOK' /\ OutputsOfOnePass'
  <2>1. /\ Ends(w, "raised") /\ worker[w].next \in Index
        /\ executed' = executed \/ Counts(worker[w].host, worker[w].next)
    BY <1>11, ExecuteRaisesEffect, FinishEffect
  <2>2. Grows
    BY <1>0, <2>1, CountsGrow, ThreadFacts
  <2> QED BY <2>1, <2>2, OutputEnd
<1>12. ASSUME NEW w \in Workers, worker[w].pc = "run", Finish(w, "done", worker[w].output),
              executed' = executed
       PROVE  OutputOK' /\ OutputsOfOnePass'
  <2>1. Ends(w, "done") /\ answer'[worker[w].host].output = worker[w].output
    BY <1>12, FinishEffect, ThreadFacts
  <2> QED BY <1>0, <1>12, <2>1, OutputEnd
<1>13. ASSUME NEW w \in Workers, Running(w), PassOver(w), executed' = executed
       PROVE  OutputOK' /\ OutputsOfOnePass'
  <2>1. CASE /\ Goes(w, "run", worker[w].repeat) /\ answer' = answer
             /\ worker'[w].next = worker[w].next + 1 /\ worker'[w].output = worker[w].output
    <3>1. OutputOf(w) /\ worker[w].pc = "run" /\ worker[w].next \in Nat
          /\ \A i \in DOMAIN worker[w].output : worker[w].output[i] \in Nat
      BY <1>13, ThreadFacts, ConstantFacts DEF OutputOK, Running, Index
    <3>2. \A i \in DOMAIN worker[w].output : worker[w].output[i] < worker[w].next + 1
      BY <3>1 DEF OutputOf
    <3>3. OutputOf(w)'
      BY <1>13, <2>1, <3>1, <3>2 DEF OutputOf, Goes, Increasing
    <3> QED BY <1>0, <1>13, <2>1, <3>3, OutputGoOn DEF Goes
  <2> QED BY <1>12, <1>13, <2>1, PassOverEffect DEF Running
<1>14. ASSUME NEW w \in Workers, Refused(w)
       PROVE  OutputOK' /\ OutputsOfOnePass'
  BY <1>13, <1>14 DEF Refused
<1>15. ASSUME NEW w \in Workers, SessionDead(w)
       PROVE  OutputOK' /\ OutputsOfOnePass'
  <2>1. /\ Running(w) /\ executed' = executed
        /\ PassOver(w) \/ (Goes(w, "connect", FALSE) /\ answer' = answer)
    BY <1>15, SessionDeadEffect
  <2> QED BY <1>2, <1>13, <2>1
<1>16. ASSUME NEW w \in Workers, Return(w)
       PROVE  OutputOK' /\ OutputsOfOnePass'
  BY <1>12, <1>16 DEF Return
<1>17. ASSUME Collect \/ (\E h \in Hosts : \E n \in 1 .. opened[h] : Drop(h, n)) \/ UNCHANGED vars
       PROVE  OutputOK' /\ OutputsOfOnePass'
  BY <1>1, <1>17 DEF Collect, Drop, vars
<1> QED
  BY <1>4, <1>5, <1>6, <1>7, <1>8, <1>9, <1>10, <1>11, <1>14, <1>15, <1>16, <1>17
     DEF Next, ConnectStep, TaskStep, Stopped

-----------------------------------------------------------------------------
\* A dead session that a thread finds after its reconnection is the second one.

LEMMA SessionsNext ==
  ASSUME TypeOK, SessionsOK, [Next]_vars
  PROVE  SessionsOK'
<1> USE DEF callVars, sessionVars, historyVars
<1>1. ASSUME NEW a \in Agents, Connect(a)
      PROVE  SessionsOK'
  <2> DEFINE h == Dialled(a)
  <2>1. /\ h \in Hosts /\ opened[h] \in Nat
        /\ \A g \in Hosts : opened[g] \in Nat /\ clients[g] \in Nat
    BY DialledFacts DEF TypeOK, Session
  <2>2. /\ clients'[h] = opened[h] + 1 /\ opened'[h] = opened[h] + 1 /\ dead' = dead
        /\ \A g \in Hosts \ {h} : clients'[g] = clients[g] /\ opened'[g] = opened[g]
    BY <1>1, <2>1 DEF Connect, TypeOK
  <2> HIDE DEF h
  <2>3. ASSUME NEW d \in dead
        PROVE  d[2] \in 1 .. opened'[d[1]]
    <3>1. d[1] \in Hosts /\ d[2] \in Nat /\ d[2] \in 1 .. opened[d[1]]
      BY DEF SessionsOK, TypeOK, Session
    <3> QED BY <2>1, <2>2, <3>1
  <2>4. \A g \in Hosts : clients'[g] <= opened'[g]
    BY <2>1, <2>2 DEF SessionsOK
  <2> QED BY <2>2, <2>3, <2>4 DEF SessionsOK
<1>2. ASSUME NEW h \in Hosts, NEW n \in 1 .. opened[h], Drop(h, n)
      PROVE  SessionsOK'
  <2>1. /\ UNCHANGED <<clients, opened>>
        /\ \A d \in dead' : d \in dead \/ d = <<h, n>>
    BY <1>2 DEF Drop
  <2> QED BY <2>1 DEF SessionsOK
<1>3. ASSUME UNCHANGED sessionVars
      PROVE  SessionsOK'
  BY <1>3 DEF SessionsOK
<1>4. ASSUME NEW w \in Workers, TaskStep(w)
      PROVE  UNCHANGED sessionVars
  BY <1>4 DEF TaskStep, Take, Begin, Execute, ExecuteRaises, Refused, SessionDead, Return
<1>5. ASSUME \/ Collect \/ UNCHANGED vars
             \/ \E k \in {"exec", "transfer"}, S \in SUBSET Hosts : Call(k, S)
             \/ \E a \in Agents : ConnectSilent(a) \/ \E fatal \in BOOLEAN : ConnectFails(a, fatal)
      PROVE  UNCHANGED sessionVars
  BY <1>5 DEF Collect, vars, Call, ConnectSilent, ConnectFails
<1> QED BY <1>1, <1>2, <1>3, <1>4, <1>5 DEF Next, ConnectStep, Stopped

\* A host that is well stays well.
Stays == /\ \A h \in Hosts : Fresh(h) => Fresh(h)'
         /\ troubled \subseteq troubled'
         /\ UNCHANGED <<dead, hits>>

LEMMA StayFacts ==
  ASSUME UNCHANGED <<clients, dead, hits>>, troubled \subseteq troubled'
  PROVE  Stays
BY DEF Stays, Fresh, IsDead

LEMMA HitsOther ==
  ASSUME TypeOK, Stays, NEW v \in Workers, HitsOf(v), worker'[v] = worker[v], dial'[v] = dial[v]
  PROVE  HitsOf(v)'
<1>1. worker[v].host \in Hosts
  BY ThreadFacts
<1> QED BY <1>1 DEF HitsOf, Stays, Active, IsDead

LEMMA HitsGoOn ==
  ASSUME TypeOK, HitsOK, Stays, clients' = clients, NEW w \in Workers, HitsOf(w)',
         \A v \in Workers \ {w} : worker'[v] = worker[v] /\ dial'[v] = dial[v]
  PROVE  HitsOK'
<1>1. \A v \in Workers \ {w} : HitsOf(v)'
  BY HitsOther DEF HitsOK
<1>2. \A h \in Hosts : IsDead(h, clients[h])' => hits'[h] >= 1
  BY DEF HitsOK, Stays, IsDead
<1> QED BY <1>1, <1>2 DEF HitsOK

LEMMA HitsEnd ==
  ASSUME TypeOK, HitsOK, Stays, clients' = clients, NEW w \in Workers, NEW state, Ends(w, state),
         \A v \in Workers \ {w} : dial'[v] = dial[v]
  PROVE  HitsOK'
<1>1. HitsOf(w)'
  BY IdleFacts DEF Ends, HitsOf, Active
<1> QED BY <1>1, HitsGoOn DEF Ends

\* A host that connect() is done with is well: it is connected anew, or in trouble.
LEMMA HitsDialled ==
  ASSUME TypeOK, HitsOK, Stays, NEW a \in Agents, Connecting(a), NextHost(a),
         NEW d \in Hosts, d = Dialled(a), Fresh(d)',
         \A h \in Hosts : IsDead(h, clients[h])' => hits'[h] >= 1
  PROVE  HitsOK'
<1>1. /\ dial[a].at \in 1 .. Len(HostSeq) /\ Len(HostSeq) \in Nat /\ d = HostSeq[dial[a].at]
      /\ \A v \in Workers \ {a} : dial'[v] = dial[v]
  BY DialledFacts, NextHostEffect, ConstantFacts DEF Dialled
<1>2. a = Main \/ (a \in Workers /\ worker[a].pc = "connect")
  BY DEF Connecting
\* The hosts that are done, this one included.
<1>3. ASSUME a \in Workers, NEW i \in 1 .. dial[a].at, NEW h \in Hosts,
             h = worker[a].host, HostSeq[i] = h
      PROVE  Fresh(h)'
  <2>1. worker[a].pc = "connect" /\ HitsOf(a)
    BY <1>2, <1>3, ConstantFacts DEF HitsOK
  <2>2. CASE i = dial[a].at
    <3>1. h = d
      BY <1>1, <1>3, <2>2
    <3> QED BY <3>1
  <2>3. CASE i # dial[a].at
    <3>1. i \in 1 .. dial[a].at - 1
      BY <1>1, <2>3
    <3>2. Fresh(h)
      BY <1>3, <2>1, <3>1 DEF HitsOf
    <3> QED BY <3>2 DEF Stays
  <2> QED BY <2>2, <2>3
<1>4. \A v \in Workers \ {a} : worker'[v] = worker[v] => HitsOf(v)'
  BY <1>1, HitsOther DEF HitsOK
<1>5. CASE dial'[a].at = dial[a].at + 1 /\ worker' = worker
  <2>1. ASSUME a \in Workers
        PROVE  HitsOf(a)'
    <3>1. worker[a].pc = "connect" /\ HitsOf(a)
      BY <1>2, <2>1, ConstantFacts DEF HitsOK
    <3>2. PICK h \in Hosts : h = worker[a].host
      BY <2>1, ThreadFacts
    <3>3. \A i \in 1 .. dial'[a].at - 1 : i \in 1 .. dial[a].at
      BY <1>1, <1>5
    <3>4. \A i \in 1 .. dial'[a].at - 1 : HostSeq[i] = h => Fresh(h)'
      BY <1>3, <2>1, <3>2, <3>3
    <3>5. hits'[h] >= 1 /\ worker'[a].host = h /\ worker'[a].pc = "connect"
      BY <1>5, <3>1, <3>2 DEF HitsOf, Stays
    <3> QED BY <3>4, <3>5 DEF HitsOf, Active
  <2> QED BY <1>4, <1>5, <2>1 DEF HitsOK
<1>6. CASE a = Main /\ worker' = worker
  BY <1>4, <1>6, ConstantFacts DEF HitsOK
<1>7. CASE a \in Workers /\ dial[a].at = Len(HostSeq) /\ Goes(a, "begin", TRUE)
  <2>1. worker[a].pc = "connect" /\ HitsOf(a)
    BY <1>2, <1>7, ConstantFacts DEF HitsOK
  <2>2. PICK h \in Hosts : h = worker[a].host
    BY <1>7, ThreadFacts
  <2>3. PICK i \in 1 .. Len(HostSeq) : HostSeq[i] = h
    BY DEF Hosts
  <2>4. Fresh(h)'
    BY <1>3, <1>7, <2>2, <2>3
  <2>5. /\ worker'[a].pc = "begin" /\ worker'[a].host = h
        /\ \A v \in Workers \ {a} : worker'[v] = worker[v]
    BY <1>7, <2>2 DEF Goes
  <2>6. hits'[h] >= 1
    BY <2>1, <2>2 DEF HitsOf, Stays
  <2>7. HitsOf(a)'
    BY <2>4, <2>5, <2>6 DEF HitsOf, Active
  <2> QED BY <1>4, <2>5, <2>7 DEF HitsOK
<1> QED BY <1>5, <1>6, <1>7, NextHostEffect

LEMMA HitsNext ==
  ASSUME TypeOK, TasksOK, SessionsOK, HitsOK, [Next]_vars
  PROVE  HitsOK'
<1> USE DEF callVars, sessionVars, historyVars
<1>0. \A h \in Hosts : opened[h] \in Nat /\ clients[h] \in Nat /\ hits[h] \in Nat
  BY DEF TypeOK, Session
<1>1. ASSUME NEW a \in Agents, Connect(a)
      PROVE  HitsOK'
  <2>1. PICK d \in Hosts : d = Dialled(a)
    BY DialledFacts
  <2>2. /\ clients'[d] = opened[d] + 1
        /\ \A h \in Hosts \ {d} : clients'[h] = clients[h]
        /\ UNCHANGED <<dead, hits, troubled>>
        /\ Connecting(a) /\ NextHost(a)
    BY <1>1, <2>1 DEF Connect, TypeOK
  <2>3. ~ IsDead(d, clients[d])'
    <3>1. ASSUME <<d, opened[d] + 1>> \in dead
          PROVE  FALSE
      <4>1. opened[d] + 1 \in 1 .. opened[d]
        BY <3>1 DEF SessionsOK
      <4> QED BY <1>0, <4>1
    <3> QED BY <2>2, <3>1 DEF IsDead
  <2>4. \A h \in Hosts \ {d} : IsDead(h, clients[h])' <=> IsDead(h, clients[h])
    BY <2>2 DEF IsDead
  <2>5. Fresh(d)'
    BY <2>3 DEF Fresh
  <2>6. Stays
    <3>1. \A h \in Hosts \ {d} : Fresh(h) => Fresh(h)'
      BY <2>2, <2>4 DEF Fresh
    <3> QED BY <2>2, <2>5, <3>1 DEF Stays
  <2>7. \A h \in Hosts : IsDead(h, clients[h])' => hits'[h] >= 1
    BY <2>2, <2>3, <2>4 DEF HitsOK
  <2> QED BY <2>1, <2>2, <2>5, <2>6, <2>7, HitsDialled
<1>2. ASSUME NEW a \in Agents, UNCHANGED <<clients, dead, hits>>,
             NEW d \in Hosts, d = Dialled(a), troubled' = troubled \cup {Dialled(a)}
      PROVE  /\ Stays /\ Fresh(d)'
             /\ \A h \in Hosts : IsDead(h, clients[h])' => hits'[h] >= 1
  <2>1. d \in troubled'
    BY <1>2
  <2>2. Fresh(d)'
    BY <2>1 DEF Fresh
  <2>3. Stays
    BY <1>2, StayFacts
  <2> QED BY <1>2, <2>2, <2>3 DEF HitsOK, IsDead
<1>3. ASSUME Stays, clients' = clients, worker' = worker,
             \A v \in Workers : dial'[v].at = dial[v].at
      PROVE  HitsOK'
  <2>1. ASSUME NEW v \in Workers
        PROVE  HitsOf(v)'
    <3>1. worker[v].host \in Hosts /\ HitsOf(v)
      BY ThreadFacts DEF HitsOK
    <3> QED BY <1>3, <3>1 DEF HitsOf, Stays, Active, IsDead
  <2>2. \A h \in Hosts : IsDead(h, clients[h])' => hits'[h] >= 1
    BY <1>3 DEF HitsOK, Stays, IsDead
  <2> QED BY <2>1, <2>2 DEF HitsOK
<1>4. ASSUME NEW a \in Agents, ConnectSilent(a)
      PROVE  HitsOK'
  <2>1. PICK d \in Hosts : d = Dialled(a)
    BY DialledFacts
  <2>2. /\ UNCHANGED <<clients, dead, hits>> /\ troubled' = troubled \cup {Dialled(a)}
        /\ Connecting(a)
    BY <1>4 DEF ConnectSilent
  <2>3. /\ Stays /\ Fresh(d)'
        /\ \A h \in Hosts : IsDead(h, clients[h])' => hits'[h] >= 1
    BY <1>2, <2>1, <2>2
  <2>4. CASE NextHost(a)
    BY <2>1, <2>2, <2>3, <2>4, HitsDialled
  <2>5. CASE /\ \A b \in Agents \ {a} : dial'[b] = dial[b]
             /\ dial'[a].at = dial[a].at /\ worker' = worker
    BY <1>3, <2>2, <2>3, <2>5, ConstantFacts
  <2> QED BY <1>4, <2>4, <2>5, ConnectSilentEffect
<1>5. ASSUME NEW a \in Agents, NEW fatal \in BOOLEAN, ConnectFails(a, fatal)
      PROVE  HitsOK'
  <2>1. PICK d \in Hosts : d = Dialled(a)
    BY DialledFacts
  <2>2. /\ UNCHANGED <<clients, dead, hits>> /\ troubled' = troubled \cup {Dialled(a)}
        /\ \A b \in Agents \ {a} : dial'[b] = dial[b]
    BY <1>5, ConnectFailsEffect
  <2>3. Stays
    BY <1>2, <2>1, <2>2
  <2>4. CASE dial'[a].at = dial[a].at /\ worker' = worker
    BY <1>3, <2>2, <2>3, <2>4, ConstantFacts
  <2>5. CASE a = Main /\ worker' = worker
    <3>1. \A v \in Workers : dial'[v] = dial[v]
      BY <2>2, <2>5, ConstantFacts
    <3> QED BY <1>3, <2>2, <2>3, <2>5, <3>1
  <2>6. CASE a \in Workers /\ Ends(a, "lost")
    <3>1. \A v \in Workers \ {a} : dial'[v] = dial[v]
      BY <2>2, ConstantFacts
    <3> QED BY <2>2, <2>3, <2>6, <3>1, HitsEnd
  <2> QED BY <1>5, <2>4, <2>5, <2>6, ConnectFailsEffect
<1>6. ASSUME NEW k \in {"exec", "transfer"}, NEW S \in SUBSET Hosts, Call(k, S)
      PROVE  HitsOK'
  <2>1. \A w \in Workers : worker'[w].pc = "idle"
    BY <1>6 DEF Call, TasksOK, WorkersIdle
  <2>2. \A h \in Hosts : IsDead(h, clients[h])' => hits'[h] >= 1
    BY <1>6 DEF Call, IsDead
  <2> QED BY <2>1, <2>2 DEF HitsOK, HitsOf, Active
\* Steps of a thread: nothing that the others rely on is changed.
<1>7. ASSUME NEW w \in Workers, TaskStep(w)
      PROVE  Stays /\ clients' = clients /\ dial' = dial
  <2>1. UNCHANGED <<clients, dead, hits, dial>> /\ troubled \subseteq troubled'
    BY <1>7 DEF TaskStep, Take, Begin, Execute, ExecuteRaises, Refused, SessionDead, Return
  <2> QED BY <2>1, StayFacts
<1>8. ASSUME NEW w \in Workers, NEW state, TaskStep(w), Ends(w, state)
      PROVE  HitsOK'
  BY <1>7, <1>8, HitsEnd
<1>9. ASSUME NEW w \in Workers, Take(w)
      PROVE  HitsOK'
  <2>1. /\ worker'[w].pc = "begin" /\ worker'[w].repeat = FALSE
        /\ \A v \in Workers \ {w} : worker'[v] = worker[v]
    BY <1>9, TakeEffect
  <2>2. HitsOf(w)'
    BY <2>1 DEF HitsOf
  <2>3. TaskStep(w)
    BY <1>9 DEF TaskStep
  <2> QED BY <1>7, <2>1, <2>2, <2>3, HitsGoOn
<1>10. ASSUME NEW w \in Workers, Begin(w)
       PROVE  HitsOK'
  <2>1. /\ TaskStep(w) /\ UNCHANGED <<clients, dead, hits, troubled>> /\ worker[w].pc = "begin"
        /\ \/ Finish(w, "raised", << >>)
           \/ Goes(w, "run", worker[w].repeat) /\ worker'[w].session = clients[worker[w].host]
    BY <1>10, BeginEffect DEF TaskStep
  <2>2. << >> \in Seq(Index)
    OBVIOUS
  <2>3. CASE Goes(w, "run", worker[w].repeat) /\ worker'[w].session = clients[worker[w].host]
    <3>1. /\ worker'[w].pc = "run" /\ worker'[w].repeat = worker[w].repeat
          /\ worker'[w].host = worker[w].host /\ worker[w].host \in Hosts /\ HitsOf(w)
          /\ \A v \in Workers \ {w} : worker'[v] = worker[v]
      BY <2>3, ThreadFacts DEF Goes, HitsOK
    <3>2. HitsOf(w)'
      BY <2>1, <2>3, <3>1 DEF HitsOf, HitsOK, Active, IsDead, Fresh
    <3> QED BY <1>7, <2>1, <3>1, <3>2, HitsGoOn
  <2> QED BY <1>8, <2>1, <2>2, <2>3, FinishEffect
\* A thread stays in its pass.
<1>11. ASSUME NEW w \in Workers, TaskStep(w), worker[w].pc = "run", Goes(w, "run", worker[w].repeat),
              worker'[w].session = worker[w].session
       PROVE  HitsOK'
  <2>1. /\ worker'[w].pc = "run" /\ worker'[w].repeat = worker[w].repeat
        /\ worker'[w].host = worker[w].host /\ worker[w].host \in Hosts /\ HitsOf(w)
        /\ \A v \in Workers \ {w} : worker'[v] = worker[v]
        /\ Stays
    BY <1>7, <1>11, ThreadFacts DEF Goes, HitsOK
  <2>2. HitsOf(w)'
    BY <1>11, <2>1 DEF HitsOf, Stays, Active, IsDead
  <2> QED BY <1>7, <1>11, <2>1, <2>2, HitsGoOn
<1>12. ASSUME NEW w \in Workers, TaskStep(w), Running(w), PassOver(w)
       PROVE  HitsOK'
  <2>1. worker[w].pc = "run"
    BY <1>12 DEF Running
  <2>2. CASE Finish(w, "done", worker[w].output)
    BY <1>8, <1>12, <2>2, FinishEffect, ThreadFacts
  <2>3. CASE Goes(w, "run", worker[w].repeat) /\ worker'[w].session = worker[w].session
    BY <1>11, <1>12, <2>1, <2>3
  <2> QED BY <1>12, <2>2, <2>3, PassOverEffect
<1>13. ASSUME NEW w \in Workers, SessionDead(w)
       PROVE  HitsOK'
  <2>1. /\ Running(w) /\ TaskStep(w) /\ IsDead(worker[w].host, worker[w].session)
        /\ PassOver(w) \/ Goes(w, "connect", FALSE)
    BY <1>13, SessionDeadEffect DEF TaskStep
  <2>2. CASE Goes(w, "connect", FALSE)
    <3>1. /\ worker'[w].pc = "connect" /\ worker'[w].host = worker[w].host
          /\ worker[w].host \in Hosts /\ worker[w].pc = "run" /\ HitsOf(w)
          /\ \A v \in Workers \ {w} : worker'[v] = worker[v]
          /\ Stays /\ dial'[w].at = 1
      BY <1>7, <2>1, <2>2, ThreadFacts DEF Goes, HitsOK, Running, TasksOK
    <3>2. HitsOf(w)'
      BY <2>1, <3>1 DEF HitsOf, Stays, Active
    <3> QED BY <1>7, <2>1, <3>1, <3>2, HitsGoOn
  <2> QED BY <1>12, <2>1, <2>2
<1>14. ASSUME NEW w \in Workers, TaskStep(w)
       PROVE  HitsOK'
  <2>1. CASE Execute(w)
    BY <1>11, <1>14, <2>1, ExecuteEffect DEF Running
  <2>2. CASE ExecuteRaises(w)
    BY <1>8, <1>14, <2>2, ExecuteRaisesEffect, FinishEffect
  <2>3. CASE Refused(w)
    BY <1>12, <1>14, <2>3 DEF Refused
  <2>4. CASE Return(w)
    BY <1>8, <1>14, <2>4, FinishEffect, ThreadFacts DEF Return
  <2> QED BY <1>9, <1>10, <1>13, <1>14, <2>1, <2>2, <2>3, <2>4 DEF TaskStep
\* A session that dies is one more: a thread with a second pass has seen one before.
<1>15. ASSUME NEW h \in Hosts, NEW n \in 1 .. opened[h], Drop(h, n)
       PROVE  HitsOK'
  <2>1. /\ UNCHANGED <<clients, troubled, worker, dial>>
        /\ hits'[h] = hits[h] + 1 /\ \A g \in Hosts \ {h} : hits'[g] = hits[g]
        /\ \A g \in Hosts \ {h}, m \in Nat : <<g, m>> \in dead' <=> <<g, m>> \in dead
    BY <1>15 DEF Drop, TypeOK
  <2>2. \A g \in Hosts : IsDead(g, clients[g])' => hits'[g] >= 1
    BY <1>0, <2>1 DEF HitsOK, IsDead
  <2>3. ASSUME NEW v \in Workers
        PROVE  HitsOf(v)'
    <3>1. PICK g \in Hosts : g = worker[v].host
      BY ThreadFacts
    <3>2. worker[v].session \in Nat /\ HitsOf(v)
      BY ThreadFacts DEF HitsOK
    <3>3. CASE g = h
      <4>1. hits[g] >= 1 => Fresh(g)' /\ hits'[g] >= 2
        BY <1>0, <2>1, <3>3 DEF Fresh
      <4>2. hits'[g] >= 1
        BY <1>0, <2>1, <3>3
      <4> QED BY <2>1, <3>1, <3>2, <4>1, <4>2 DEF HitsOf, Active
    <3>4. CASE g # h
      <4>1. Fresh(g)' <=> Fresh(g)
        BY <1>0, <2>1, <3>4 DEF Fresh, IsDead
      <4>2. IsDead(g, worker[v].session)' <=> IsDead(g, worker[v].session)
        BY <2>1, <3>2, <3>4 DEF IsDead
      <4> QED BY <2>1, <3>1, <3>2, <3>4, <4>1, <4>2 DEF HitsOf, Active
    <3> QED BY <3>3, <3>4
  <2> QED BY <2>2, <2>3 DEF HitsOK
<1>16. ASSUME Collect \/ UNCHANGED vars
       PROVE  HitsOK'
  BY <1>3, <1>16, StayFacts DEF Collect, vars
<1> QED BY <1>1, <1>4, <1>5, <1>6, <1>14, <1>15, <1>16 DEF Next, ConnectStep, Stopped

-----------------------------------------------------------------------------
\* The output of every command is there, but where it may be missing.

\* Troubles and dying sessions only add up, until the next call.
Adds == /\ troubled \subseteq troubled'
        /\ \A h \in Hosts : hits'[h] \in Nat /\ hits[h] <= hits'[h]
        /\ kind' = kind

LEMMA CompleteOther ==
  ASSUME TypeOK, Adds, NEW v \in Workers, CompleteOf(v), worker'[v] = worker[v]
  PROVE  CompleteOf(v)'
<1>1. PICK h \in Hosts : h = worker[v].host
  BY ThreadFacts
<1>2. hits[h] \in Nat /\ hits'[h] \in Nat /\ hits[h] <= hits'[h] /\ troubled \subseteq troubled' /\ kind' = kind
  BY DEF TypeOK, Adds
<1>3. worker'[v].host = h
  BY <1>1
<1>4. CASE hits'[h] <= 1
  <2>1. hits[h] <= 1
    BY <1>2, <1>4
  <2> QED BY <1>1, <1>2, <1>3, <2>1 DEF CompleteOf
<1>5. CASE ~ hits'[h] <= 1
  BY <1>3, <1>5 DEF CompleteOf
<1> QED BY <1>4, <1>5

LEMMA AnswersComplete ==
  ASSUME TypeOK, Adds, OneDropIsMasked, NEW S \in SUBSET Hosts,
         \A h \in Hosts \ S : answer'[h] = answer[h],
         \A h \in S : answer'[h].state = "done" /\ kind = "exec" /\ hits'[h] <= 1
                        /\ h \notin troubled' => Len(answer'[h].output) = Commands
  PROVE  OneDropIsMasked'
<1> SUFFICES ASSUME NEW h \in Hosts, kind' = "exec", answer'[h].state = "done",
                    hits'[h] <= 1, h \notin troubled'
             PROVE  Len(answer'[h].output) = Commands
  BY DEF OneDropIsMasked
<1>1. kind = "exec" /\ h \notin troubled
  BY DEF Adds
<1>2. CASE h \in S
  BY <1>1, <1>2
<1>3. CASE h \notin S
  <2>1. hits[h] \in Nat /\ hits'[h] \in Nat /\ hits[h] <= hits'[h]
    BY DEF TypeOK, Adds
  <2>2. hits[h] <= 1
    BY <2>1
  <2> QED BY <1>1, <1>3, <2>2 DEF OneDropIsMasked
<1> QED BY <1>2, <1>3

\* A thread goes on.
LEMMA CompleteGoOn ==
  ASSUME TypeOK, Adds, CompleteOK, OneDropIsMasked, NEW w \in Workers, CompleteOf(w)',
         \A v \in Workers \ {w} : worker'[v] = worker[v], answer' = answer
  PROVE  CompleteOK' /\ OneDropIsMasked'
<1>1. \A v \in Workers \ {w} : CompleteOf(v)'
  BY CompleteOther DEF CompleteOK
<1>2. OneDropIsMasked'
  <2>1. {} \in SUBSET Hosts /\ \A h \in Hosts \ {} : answer'[h] = answer[h]
    OBVIOUS
  <2> QED BY <2>1, AnswersComplete
<1> QED BY <1>1, <1>2 DEF CompleteOK

\* A task ends.
LEMMA CompleteEnd ==
  ASSUME TypeOK, Adds, CompleteOK, OneDropIsMasked, NEW w \in Workers,
         NEW state \in {"done", "raised", "lost"}, Ends(w, state),
         state = "done" /\ kind = "exec" => Len(answer'[worker[w].host].output) = Commands \/
           ~ (hits'[worker[w].host] <= 1 /\ worker[w].host \notin troubled')
  PROVE  CompleteOK' /\ OneDropIsMasked'
<1>1. \A v \in Workers \ {w} : CompleteOf(v)'
  BY CompleteOther DEF CompleteOK, Ends
<1>2. CompleteOf(w)'
  BY IdleFacts DEF Ends, CompleteOf
<1>3. OneDropIsMasked'
  <2> DEFINE S == {worker[w].host}
  <2>1. S \in SUBSET Hosts
    BY ThreadFacts
  <2>2. /\ \A h \in Hosts \ S : answer'[h] = answer[h]
        /\ \A h \in S : answer'[h].state = "done" /\ kind = "exec" /\ hits'[h] <= 1
                          /\ h \notin troubled' => Len(answer'[h].output) = Commands
    BY DEF Ends
  <2> HIDE DEF S
  <2> QED BY <2>1, <2>2, AnswersComplete
<1> QED BY <1>1, <1>2, <1>3 DEF CompleteOK

LEMMA CompleteNext ==
  ASSUME TypeOK, TasksOK, HitsOK, CompleteOK, OneDropIsMasked, [Next]_vars
  PROVE  CompleteOK' /\ OneDropIsMasked'
<1> USE DEF callVars, sessionVars, historyVars
<1>0. ASSUME troubled \subseteq troubled', UNCHANGED <<hits, kind>>
      PROVE  Adds
  BY <1>0 DEF Adds, TypeOK
\* Steps that touch neither the threads nor the answers.
<1>1. ASSUME Adds, worker' = worker, answer' = answer
      PROVE  CompleteOK' /\ OneDropIsMasked'
  <2>1. CompleteOK'
    BY <1>1, CompleteOther DEF CompleteOK
  <2>2. OneDropIsMasked'
    BY <1>1, AnswersComplete
  <2> QED BY <2>1, <2>2
\* Steps of a thread that leaves its pass.
<1>2. ASSUME Adds, NEW w \in Workers, NEW pc \in {"begin", "connect"}, NEW repeat,
             Goes(w, pc, repeat), answer' = answer
      PROVE  CompleteOK' /\ OneDropIsMasked'
  <2>1. CompleteOf(w)'
    BY <1>2 DEF Goes, CompleteOf
  <2> QED BY <1>2, <2>1, CompleteGoOn DEF Goes
<1>3. ASSUME Adds, NEW a \in Agents, Connecting(a), NextHost(a), answer' = answer
      PROVE  CompleteOK' /\ OneDropIsMasked'
  BY <1>1, <1>2, <1>3, NextHostEffect
<1>4. ASSUME NEW a \in Agents, Connect(a)
      PROVE  CompleteOK' /\ OneDropIsMasked'
  BY <1>0, <1>3, <1>4 DEF Connect
<1>5. ASSUME NEW a \in Agents, ConnectSilent(a)
      PROVE  CompleteOK' /\ OneDropIsMasked'
  <2>1. Adds /\ Connecting(a) /\ answer' = answer
    BY <1>0, <1>5 DEF ConnectSilent
  <2> QED BY <1>1, <1>3, <1>5, <2>1, ConnectSilentEffect
<1>6. ASSUME NEW a \in Agents, NEW fatal \in BOOLEAN, ConnectFails(a, fatal)
      PROVE  CompleteOK' /\ OneDropIsMasked'
  <2>1. Adds
    BY <1>0, <1>6, ConnectFailsEffect
  <2>2. CASE UNCHANGED <<worker, answer>>
    BY <1>1, <2>1, <2>2
  <2>3. CASE a \in Workers /\ Ends(a, "lost")
    BY <2>1, <2>3, CompleteEnd
  <2> QED BY <1>6, <2>2, <2>3, ConnectFailsEffect
<1>7. ASSUME NEW k \in {"exec", "transfer"}, NEW S \in SUBSET Hosts, Call(k, S)
      PROVE  CompleteOK' /\ OneDropIsMasked'
  <2>1. \A w \in Workers : worker'[w].pc # "run"
    BY <1>7 DEF Call, TasksOK, WorkersIdle
  <2>2. \A h \in Hosts : answer'[h].state # "done"
    BY <1>7 DEF Call, Answer
  <2> QED BY <2>1, <2>2 DEF CompleteOK, CompleteOf, OneDropIsMasked
<1>8. ASSUME NEW w \in Workers, Take(w)
      PROVE  CompleteOK' /\ OneDropIsMasked'
  <2>1. /\ worker'[w].pc = "begin" /\ UNCHANGED <<hits, troubled, kind, answer>>
        /\ \A v \in Workers \ {w} : worker'[v] = worker[v]
    BY <1>8, TakeEffect
  <2>2. CompleteOf(w)'
    BY <2>1 DEF CompleteOf
  <2> QED BY <1>0, <2>1, <2>2, CompleteGoOn
<1>9. ASSUME NEW w \in Workers, Begin(w)
      PROVE  CompleteOK' /\ OneDropIsMasked'
  <2>1. /\ UNCHANGED <<hits, troubled, kind>>
        /\ \/ Finish(w, "raised", << >>)
           \/ /\ Goes(w, "run", worker[w].repeat) /\ answer' = answer
              /\ worker'[w].output = << >> /\ worker'[w].next = 1
    BY <1>9, BeginEffect
  <2>2. Adds /\ << >> \in Seq(Index)
    BY <1>0, <2>1
  <2>3. CASE /\ Goes(w, "run", worker[w].repeat) /\ answer' = answer
             /\ worker'[w].output = << >> /\ worker'[w].next = 1
    <3>1. CompleteOf(w)'
      BY <2>3 DEF CompleteOf
    <3> QED BY <2>2, <2>3, <3>1, CompleteGoOn DEF Goes
  <2>4. CASE Ends(w, "raised")
    BY <2>2, <2>4, CompleteEnd
  <2> QED BY <2>1, <2>2, <2>3, <2>4, FinishEffect
<1>10. ASSUME NEW w \in Workers, Execute(w)
       PROVE  CompleteOK' /\ OneDropIsMasked'
  <2> DEFINE n == worker[w].next
             s == worker[w].output
  <2>1. /\ worker[w].pc = "run" /\ n \in Index /\ Goes(w, "run", worker[w].repeat)
        /\ worker'[w].next = n + 1 /\ worker'[w].output = Append(s, n)
        /\ UNCHANGED <<hits, troubled, kind, answer>>
    BY <1>10, ExecuteEffect DEF Running
  <2>2. s \in Seq(Index) /\ n \in Nat /\ CompleteOf(w) /\ worker'[w].host = worker[w].host
    BY <2>1, ThreadFacts, ConstantFacts DEF CompleteOK, Goes, Index
  <2>3. Len(s) = n - 1 => Len(Append(s, n)) = (n + 1) - 1
    BY <2>1, <2>2
  <2>4. CompleteOf(w)'
    BY <2>1, <2>2, <2>3 DEF CompleteOf
  <2> QED BY <1>0, <2>1, <2>4, CompleteGoOn DEF Goes
<1>11. ASSUME NEW w \in Workers, ExecuteRaises(w)
       PROVE  CompleteOK' /\ OneDropIsMasked'
  <2>1. Ends(w, "raised") /\ Adds
    BY <1>0, <1>11, ExecuteRaisesEffect, FinishEffect
  <2> QED BY <2>1, CompleteEnd
\* A command that is passed over: the host is in trouble, or this is the second dead session.
<1>12. ASSUME Adds, NEW w \in Workers, Running(w), PassOver(w),
              kind = "exec" => worker[w].host \in troubled' \/ ~ hits'[worker[w].host] <= 1
       PROVE  CompleteOK' /\ OneDropIsMasked'
  <2>1. CASE kind = "transfer" /\ Finish(w, "done", worker[w].output)
    <3>1. Ends(w, "done")
      BY <2>1, FinishEffect, ThreadFacts
    <3> QED BY <1>12, <2>1, <3>1, CompleteEnd
  <2>2. CASE kind = "exec" /\ Goes(w, "run", worker[w].repeat) /\ answer' = answer
    <3>1. CompleteOf(w)'
      BY <1>12, <2>2 DEF CompleteOf, Goes
    <3> QED BY <1>12, <2>2, <3>1, CompleteGoOn DEF Goes
  <2> QED BY <1>12, <2>1, <2>2, PassOverEffect
<1>13. ASSUME NEW w \in Workers, Refused(w)
       PROVE  CompleteOK' /\ OneDropIsMasked'
  <2>1. Adds /\ Running(w) /\ PassOver(w) /\ worker[w].host \in troubled'
    BY <1>0, <1>13 DEF Refused
  <2> QED BY <1>12, <2>1
<1>14. ASSUME NEW w \in Workers, SessionDead(w)
       PROVE  CompleteOK' /\ OneDropIsMasked'
  <2>1. /\ Adds /\ Running(w) /\ UNCHANGED <<troubled, hits>>
        /\ IsDead(worker[w].host, worker[w].session)
    BY <1>0, <1>14, SessionDeadEffect
  <2>2. CASE Goes(w, "connect", FALSE) /\ answer' = answer
    BY <1>2, <2>1, <2>2
  <2>3. CASE (kind = "transfer" \/ worker[w].repeat) /\ PassOver(w)
    <3>1. PICK h \in Hosts : h = worker[w].host
      BY ThreadFacts
    <3>2. kind = "exec" => h \in troubled \/ hits[h] >= 2
      BY <2>1, <2>3, <3>1 DEF HitsOK, HitsOf, Running
    <3>3. hits[h] \in Nat
      BY DEF TypeOK
    <3>4. kind = "exec" => h \in troubled' \/ ~ hits'[h] <= 1
      BY <2>1, <3>2, <3>3
    <3> QED BY <1>12, <2>1, <2>3, <3>1, <3>4
  <2> QED BY <1>14, <2>2, <2>3, SessionDeadEffect
<1>15. ASSUME NEW w \in Workers, Return(w)
       PROVE  CompleteOK' /\ OneDropIsMasked'
  <2>1. /\ Ends(w, "done") /\ answer'[worker[w].host].output = worker[w].output
        /\ UNCHANGED <<hits, troubled, kind>> /\ worker[w].pc = "run"
        /\ worker[w].next = Commands + 1
    BY <1>15, FinishEffect, ThreadFacts DEF Return
  <2>2. Adds
    BY <1>0, <2>1
  <2>3. (Commands + 1) - 1 = Commands
    BY ConstantFacts
  <2>4. kind = "exec" /\ hits'[worker[w].host] <= 1 /\ worker[w].host \notin troubled'
        => Len(answer'[worker[w].host].output) = Commands
    BY <2>1, <2>3 DEF CompleteOK, CompleteOf
  <2> QED BY <2>1, <2>2, <2>4, CompleteEnd
<1>16. ASSUME NEW h \in Hosts, NEW n \in 1 .. opened[h], Drop(h, n)
       PROVE  CompleteOK' /\ OneDropIsMasked'
  <2>1. Adds
    BY <1>16 DEF Adds, Drop, TypeOK
  <2> QED BY <1>1, <1>16, <2>1 DEF Drop
<1>17. ASSUME Collect \/ UNCHANGED vars
       PROVE  CompleteOK' /\ OneDropIsMasked'
  BY <1>0, <1>1, <1>17 DEF Collect, vars
<1> QED
  BY <1>4, <1>5, <1>6, <1>7, <1>8, <1>9, <1>10, <1>11, <1>13, <1>14, <1>15, <1>16, <1>17
     DEF Next, ConnectStep, TaskStep, Stopped

-----------------------------------------------------------------------------
LEMMA PInit == Init => PInv
<1> SUFFICES ASSUME Init PROVE PInv
  OBVIOUS
<1>1. TypeOK
  BY TypeInit
<1>2. \A w \in Workers : worker[w] = Idle /\ dial[w] = FirstDial
  BY DEF Init, Agents
<1>3. TasksOK
  BY <1>2, IdleFacts DEF Init, TasksOK, WorkersIdle, Active, FirstDial
<1>4. PassOK /\ OutputOK /\ CompleteOK
  BY <1>2, IdleFacts DEF Init, PassOK, PassOf, OutputOK, OutputOf, CompleteOK, CompleteOf, Active
<1>5. SessionsOK
  BY DEF Init, SessionsOK
<1>6. HitsOK
  BY <1>2, IdleFacts DEF Init, HitsOK, HitsOf, Active, IsDead
<1>7. \A h \in Hosts : answer[h].state # "done"
  BY DEF Init, Answer
<1>8. AtMostTwice /\ OutputsOfOnePass /\ OneDropIsMasked
  BY <1>7 DEF Init, AtMostTwice, OutputsOfOnePass, OneDropIsMasked
<1> QED BY <1>1, <1>3, <1>4, <1>5, <1>6, <1>8 DEF PInv

LEMMA PNext == PInv /\ [Next]_vars => PInv'
BY TypeNext, TasksNext, PassNext, OutputNext, SessionsNext, HitsNext, CompleteNext DEF PInv

LEMMA Reachable == Spec => []PInv
BY PInit, PNext, PTL DEF Spec

\* The variables keep their types, whatever threads, hosts and attempts the pool has.
THEOREM PoolTypes == Spec => []TypeOK
<1>1. PInv => TypeOK
  BY DEF PInv
<1> QED BY <1>1, Reachable, PTL

\* A call executes no command more than twice at a host, and copies no file twice, whatever
\* dies, fails or is refused while the threads run (exec_on_host, `repeat`).
THEOREM NoThirdExecution == Spec => []AtMostTwice
<1>1. PInv => AtMostTwice
  BY DEF PInv
<1> QED BY <1>1, Reachable, PTL

\* What a host answers is of one pass over its commands, in their order, each of a command
\* that was executed: the output of a pass that was given up is gone (exec_on_host).
THEOREM NoMixedOutputs == Spec => []OutputsOfOnePass
<1>1. PInv => OutputsOfOnePass
  BY DEF PInv
<1> QED BY <1>1, Reachable, PTL

\* A call in which one session of a host dies and nothing else goes wrong there has the
\* output of all its commands, whoever else reconnects the pool meanwhile (connect).
THEOREM OneDeadSessionIsMasked == Spec => []OneDropIsMasked
<1>1. PInv => OneDropIsMasked
  BY DEF PInv
<1> QED BY <1>1, Reachable, PTL
=============================================================================
