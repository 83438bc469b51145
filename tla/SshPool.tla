------------------------------ MODULE SshPool ------------------------------
(***************************************************************************)
(* SshPool of src/tiden/sshpool.py: connect, exec, download and upload.    *)
(*                                                                         *)
(* A call gives every host to a thread of a ThreadPool; the thread runs    *)
(* the host's commands one after the other on the client it found in       *)
(* self.clients.  A thread whose session has died reconnects the pool, all *)
(* the hosts and not only its own, and runs its commands again from the    *)
(* first one.  So threads replace each other's clients while commands are  *)
(* running, and connect() may call exit(1) in a thread of the pool.        *)
(*                                                                         *)
(* A session is the number of a connection to its host, 0 is no client.    *)
(* There are at most 4 hosts per thread, so that starmap hands them out    *)
(* one by one.                                                             *)
(***************************************************************************)
EXTENDS Integers, Sequences, FiniteSets

CONSTANTS
  HostSeq,    \* the hosts of the configuration, in its order
  Workers,    \* the threads of the pool, threads_num of them
  Main,       \* the thread that connects the pool and calls it
  Commands,   \* how many commands, or files, a call has for each host
  Retries,    \* the attempts of connect() at each host
  MaxDrops,   \* bound: the sessions that may die
  MaxCalls    \* bound: the calls made

Hosts  == {HostSeq[i] : i \in 1 .. Len(HostSeq)}
Agents == Workers \cup {Main}

ASSUME HostSeqAssumption ==
  /\ HostSeq \in Seq(Hosts) \ {<< >>}
  /\ \A i, j \in 1 .. Len(HostSeq) : i # j => HostSeq[i] # HostSeq[j]
ASSUME WorkersAssumption  == Main \notin Workers /\ IsFiniteSet(Workers)
ASSUME ChunkAssumption    == Len(HostSeq) <= 4 * Cardinality(Workers)
ASSUME BoundsAssumption   == {Commands, Retries} \subseteq Nat \ {0}
                             /\ {MaxDrops, MaxCalls} \subseteq Nat

VARIABLES
  main,      \* what the main thread does
  calls,     \* the calls made so far
  kind,      \* what is called: exec, or a transfer (download, upload)
  queue,     \* the hosts no thread has taken yet
  worker,    \* the threads of the pool
  dial,      \* how far the connect() of each thread is
  clients,   \* self.clients: the session registered for each host
  opened,    \* the sessions opened to each host so far
  dead,      \* the sessions that are not active any more
  answer,    \* what the call has of each host
  executed,  \* how often each command was executed by the current call
  hits,      \* the sessions of each host that the current call found or saw dying
  troubled   \* the hosts that refused a command or a connection in the current call

callVars    == <<main, calls, kind>>
sessionVars == <<clients, opened, dead>>
historyVars == <<executed, hits, troubled>>
vars == <<callVars, sessionVars, historyVars, queue, worker, dial, answer>>

-----------------------------------------------------------------------------
Index   == 1 .. Commands
Session == Nat

Idle == [pc |-> "idle", host |-> HostSeq[1], session |-> 0, next |-> 1, output |-> << >>,
         repeat |-> FALSE]

TypeOK ==
  /\ main    \in {"connecting", "ready", "executing", "exited"}
  /\ calls   \in 0 .. MaxCalls
  /\ kind    \in {"exec", "transfer"}
  /\ queue   \subseteq Hosts
  /\ worker  \in [Workers -> [pc      : {"idle", "begin", "run", "connect"},
                              host    : Hosts,
                              session : Session,
                              next    : 1 .. Commands + 1,
                              output  : Seq(Index),
                              repeat  : BOOLEAN]]
  /\ dial    \in [Agents -> [at : 1 .. Len(HostSeq), attempt : 0 .. Retries - 1]]
  /\ clients \in [Hosts -> Session]
  /\ opened  \in [Hosts -> Session]
  /\ dead    \subseteq Hosts \X Session
  /\ answer  \in [Hosts -> [state  : {"none", "pending", "done", "raised", "lost"},
                            output : Seq(Index)]]
  /\ executed \in [Hosts -> [Index -> Nat]]
  /\ hits     \in [Hosts -> Nat]
  /\ troubled \subseteq Hosts

FirstDial    == [at |-> 1, attempt |-> 0]
Answer(s, o) == [state |-> s, output |-> o]

Init ==
  /\ main     = "connecting"
  /\ calls    = 0
  /\ kind     = "exec"
  /\ queue    = {}
  /\ worker   = [w \in Workers |-> Idle]
  /\ dial     = [a \in Agents |-> FirstDial]
  /\ clients  = [h \in Hosts |-> 0]
  /\ opened   = [h \in Hosts |-> 0]
  /\ dead     = {}
  /\ answer   = [h \in Hosts |-> Answer("none", << >>)]
  /\ executed = [h \in Hosts |-> [i \in Index |-> 0]]
  /\ hits     = [h \in Hosts |-> 0]
  /\ troubled = {}

-----------------------------------------------------------------------------
\* connect(): the hosts in order, up to Retries attempts at each.
Connecting(a) ==
  \/ a = Main /\ main = "connecting"
  \/ a \in Workers /\ worker[a].pc = "connect"

Dialled(a) == HostSeq[dial[a].at]

\* The loop over the hosts goes on, or connect() returns: the main thread may call the
\* pool, a thread of the pool runs exec_on_host again with repeat set.
ForgetRepeat(a) ==
  IF dial[a].at < Len(HostSeq)
  THEN /\ dial' = [dial EXCEPT ![a] = [at |-> dial[a].at + 1, attempt |-> 0]]
       /\ UNCHANGED <<main, worker>>
  ELSE /\ dial' = [dial EXCEPT ![a] = FirstDial]
       /\ main' = IF a = Main THEN "ready" ELSE main
       /\ worker' = IF a = Main THEN worker ELSE [worker EXCEPT ![a].pc = "begin"]

NextHost(a) ==
  IF dial[a].at < Len(HostSeq)
  THEN /\ dial' = [dial EXCEPT ![a] = [at |-> dial[a].at + 1, attempt |-> 0]]
       /\ UNCHANGED <<main, worker>>
  ELSE /\ dial' = [dial EXCEPT ![a] = FirstDial]
       /\ main' = IF a = Main THEN "ready" ELSE main
       /\ worker' = IF a = Main THEN worker
                    ELSE [worker EXCEPT ![a].pc = "begin", ![a].repeat = TRUE]

Connect(a) ==
  /\ Connecting(a)
  /\ clients' = [clients EXCEPT ![Dialled(a)] = opened[Dialled(a)] + 1]
  /\ opened'  = [opened EXCEPT ![Dialled(a)] = @ + 1]
  /\ NextHost(a)
  /\ UNCHANGED <<calls, kind, dead, historyVars, queue, answer>>

\* One attempt more than configured.
ConnectSilentOnceMore(a) ==
  /\ Connecting(a)
  /\ troubled' = troubled \cup {Dialled(a)}
  /\ \/ /\ dial[a].attempt < Retries
        /\ dial' = [dial EXCEPT ![a].attempt = @ + 1]
        /\ UNCHANGED <<main, worker>>
     \/ /\ dial[a].attempt = Retries
        /\ NextHost(a)
  /\ UNCHANGED <<calls, kind, sessionVars, executed, hits, queue, answer>>

\* The first line of `uptime` has no 'load average': nothing is raised, and after the
\* last attempt the loop goes on with the client it had, or with none.
ConnectSilent(a) ==
  /\ Connecting(a)
  /\ troubled' = troubled \cup {Dialled(a)}
  /\ \/ /\ dial[a].attempt + 1 < Retries
        /\ dial' = [dial EXCEPT ![a].attempt = @ + 1]
        /\ UNCHANGED <<main, worker>>
     \/ /\ dial[a].attempt + 1 = Retries
        /\ NextHost(a)
  /\ UNCHANGED <<calls, kind, sessionVars, executed, hits, queue, answer>>

\* A timeout or an SSH error is retried; exit(1) follows the last one, and an unknown host
\* at once.  In the main thread it ends the program.  In a thread of the pool SystemExit
\* ends the thread: the pool starts another one, and the host's task gets no result.
ConnectFails(a, fatal) ==
  /\ Connecting(a)
  /\ troubled' = troubled \cup {Dialled(a)}
  /\ \/ /\ ~fatal /\ dial[a].attempt + 1 < Retries
        /\ dial' = [dial EXCEPT ![a].attempt = @ + 1]
        /\ UNCHANGED <<main, worker, answer>>
     \/ /\ fatal \/ dial[a].attempt + 1 = Retries
        /\ dial' = [dial EXCEPT ![a] = FirstDial]
        /\ IF a = Main
           THEN main' = "exited" /\ UNCHANGED <<worker, answer>>
           ELSE /\ worker' = [worker EXCEPT ![a] = Idle]
                /\ answer' = [answer EXCEPT ![worker[a].host].state = "lost"]
                /\ UNCHANGED main
  /\ UNCHANGED <<calls, kind, sessionVars, executed, hits, queue>>

-----------------------------------------------------------------------------
IsDead(h, n) == <<h, n>> \in dead

\* exec, download or upload_for_hosts: one task for each of the hosts, in the order of the
\* configuration or, where the caller gives a dictionary, of its keys.
Call(k, S) ==
  /\ main = "ready"
  /\ calls < MaxCalls
  /\ main'     = "executing"
  /\ calls'    = calls + 1
  /\ kind'     = k
  /\ queue'    = S
  /\ answer'   = [h \in Hosts |-> Answer(IF h \in S THEN "pending" ELSE "none", << >>)]
  /\ executed' = [h \in Hosts |-> [i \in Index |-> 0]]
  /\ hits'     = [h \in Hosts |-> IF IsDead(h, clients[h]) THEN 1 ELSE 0]
  /\ troubled' = {}
  /\ UNCHANGED <<sessionVars, worker, dial>>

\* A thread of the pool takes the next task.
Take(w) ==
  /\ worker[w].pc = "idle"
  /\ \E h \in queue :
       /\ worker' = [worker EXCEPT ![w] = [Idle EXCEPT !.pc = "begin", !.host = h]]
       /\ queue'  = queue \ {h}
  /\ UNCHANGED <<callVars, sessionVars, historyVars, dial, answer>>

\* The end of a task.
Finish(w, s, o) ==
  /\ worker' = [worker EXCEPT ![w] = Idle]
  /\ answer' = [answer EXCEPT ![worker[w].host] = Answer(s, o)]

\* exec_on_host, from `client = self.clients[host]` on, with an empty output; a host without
\* a client is a KeyError, in a transfer an AttributeError.
KeepClient(w) ==
  LET h == worker[w].host IN
  /\ worker[w].pc = "begin"
  /\ \/ /\ clients[h] = 0
        /\ Finish(w, "raised", << >>)
     \/ /\ clients[h] # 0
        /\ worker' = [worker EXCEPT ![w].pc      = "run",
                                    ![w].session = IF worker[w].repeat THEN @ ELSE clients[h],
                                    ![w].next    = 1,
                                    ![w].output  = << >>]
        /\ UNCHANGED answer
  /\ UNCHANGED <<callVars, sessionVars, historyVars, queue, dial>>

KeepOutput(w) ==
  LET h == worker[w].host IN
  /\ worker[w].pc = "begin"
  /\ \/ /\ clients[h] = 0
        /\ Finish(w, "raised", << >>)
     \/ /\ clients[h] # 0
        /\ worker' = [worker EXCEPT ![w].pc = "run", ![w].session = clients[h], ![w].next = 1]
        /\ UNCHANGED answer
  /\ UNCHANGED <<callVars, sessionVars, historyVars, queue, dial>>

Begin(w) ==
  LET h == worker[w].host IN
  /\ worker[w].pc = "begin"
  /\ \/ /\ clients[h] = 0
        /\ Finish(w, "raised", << >>)
     \/ /\ clients[h] # 0
        /\ worker' = [worker EXCEPT ![w].pc      = "run",
                                    ![w].session = clients[h],
                                    ![w].next    = 1,
                                    ![w].output  = << >>]
        /\ UNCHANGED answer
  /\ UNCHANGED <<callVars, sessionVars, historyVars, queue, dial>>

Running(w) == worker[w].pc = "run" /\ worker[w].next <= Commands

\* A command, or the copy of a file, that goes through.
Execute(w) ==
  LET h == worker[w].host
      i == worker[w].next
  IN  /\ Running(w)
      /\ ~IsDead(h, worker[w].session)
      /\ executed' = [executed EXCEPT ![h][i] = @ + 1]
      /\ worker'   = [worker EXCEPT ![w].next = i + 1, ![w].output = Append(@, i)]
      /\ UNCHANGED <<callVars, sessionVars, hits, troubled, queue, dial, answer>>

\* A timeout (RemoteOperationTimeout), or an error that is not an SSHException: the task
\* raises.  The command may have been executed.
ExecuteRaises(w) ==
  LET h == worker[w].host IN
  /\ Running(w)
  /\ ~IsDead(h, worker[w].session)
  /\ \/ UNCHANGED executed
     \/ executed' = [executed EXCEPT ![h][worker[w].next] = @ + 1]
  /\ troubled' = troubled \cup {h}
  /\ Finish(w, "raised", << >>)
  /\ UNCHANGED <<callVars, sessionVars, hits, queue, dial>>

\* The refused command is tried again, for ever.
TryAgain(w) ==
  IF kind = "transfer"
  THEN Finish(w, "done", worker[w].output)
  ELSE UNCHANGED <<worker, answer>>

\* An SSHException is printed and the command is passed over: `output` gets nothing for it.
\* A transfer ends there, with the files copied so far.
PassOver(w) ==
  IF kind = "transfer"
  THEN Finish(w, "done", worker[w].output)
  ELSE worker' = [worker EXCEPT ![w].next = @ + 1] /\ UNCHANGED answer

Refused(w) ==
  /\ Running(w)
  /\ ~IsDead(worker[w].host, worker[w].session)
  /\ troubled' = troubled \cup {worker[w].host}
  /\ PassOver(w)
  /\ UNCHANGED <<callVars, sessionVars, executed, hits, queue, dial>>

\* 'SSH session not active': exec_on_host reconnects the pool the first time.
SessionDead(w) ==
  /\ Running(w)
  /\ IsDead(worker[w].host, worker[w].session)
  /\ IF kind = "exec" /\ ~worker[w].repeat
     THEN /\ worker' = [worker EXCEPT ![w].pc = "connect"]
          /\ UNCHANGED answer
     ELSE PassOver(w)
  /\ UNCHANGED <<callVars, sessionVars, historyVars, queue, dial>>

Return(w) ==
  /\ worker[w].pc = "run"
  /\ worker[w].next = Commands + 1
  /\ Finish(w, "done", worker[w].output)
  /\ UNCHANGED <<callVars, sessionVars, historyVars, queue, dial>>

\* starmap returns, or raises the exception of a task, when all the tasks have ended.
Collect ==
  /\ main = "executing"
  /\ \A h \in Hosts : answer[h].state \notin {"pending", "lost"}
  /\ main' = "ready"
  /\ UNCHANGED <<calls, kind, sessionVars, historyVars, queue, worker, dial, answer>>

\* External: a session dies.
Drop(h, n) ==
  /\ Cardinality(dead) < MaxDrops
  /\ n \in 1 .. opened[h]
  /\ ~IsDead(h, n)
  /\ dead' = dead \cup {<<h, n>>}
  /\ hits' = [hits EXCEPT ![h] = @ + 1]
  /\ UNCHANGED <<callVars, clients, opened, executed, troubled, queue, worker, dial, answer>>

-----------------------------------------------------------------------------
WorkersIdle == \A w \in Workers : worker[w].pc = "idle"

\* starmap waits for the result of a thread that has ended.
Hung == /\ main = "executing"
        /\ queue = {} /\ WorkersIdle
        /\ \E h \in Hosts : answer[h].state = "lost"

Stopped ==
  /\ main = "exited" \/ (main = "ready" /\ calls = MaxCalls) \/ Hung
  /\ UNCHANGED vars

ConnectStep(a) == Connect(a) \/ ConnectSilent(a) \/ \E fatal \in BOOLEAN : ConnectFails(a, fatal)

TaskStep(w) ==
  \/ Take(w) \/ Begin(w) \/ Execute(w) \/ ExecuteRaises(w) \/ Refused(w) \/ SessionDead(w)
  \/ Return(w)

Next ==
  \/ \E a \in Agents : ConnectStep(a)
  \/ \E k \in {"exec", "transfer"}, S \in SUBSET Hosts : Call(k, S)
  \/ \E w \in Workers : TaskStep(w)
  \/ Collect
  \/ \E h \in Hosts : \E n \in 1 .. opened[h] : Drop(h, n)
  \/ Stopped

\* The threads run; sessions need not die, and the caller need not call.
Fairness ==
  /\ \A a \in Agents : WF_vars(ConnectStep(a))
  /\ \A w \in Workers : WF_vars(TaskStep(w))
  /\ WF_vars(Collect)

Spec     == Init /\ [][Next]_vars
FairSpec == Spec /\ Fairness

-----------------------------------------------------------------------------
Increasing(s) == \A i, j \in DOMAIN s : i < j => s[i] < s[j]

\* One call executes no command more than twice at a host, however many sessions die: the
\* second pass of exec_on_host never starts a third (`repeat`).  A copied file is never
\* copied twice.
AtMostTwice ==
  \A h \in Hosts, i \in Index :
    executed[h][i] <= (IF kind = "exec" THEN 2 ELSE 1)

\* What a host answers are outputs of one pass over its commands, in their order, each of a
\* command that was executed; nothing of a pass that was given up is mixed in.
OutputsOfOnePass ==
  \A h \in Hosts : answer[h].state = "done" =>
    /\ Increasing(answer[h].output)
    /\ \A i \in DOMAIN answer[h].output : executed[h][answer[h].output[i]] > 0

\* One dead session per host is masked: the call has the output of every command, also when
\* several threads reconnect the pool at the same time.
OneDropIsMasked ==
  \A h \in Hosts :
    /\ kind = "exec" /\ answer[h].state = "done"
    /\ hits[h] <= 1 /\ h \notin troubled
    => Len(answer[h].output) = Commands

\* A call ends, unless exit(1) of a reconnection has taken away one of its tasks.
CallEnds == main = "executing" ~> (main = "ready" \/ \E h \in Hosts : answer[h].state = "lost")

\* exec_at_nodes: the nodes of a host give one command each; the output of the i-th node.
NodeOutput(h, i) == answer[h].output[i]

\* abstractsshpool.py:70 of exec_at_nodes: ":return: dictionary node_idx -> output of
\* command".  The node with the i-th command of its host gets the i-th output.
NodeGetsItsOutput ==
  \A h \in Hosts : kind = "exec" /\ answer[h].state = "done" =>
    \A i \in DOMAIN answer[h].output : NodeOutput(h, i) = i
=============================================================================
