--------------------------- MODULE DockerManager ---------------------------
(***************************************************************************)
(* DockerManager of src/tiden/dockermanager.py: remote docker commands,    *)
(* the table running_containers of the containers that a test has started, *)
(* and the swarm.                                                          *)
(*                                                                         *)
(* Hardly any command looks at its answer.  The pool drops a refused       *)
(* command silently (SshPool), and raises when there is no answer in time, *)
(* whether the command was executed or not.                                *)
(***************************************************************************)
EXTENDS Integers, Sequences, FiniteSets, SequencesExt, Events

CONSTANTS
  Hosts,        \* the hosts of the pool, in order
  Containers    \* the names of containers

ASSUME DockerAssumption ==
  /\ Hosts \in Seq(Range(Hosts)) \ {<< >>} /\ IsInjective(Hosts)
  /\ IsFiniteSet(Containers)

HostSet  == Range(Hosts)
NoSwarm  == 0
SwarmIds == 1 .. Len(Hosts) + 1
NoHost   == 0     \* swarm_manager: the number of a host, or None

VARIABLES
  docker,      \* the containers at each host
  tracked,     \* running_containers; `run` gives the caller the entry, which the caller keeps
  swarm,       \* the swarm each host is in
  manager,     \* swarm_manager
  swarmCall,   \* what the last call about the swarm was
  removing,    \* the containers that remove_containers has still to remove, or << >>
  mine,        \* the containers that this session's tests have started
  loose        \* those that a failed command was about, or that a kill has taken off the table

dockerVars == <<docker, tracked, swarm, manager, swarmCall, removing, mine, loose>>

-----------------------------------------------------------------------------
States  == {"absent", "up", "paused", "exited"}
Up(s)   == s \in {"up", "paused"}          \* 'Up' in the status
AllOf   == HostSet \X Containers
UpNow   == {x \in AllOf : Up(docker[x[1]][x[2]])}

DockerTypeOK ==
  /\ docker  \in [HostSet -> [Containers -> States]]
  /\ tracked \subseteq AllOf
  /\ swarm   \in [HostSet -> {NoSwarm} \cup SwarmIds]
  /\ manager \in 0 .. Len(Hosts)
  /\ swarmCall \in {"none", "init", "raised", "leave"}
  /\ removing \in Seq(AllOf)
  /\ mine    \subseteq AllOf
  /\ loose   \subseteq AllOf

\* The manager of a session knows nothing; the hosts are as they are.
NewManager ==
  /\ tracked' = {} /\ manager' = NoHost /\ swarmCall' = "none"
  /\ removing' = << >>
  /\ mine' = {} /\ loose' = {}
  /\ UNCHANGED <<docker, swarm>>

DockerInit ==
  /\ docker  = [h \in HostSet |-> [c \in Containers |-> "absent"]]
  /\ tracked = {}
  /\ swarm   = [h \in HostSet |-> NoSwarm]
  /\ manager = NoHost
  /\ swarmCall = "none"
  /\ removing = << >>
  /\ mine    = {}
  /\ loose   = {}

-----------------------------------------------------------------------------
\* What becomes of a command at a host, and of one sent to a set of hosts.
Outcomes == {"ok", "refused", "late", "lost"}
Done(o)   == o \in {"ok", "late"}
Raises(o) == o \in {"late", "lost"}
Cost(o)   == AsNumber(o # "ok")
DoneAt(f) == {h \in DOMAIN f : Done(f[h])}
Failed(f) == {h \in DOMAIN f : f[h] # "ok"}

IsFree == removing = << >>
AtHosts(S) == {x \in AllOf : x[1] \in S}

SetAt(S, from, to) == [h \in HostSet |-> [c \in Containers |->
                         IF h \in S /\ docker[h][c] \in from THEN to ELSE docker[h][c]]]

\* run: `docker run`, whose answer must be an ID, and `docker logs`.  The table of the caller
\* gets the container when run has returned.
RunContainer(h, c) ==
  /\ IsFree
  /\ \E o \in Outcomes, logs \in Outcomes :
       /\ Happen(1 + Cost(o) + Cost(logs))
       /\ IF docker[h][c] = "absent" /\ Done(o)
          THEN /\ docker' = [docker EXCEPT ![h][c] = "up"]
               /\ mine' = mine \cup {<<h, c>>}
               /\ IF o = "ok" /\ ~Raises(logs)
                  THEN tracked' = tracked \cup {<<h, c>>} /\ UNCHANGED loose
                  ELSE loose' = loose \cup {<<h, c>>} /\ UNCHANGED tracked
          ELSE UNCHANGED <<docker, mine, tracked, loose>>
       /\ o # "ok" \/ docker[h][c] # "absent" => logs = "ok"
  /\ UNCHANGED <<swarm, manager, swarmCall, removing>>

\* stop, start, pause, unpause, restart_container: nobody looks at the answer.
Moves == [stop    |-> [from |-> {"up", "paused"}, to |-> "exited"],
          start   |-> [from |-> {"exited"}, to |-> "up"],
          pause   |-> [from |-> {"up"}, to |-> "paused"],
          unpause |-> [from |-> {"paused"}, to |-> "up"],
          restart |-> [from |-> {"up", "exited"}, to |-> "up"]]

Command(op, h, c) ==
  /\ IsFree /\ docker[h][c] \in Moves[op].from
  /\ Happens
  /\ docker' = [docker EXCEPT ![h][c] = Moves[op].to]
  /\ IF op \in {"start", "restart"}
     THEN mine' = mine \cup {<<h, c>>} /\ loose' = loose \cup ({<<h, c>>} \ tracked)
     ELSE UNCHANGED <<mine, loose>>
  /\ UNCHANGED <<tracked, swarm, manager, swarmCall, removing>>

\* External: the main process of a container ends; with --rm the container goes with it.
ContainerEnds(h, c) ==
  /\ docker[h][c] = "up" /\ Happens
  /\ \E s \in {"exited", "absent"} : docker' = [docker EXCEPT ![h][c] = s]
  /\ UNCHANGED <<tracked, swarm, manager, swarmCall, removing, mine, loose>>

-----------------------------------------------------------------------------
\* remove_containers: those that `docker ps -a` names at the hosts S and whose names are in N.
Matching(S, N) == {x \in AllOf : x[1] \in S /\ x[2] \in N /\ docker[x[1]][x[2]] # "absent"}

RemoveContainers(S, N) ==
  /\ IsFree /\ Matching(S, N) # {} /\ Happens
  /\ removing' = SetToSeq(Matching(S, N))
  /\ UNCHANGED <<docker, tracked, swarm, manager, swarmCall, mine, loose>>

\* remove_container: of a container that the table has.
RemoveContainer(h, c) ==
  /\ IsFree /\ <<h, c>> \in tracked /\ Happens
  /\ IF Matching({h}, {c}) # {}
     THEN removing' = << <<h, c>> >> /\ UNCHANGED tracked
     ELSE tracked' = tracked \ {<<h, c>>} /\ UNCHANGED removing
  /\ UNCHANGED <<docker, swarm, manager, swarmCall, mine, loose>>

\* The entries of all hosts with this name are deleted.
ForgetName(h, c) == tracked' = {x \in tracked : x[2] # c}

ForgetEntry(h, c) == tracked' = tracked \ {<<h, c>>}

\* The next `docker rm -f`: the entry goes also when the command was refused.  If it raises,
\* the rest is left as it is.  remove_container then deletes the entry again: KeyError, so
\* that it never prunes the volumes after a removal.
RemoveNext ==
  LET x == Head(removing) h == x[1] c == x[2] IN
  /\ ~IsFree
  /\ \E o \in Outcomes :
       /\ Happen(Cost(o))
       /\ docker' = IF Done(o) THEN [docker EXCEPT ![h][c] = "absent"] ELSE docker
       /\ IF Raises(o) THEN UNCHANGED tracked ELSE ForgetEntry(h, c)
       /\ removing' = IF Raises(o) THEN << >> ELSE Tail(removing)
       /\ loose' = IF o = "ok" THEN loose ELSE loose \cup {x}
  /\ UNCHANGED <<swarm, manager, swarmCall, mine>>

\* remove_all_containers and kill_running_containers empty the table first, whatever their
\* command does at the hosts; a killed container can be started again, and is not in the
\* table then.
ForgetAll(from, to) ==
  /\ IsFree
  /\ \E f \in [HostSet -> Outcomes] :
       /\ Happen(1 + Cardinality(Failed(f)))
       /\ docker' = SetAt(DoneAt(f), from, to)
       /\ loose' = loose \cup (IF to = "exited" THEN AllOf ELSE AtHosts(Failed(f)))
  /\ tracked' = {}
  /\ UNCHANGED <<swarm, manager, swarmCall, removing, mine>>

RemoveAllContainers   == ForgetAll(States, "absent")
KillRunningContainers == ForgetAll({"up", "paused"}, "exited")

\* prune: the stopped containers go, and the table keeps them.
Prune ==
  /\ IsFree /\ Happens
  /\ docker' = SetAt(HostSet, {"exited"}, "absent")
  /\ UNCHANGED <<tracked, swarm, manager, swarmCall, removing, mine, loose>>

-----------------------------------------------------------------------------
\* The plugin DockerCleaner lets the session go on: print_and_terminate_containers has found
\* no container that runs, or may kill them and has found none when it looked again.
NoSecondLook == TRUE

SecondLook == \A x \in AllOf : ~Up(docker'[x[1]][x[2]])

CleanerPasses(force) ==
  IF UpNow = {} THEN UNCHANGED <<docker, events>>
  ELSE /\ force
       /\ \E f \in [HostSet -> Outcomes] :
            /\ Happen(Cardinality(Failed(f)))
            /\ \A h \in HostSet : ~Raises(f[h])
            /\ docker' = SetAt(DoneAt(f), {"up", "paused"}, "exited")
            /\ SecondLook

-----------------------------------------------------------------------------
FreshSwarm == CHOOSE i \in SwarmIds : \A h \in HostSet : swarm[h] # i

\* A host that answers joins if it is in no swarm; init_swarm goes on only if it has.
JoinUnseen(k, left, f) == TRUE

JoinSeen(k, left, f) == left[Hosts[k]] = NoSwarm /\ f[Hosts[k]] = "ok"

\* init_swarm: every host leaves the swarm it is in, the first one makes a new swarm, and the
\* others join it one after the other until one of them fails.
InitSwarm ==
  /\ IsFree
  /\ \E leaves, f \in [HostSet -> Outcomes] :
       LET left   == [h \in HostSet |-> IF h \in DoneAt(leaves) THEN NoSwarm ELSE swarm[h]]
           raised == \E h \in HostSet : Raises(leaves[h])
           seen   == {k \in 1 .. Len(Hosts) : \A j \in 1 .. k : JoinSeen(j, left, f)}
           \* the hosts that were asked
           asked  == IF raised THEN {} ELSE {k \in 1 .. Len(Hosts) : \A j \in 1 .. k - 1 : j \in seen}
           joined == {k \in asked : left[Hosts[k]] = NoSwarm /\ Done(f[Hosts[k]])}
       IN  /\ Happen(1 + Cardinality(Failed(leaves)) + Cardinality(Failed(f)))
           /\ swarm' = [h \in HostSet |-> IF \E k \in joined : Hosts[k] = h THEN FreshSwarm
                                          ELSE left[h]]
           /\ manager' = IF raised THEN manager ELSE 1
           /\ swarmCall' = IF ~raised /\ Cardinality(seen) = Len(Hosts) THEN "init" ELSE "raised"
  /\ UNCHANGED <<docker, tracked, removing, mine, loose>>

\* leave_swarm: swarm_manager keeps its value.
LeaveSwarm ==
  /\ IsFree
  /\ \E f \in [HostSet -> Outcomes] :
       /\ Happen(1 + Cardinality(Failed(f)))
       /\ swarm' = [h \in HostSet |-> IF h \in DoneAt(f) THEN NoSwarm ELSE swarm[h]]
  /\ swarmCall' = "leave"
  /\ UNCHANGED <<docker, tracked, manager, removing, mine, loose>>

-----------------------------------------------------------------------------
\* A container of this session that runs can be found in the table, so that its logs can be
\* read and it can be removed, unless a command about it failed, or it was killed or left by
\* an earlier session and started again: removing one container forgets no other.
NoLostContainer == IsFree => \A x \in UpNow \cap mine : x \in tracked \/ x \in loose

\* When init_swarm has returned, all hosts are in one swarm, and in no swarm of an earlier
\* session, whatever the hosts were in before and whichever command was refused.
OneSwarm ==
  swarmCall = "init" => /\ manager # NoHost
                        /\ \A h \in HostSet : swarm[h] = swarm[Hosts[manager]] /\ swarm[h] # NoSwarm
=============================================================================
