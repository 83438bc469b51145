------------------------------ MODULE Session ------------------------------
(***************************************************************************)
(* Sessions of src/tiden/console/entry_points/run_tests.py, one after the  *)
(* other: the local directories are set up (setup_test_environment), the   *)
(* artifacts prepared (Artifacts), plugins asked, containers of former     *)
(* sessions dealt with, the hosts cleaned and the artifacts deployed, and  *)
(* the tests run, of which this module has the containers they work with   *)
(* (DockerManager).                                                        *)
(*                                                                         *)
(* The hosts keep their files and containers from session to session, and  *)
(* every remote command may fail.  A hook that raises anything but a       *)
(* TidenPluginException ends the session, as a crash does.                 *)
(***************************************************************************)
EXTENDS Artifacts, DockerManager

CONSTANT MaxLosses   \* bound: the files that do not arrive at a host in one session

ASSUME SessionAssumption == MaxLosses \in Nat

VARIABLES
  remote,    \* <environment.home>/artifacts at each host
  unzipped,  \* what each artifact was unzipped from, in this session's directory at each host
  missed     \* the hosts at which something has failed in this session

hostVars == <<remote, unzipped, missed>>
vars == <<sourceVars, diskVars, prepareVars, dockerVars, hostVars, events>>

-----------------------------------------------------------------------------
NoFiles == [f \in File |-> Nothing]
NotUnzipped == [h \in HostSet |-> [a \in Names |-> Nothing]]

TypeOK ==
  /\ ArtifactsTypeOK /\ DockerTypeOK
  /\ remote \in [HostSet -> [File -> Content]]
  /\ unzipped \in [HostSet -> [Names -> Content]]
  /\ missed \subseteq HostSet
  /\ events \in 0 .. MaxEvents

Init ==
  /\ ArtifactsInit /\ DockerInit
  /\ remote   = [h \in HostSet |-> NoFiles]
  /\ unzipped = NotUnzipped
  /\ missed   = {}
  /\ events   = 0

-----------------------------------------------------------------------------
Local(A) == A /\ UNCHANGED <<dockerVars, hostVars>>

Begin ==
  /\ SetUpEnvironment
  /\ NewManager
  /\ unzipped' = NotUnzipped /\ missed' = {} /\ UNCHANGED remote

Proceed(d) == Goto(d) /\ UNCHANGED <<sourceVars, diskVars, clean, changed, copied, artPath>>

\* before_hosts_setup, and of its plugins DockerCleaner, which may exit.
BeforeHostsSetup ==
  /\ doing = "prepared"
  /\ \E force \in BOOLEAN :
       \/ CleanerPasses(force) /\ Proceed("hosts")
       \/ ~force /\ UpNow # {} /\ Proceed("off") /\ UNCHANGED <<docker, events>>
  /\ UNCHANGED <<tracked, swarm, manager, swarmCall, removing, mine, loose, hostVars>>

\* init_remote_hosts: with --clean=all the home directory of every host that executes the
\* command is emptied.  Nobody looks at the answers.
InitRemoteHosts ==
  /\ doing = "hosts" /\ Proceed("upload")
  /\ \E R \in SUBSET HostSet :
       /\ clean = "" => R = {}
       /\ Happen(Cardinality(R))
       /\ remote' = [h \in HostSet |-> IF clean = "all" /\ h \notin R THEN NoFiles ELSE remote[h]]
       /\ missed' = missed \cup R
  /\ UNCHANGED <<dockerVars, unzipped>>

\* A file is not uploaded if some host has it.
OutdatedNowhere == {f \in File : Exists(f) /\ \A h \in HostSet : remote[h][f] # files[f]}

\* not_uploaded: the files of the artifacts directory that some host has not, or not the same.
NotUploaded == {f \in File : Exists(f) /\ \E h \in HostSet : remote[h][f] # files[f]}

\* upload: to all hosts.  At a host where it fails the files in L do not arrive, one of them
\* perhaps in part, and the call returns all the same.
Upload ==
  /\ doing = "upload" /\ Proceed("unzip")
  /\ \E L \in [HostSet -> SUBSET NotUploaded], cut \in BOOLEAN :
       /\ \A h \in HostSet : Cardinality(L[h]) <= MaxLosses
       /\ cut => \E h \in HostSet : L[h] # {}
       /\ Happen(Cardinality({h \in HostSet : L[h] # {}}))
       /\ remote' = [h \in HostSet |-> [f \in File |->
            IF f \notin NotUploaded THEN remote[h][f]
            ELSE IF f \notin L[h] THEN files[f]
            ELSE IF cut THEN Plain(Torn) ELSE remote[h][f]]]
       /\ missed' = missed \cup {h \in HostSet : L[h] # {}}
  /\ UNCHANGED <<dockerVars, unzipped>>

\* The unzip commands; then before_tests_run, where a plugin may say no: exit code -1.
Unzip ==
  /\ doing = "unzip"
  /\ \E R \in SUBSET HostSet, run \in BOOLEAN :
       /\ Proceed(IF run THEN "tests" ELSE "off")
       /\ Happen(Cardinality(R))
       /\ unzipped' = [h \in HostSet |-> [a \in Names |->
                         IF h \in R THEN Nothing ELSE remote[h][artPath[a]]]]
       /\ missed' = missed \cup R
  /\ UNCHANGED <<dockerVars, remote>>

EndOfTests ==
  /\ doing = "tests" /\ IsFree
  /\ Proceed("off")
  /\ UNCHANGED <<dockerVars, hostVars, events>>

Test(A) == doing = "tests" /\ A /\ UNCHANGED <<sourceVars, diskVars, prepareVars, hostVars>>

Next ==
  \/ \E a \in Names : \/ \E n \in 1 .. MaxFileName, v \in 1 .. MaxVersion : Local(Rebuild(a, n, v))
                      \/ Local(EditGlob(a)) \/ Local(EditRules(a))
  \/ Begin
  \/ Local(Load) \/ Local(CopyArtifact) \/ Local(RepackArtifact)
  \/ Local(Backup) \/ Local(DeleteArtifacts)
  \/ BeforeHostsSetup \/ InitRemoteHosts \/ Upload \/ Unzip \/ EndOfTests
  \/ Local(Crash)
  \/ \E h \in HostSet, c \in Containers :
       \/ Test(RunContainer(h, c)) \/ Test(RemoveContainer(h, c)) \/ Test(ContainerEnds(h, c))
       \/ \E op \in DOMAIN Moves : Test(Command(op, h, c))
  \/ \E S \in {HostSet} \cup {{h} : h \in HostSet}, N \in SUBSET Containers : Test(RemoveContainers(S, N))
  \/ Test(RemoveNext) \/ Test(RemoveAllContainers) \/ Test(KillRunningContainers) \/ Test(Prune)
  \/ Test(InitSwarm) \/ Test(LeaveSwarm)

Spec == Init /\ [][Next]_vars

-----------------------------------------------------------------------------
\* In the tests every host at which nothing failed in this session has each artifact unzipped
\* from the file that prepare() chose, as it is in the artifacts directory: not an older file
\* of the same name, nor what an interrupted upload of an earlier session has left there.
DeployedIsLocal ==
  doing = "tests" => \A h \in HostSet \ missed, a \in Names :
    Exists(artPath[a]) => unzipped[h][a] = files[artPath[a]]

\* With DockerCleaner configured no container that a former session has left runs beside the
\* tests, whatever ended that session and whichever kill was refused.
NoForeignContainer == doing = "tests" => UpNow \subseteq mine
=============================================================================
