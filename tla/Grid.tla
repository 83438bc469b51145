-------------------------------- MODULE Grid --------------------------------
(***************************************************************************)
(* A grid under test: control.sh sent to its nodes and the data of the     *)
(* nodes saved and restored, while nodes start, are killed and crash.      *)
(***************************************************************************)
EXTENDS Lfs

vars == <<controlVars, lfsVars, events>>

TypeOK == ControlTypeOK /\ LfsTypeOK /\ events \in 0 .. MaxEvents

Init == ControlInit /\ LfsInit /\ events = 0

Control(A) == A /\ UNCHANGED lfsVars
Data(A)    == A /\ UNCHANGED controlVars

NodeChanges(n) ==
  \/ Control(StartServer(n)) \/ Control(KillServer(n)) \/ Control(CrashServer(n))
  \/ \E line \in BOOLEAN : Control(WriteLine(n, line))
  \/ Data(WriteData(n))

Commands ==
  \/ \E on, refused \in BOOLEAN : Control(Activate(on, started, refused))
  \/ \E n \in started \cap port, on, refused \in BOOLEAN : Control(Activate(on, {n}, refused))
  \/ Control(Poll)
  \/ \E opt \in {"", "use_same_host", "use_another_host"}, nodes \in SUBSET up :
       Control(BaselineCommand(opt, nodes))
  \/ Control(ReadTopology) \/ Control(SetBaseline)
  \/ \E R \in SUBSET AllHosts : Data(SaveLfs(R)) \/ Data(RestoreLfs(R))
  \/ \E nodes \in {NodeSet \ Additional} \cup {{n} : n \in NodeSet} : Data(DeleteLfs(nodes))

Next == (\E n \in NodeSet : NodeChanges(n)) \/ Commands

Spec == Init /\ [][Next]_vars
=============================================================================
