-------------------------------- MODULE Lfs --------------------------------
(***************************************************************************)
(* The local file storage of Ignite nodes: save_lfs, restore_lfs,          *)
(* delete_lfs, exists_stored_lfs, cleanup_work_dir and copy_work_dir_from  *)
(* of src/tiden/apps/ignite/ignite.py.                                     *)
(*                                                                         *)
(* A node writes its data under its consistent id, into its own work       *)
(* directory.  What is saved is one archive for each host, made by a       *)
(* command that the loop over the nodes writes for the first node of the   *)
(* host only, and that names the data of that node.                        *)
(***************************************************************************)
EXTENDS ControlUtility

CONSTANTS
  Additional,   \* the servers with ids from ADDITIONAL_NODE_START_ID on
  MaxData       \* bound: the contents that the data of a node may have had

ASSUME LfsAssumption == Additional \subseteq NodeSet /\ MaxData \in Nat

VARIABLES
  db,      \* work/db of each node: 0 if empty
  tars,    \* the archive of each host: the data of nodes, or none
  stored,  \* the data of all nodes at the last save_lfs that did all its commands
  intact   \* the hosts whose archive the last restore_lfs has unpacked

lfsVars == <<db, tars, stored, intact>>

NoTar == [n \in {} |-> 0]

LfsTypeOK ==
  /\ db \in [NodeSet -> 0 .. MaxData]
  /\ \A h \in AllHosts : /\ DOMAIN tars[h] \subseteq NodeSet
                         /\ \A n \in DOMAIN tars[h] : tars[h][n] \in 0 .. MaxData
  /\ stored \in [NodeSet -> 0 .. MaxData]
  /\ intact \subseteq AllHosts

LfsInit ==
  /\ db = [n \in NodeSet |-> 0]
  /\ tars = [h \in AllHosts |-> NoTar]
  /\ stored = db
  /\ intact = {}

-----------------------------------------------------------------------------
\* The tests save, restore and delete when no node runs; the hosts in R refuse.
Offline(R) == CuFree /\ up = {} /\ Happen(Cardinality(R))

\* The first of some nodes at a host, in the order of the table.
Place(n)          == CHOOSE i \in DOMAIN Servers : Servers[i] = n
FirstOf(h, nodes) == {n \in nodes : HostOf[n] = h /\ \A m \in nodes : HostOf[m] = h => Place(n) <= Place(m)}

\* External: a running node writes.
WriteData(n) ==
  /\ n \in up /\ CuFree /\ Quiet
  /\ db[n] < MaxData
  /\ db' = [db EXCEPT ![n] = @ + 1]
  /\ intact' = {}
  /\ UNCHANGED <<tars, stored>>

\* The nodes whose data the archive of a host gets: ids below 10000.
SavedAt(h) == FirstOf(h, NodeSet \ Additional)

\* save_lfs: tar and mv at each host; those in R refuse, and keep what they have.
SaveLfs(R) ==
  LET hosts == {h \in AllHosts : SavedAt(h) # {}} \ R IN
  /\ Offline(R)
  /\ tars' = [h \in AllHosts |-> IF h \in hosts THEN [n \in SavedAt(h) |-> db[n]] ELSE tars[h]]
  /\ stored' = [n \in NodeSet |-> IF HostOf[n] \in R THEN stored[n] ELSE db[n]]
  /\ intact' = {}
  /\ UNCHANGED db

\* The data of a node after the archive of its host is unpacked: what it has replaces what is
\* there.
Unpacked(n)   == IF n \in DOMAIN tars[HostOf[n]] THEN tars[HostOf[n]][n] ELSE db[n]
KeptIfAny(n)  == IF db[n] # 0 THEN db[n] ELSE Unpacked(n)

\* Existing data are not overwritten.
RestoreKeepsOld(R) ==
  /\ Offline(R)
  /\ db' = [n \in NodeSet |-> IF HostOf[n] \in R THEN db[n] ELSE KeptIfAny(n)]
  /\ intact' = {h \in AllHosts \ R : tars[h] # NoTar}
  /\ UNCHANGED <<tars, stored>>

\* restore_lfs: the archives of all hosts are unpacked; a host in R, or one without an archive,
\* keeps its data.
RestoreLfs(R) ==
  /\ Offline(R)
  /\ db' = [n \in NodeSet |-> IF HostOf[n] \in R THEN db[n] ELSE Unpacked(n)]
  /\ intact' = {h \in AllHosts \ R : tars[h] # NoTar}
  /\ UNCHANGED <<tars, stored>>

\* delete_lfs of the default nodes or of one; cleanup_work_dir of all nodes or of one.
DeleteLfs(nodes) ==
  /\ Offline({})
  /\ db' = [n \in NodeSet |-> IF n \in nodes THEN 0 ELSE db[n]]
  /\ intact' = {}
  /\ UNCHANGED <<tars, stored>>

-----------------------------------------------------------------------------
\* After restore_lfs each default node that is the only one of its host has what it had when
\* save_lfs stored it, whatever it has written or a test has deleted since, if its host had
\* an archive and could be asked.
RestoredIsStored ==
  \A h \in intact : LET here == {n \in NodeSet \ Additional : HostOf[n] = h} IN
    Cardinality(here) = 1 => \A n \in here : db[n] = stored[n]

\* After restore_lfs all the default nodes of such a host have what they had ("Copy Ignite
\* LFS").
AllAreRestored ==
  \A h \in intact : \A n \in NodeSet \ Additional : HostOf[n] = h => db[n] = stored[n]
=============================================================================
