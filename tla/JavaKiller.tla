----------------------------- MODULE JavaKiller -----------------------------
(***************************************************************************)
(* The plugin of src/tiden/plugins/javakiller.py: before the hosts are set *)
(* up it kills the Java processes that an earlier session, or somebody     *)
(* else, left on them.                                                     *)
(*                                                                         *)
(* It looks at the hosts several times, and each host answers at a moment  *)
(* of its own while processes start and end.  Whose processes they are is  *)
(* asked with `ps`, which shows those of every user; afterwards, when all  *)
(* are its own, the plugin asks with `jps`, which shows only them.  The    *)
(* signals are sent with sudo to all that `ps` shows at that moment.       *)
(***************************************************************************)
EXTENDS Integers, FiniteSets

CONSTANTS
  KHosts,      \* the hosts
  Procs,       \* Java processes that may run
  HostOf,      \* the host of each
  Others,      \* those of other users
  Reserved,    \* those with a name of _reserved_java_processes
  MaxLooks     \* bound: how often the plugin looks whether they have ended (timeout_counter)

ASSUME KillerAssumption ==
  /\ HostOf \in [Procs -> KHosts] /\ IsFiniteSet(Procs)
  /\ Others \subseteq Procs /\ Reserved \subseteq Procs
  /\ MaxLooks \in Nat \ {0}

VARIABLES
  force,     \* the option force_setup
  procs,     \* whether a process is new, runs or has ended
  before,    \* those that ran when the plugin was called
  killed,    \* those a signal was sent to
  step,      \* what the plugin does
  asked,     \* the hosts that have not answered yet
  listed,    \* what the others have answered
  another,   \* another_user_ps
  looks      \* how often it has looked since

killerVars == <<force, procs, before, killed, step, asked, listed, another, looks>>

Listings == {"owners", "first", "wait"}
Over     == {"done", "exit", "raised"}

KillerTypeOK ==
  /\ force \in BOOLEAN /\ another \in BOOLEAN
  /\ procs \in [Procs -> {"new", "runs", "ended"}]
  /\ before \subseteq Procs /\ killed \subseteq Procs /\ listed \subseteq Procs
  /\ step \in Listings \cup {"kill"} \cup Over
  /\ asked \subseteq KHosts
  /\ looks \in 0 .. MaxLooks

KillerInit ==
  /\ force \in BOOLEAN
  /\ procs \in [Procs -> {"new", "runs"}]
  /\ before = {p \in Procs : procs[p] = "runs"}
  /\ killed = {} /\ listed = {}
  /\ step = "owners" /\ asked = KHosts
  /\ another = FALSE /\ looks = 0

-----------------------------------------------------------------------------
\* `ps -ef | grep java` without the reserved names: get_process_and_owners, killall.
Ps(h)  == {p \in Procs : HostOf[p] = h /\ procs[p] = "runs"} \ Reserved
Jps(h) == Ps(h) \ Others

\* jps is asked in any case.
JpsOnly(h) == Jps(h)

\* jps_func.
JpsFunc(h) == IF another THEN Ps(h) ELSE Jps(h)

Goes(to) == step' = to /\ asked' = KHosts /\ listed' = {}

\* A host answers.
Answer(h) ==
  /\ step \in Listings /\ h \in asked
  /\ asked' = asked \ {h}
  /\ listed' = listed \cup (IF step = "owners" THEN Ps(h) ELSE JpsFunc(h))
  /\ UNCHANGED <<force, procs, before, killed, step, another, looks>>

\* The pool raises, or a host gave no output and raw_results[host][0] does.
NoAnswer ==
  /\ step \notin Over /\ asked # {}
  /\ step' = "raised"
  /\ UNCHANGED <<force, procs, before, killed, asked, listed, another, looks>>

\* An own process takes the flag back.
SkipIfAll(found) == found # {} /\ found = listed

\* skip_process_termination: processes of another user, and no force_setup.
Skip(found) == found # {}

OwnersKnown ==
  LET found == listed \cap Others IN
  /\ step = "owners" /\ asked = {}
  /\ another' = (found # {})
  /\ Goes(IF Skip(found) /\ ~force THEN "exit" ELSE "first")
  /\ UNCHANGED <<force, procs, before, killed, looks>>

FirstKnown ==
  /\ step = "first" /\ asked = {}
  /\ Goes(IF listed = {} THEN "done" ELSE "kill")
  /\ UNCHANGED <<force, procs, before, killed, another, looks>>

\* killall at a host; `sudo -n` may refuse.
KillAll(h) ==
  /\ step = "kill" /\ h \in asked
  /\ asked' = asked \ {h}
  /\ killed' \in {killed, killed \cup Ps(h)}
  /\ UNCHANGED <<force, procs, before, step, listed, another, looks>>

AllSignalled ==
  /\ step = "kill" /\ asked = {}
  /\ Goes("wait")
  /\ UNCHANGED <<force, procs, before, killed, another, looks>>

\* The loop ends when nothing runs or the time is over; one process may be left.
Looked ==
  /\ step = "wait" /\ asked = {}
  /\ looks' = looks + 1
  /\ Goes(CASE listed # {} /\ looks' < MaxLooks -> "wait"
            [] Cardinality(listed) > 1 /\ looks' = MaxLooks -> "exit"
            [] OTHER -> "done")
  /\ UNCHANGED <<force, procs, before, killed, another>>

\* External: somebody starts a process, or one ends, by a signal or by itself.
ProcStarts(p) ==
  /\ step \notin Over /\ procs[p] = "new"
  /\ procs' = [procs EXCEPT ![p] = "runs"]
  /\ UNCHANGED <<force, before, killed, step, asked, listed, another, looks>>
ProcEnds(p) ==
  /\ step \notin Over /\ procs[p] = "runs"
  /\ procs' = [procs EXCEPT ![p] = "ended"]
  /\ UNCHANGED <<force, before, killed, step, asked, listed, another, looks>>

KillerNext ==
  \/ \E h \in KHosts : Answer(h) \/ KillAll(h)
  \/ NoAnswer \/ OwnersKnown \/ FirstKnown \/ AllSignalled \/ Looked
  \/ \E p \in Procs : ProcStarts(p) \/ ProcEnds(p)

KillerSpec == KillerInit /\ [][KillerNext]_killerVars

-----------------------------------------------------------------------------
\* Without force_setup no process of another user that ran when the plugin was called gets a
\* signal, although killall sends one to everything it sees, as root.  (One that is started
\* after its host has answered the question of the owners may get it.)
AliensSpared == killed \cap before \cap Others # {} => force

\* When the plugin lets the session go on, at most one of the processes that ran when it was
\* called still runs, besides the reserved ones: whatever was refused, however slowly they
\* ended, whoever's they were and whatever started meanwhile.  (javakiller.py:64 compares with
\* 1, so one may be left.)
OldJavaIsGone == step = "done" => Cardinality({p \in before \ Reserved : procs[p] = "runs"}) <= 1
=============================================================================
