----------------------------- MODULE Exchanges -----------------------------
(***************************************************************************)
(* ExchangesCollection of src/tiden/apps/ignite/exchange_info.py: what the *)
(* logs of the nodes say of the partition map exchanges, whether one has   *)
(* finished, and how long it took.                                         *)
(*                                                                         *)
(* The cluster is external: a coordinator merges successive exchanges into *)
(* groups, a node that was there before a group starts the first exchange  *)
(* of it, one that joins starts its own, and both merge the rest and       *)
(* finish with the last.  Meanwhile the logs are read three times, with    *)
(* one grep for each kind of line.  The nodes are default nodes; what grep *)
(* finds for additional ones is not collected.  A topology version stands  *)
(* for its major number; exchanges with a minor one are groups of their    *)
(* own.                                                                    *)
(***************************************************************************)
EXTENDS Integers, FiniteSets, FiniteSetsExt, Sequences

CONSTANTS
  XNodes,    \* the default nodes, alive
  LastVer    \* the number of topology versions

ASSUME ExchangesAssumption == LastVer \in Nat \ {0} /\ IsFiniteSet(XNodes) /\ XNodes # {}

Vers  == 1 .. LastVer
Kinds == <<"started", "finished", "merged">>

VARIABLES
  groupOf,   \* cluster: the first version of the group of each version
  joinedAt,  \* cluster: the version with which each node joined
  at,        \* cluster: the exchange each node is in (0 if none) and the last version it has seen
  clock,     \* cluster: the lines written so far, which is the time
  logs,      \* the lines of each kind in the log of each node: the times for each version, or
             \* <<current, merged>> versions
  reads,     \* how many greps have read the logs
  since,     \* the time of the first of them
  found      \* what they have found, as logs

clusterVars   == <<groupOf, joinedAt, at, clock, logs>>
exchangesVars == <<clusterVars, reads, since, found>>

-----------------------------------------------------------------------------
First(v)  == groupOf[v]
Latest(v) == CHOOSE w \in Vers : First(w) = First(v) /\ \A u \in Vers : First(u) = First(v) => u <= w

NoTimes == [v \in Vers |-> 0]
NoLines == [started  |-> [n \in XNodes |-> NoTimes],
            finished |-> [n \in XNodes |-> NoTimes],
            merged   |-> [n \in XNodes |-> {}]]
Lines   == [started  : [XNodes -> [Vers -> 0 .. clock]],
            finished : [XNodes -> [Vers -> 0 .. clock]],
            merged   : [XNodes -> SUBSET (Vers \X Vers)]]

ExchangesTypeOK ==
  /\ groupOf \in [Vers -> Vers] /\ joinedAt \in [XNodes -> Vers]
  /\ at \in [XNodes -> [cur : 0 .. LastVer, ver : 0 .. LastVer]]
  /\ clock \in Nat /\ since \in 0 .. clock
  /\ logs \in Lines /\ found \in Lines
  /\ reads \in 0 .. 3

ExchangesInit ==
  /\ groupOf \in {f \in [Vers -> Vers] : \A v \in Vers : f[v] = v \/ (v > 1 /\ f[v] = f[v - 1])}
  /\ joinedAt \in {f \in [XNodes -> Vers] : \E n \in XNodes : f[n] = 1}
  /\ at = [n \in XNodes |-> [cur |-> 0, ver |-> joinedAt[n] - 1]]
  /\ clock = 0 /\ since = 0
  /\ logs = NoLines /\ found = NoLines
  /\ reads = 0

-----------------------------------------------------------------------------
AllRead == reads = 3

Write(new) ==
  /\ ~AllRead
  /\ clock' = clock + 1 /\ logs' = new
  /\ UNCHANGED <<groupOf, joinedAt, reads, since, found>>

\* External: 'Started exchange init'.
StartExchange(n) ==
  LET v == at[n].ver + 1 IN
  /\ at[n].cur = 0 /\ v \in Vers
  /\ at' = [at EXCEPT ![n] = [cur |-> v, ver |-> v]]
  /\ Write([logs EXCEPT !.started[n][v] = clock + 1])

\* External: 'Merge exchange future'.
MergeExchange(n) ==
  LET cur == at[n].cur  ver == at[n].ver + 1 IN
  /\ cur # 0 /\ ver \in Vers /\ First(ver) = First(cur)
  /\ at' = [at EXCEPT ![n].ver = ver]
  /\ Write([logs EXCEPT !.merged[n] = @ \cup {<<cur, ver>>}])

\* External: 'Finish exchange future'.
FinishExchange(n) ==
  LET v == at[n].ver IN
  /\ at[n].cur # 0 /\ v = Latest(at[n].cur)
  /\ at' = [at EXCEPT ![n].cur = 0]
  /\ Write([logs EXCEPT !.finished[n][v] = clock + 1])

\* grep_all_data_from_log: get_exchanges_from_logs calls it for one kind of line after the
\* other.
Grep ==
  LET kind == Kinds[reads + 1] IN
  /\ ~AllRead
  /\ reads' = reads + 1
  /\ found' = [found EXCEPT ![kind] = logs[kind]]
  /\ since' = IF reads = 0 THEN clock ELSE since
  /\ UNCHANGED clusterVars

-----------------------------------------------------------------------------
\* create_from_log_data: the exchanges that a node has a line of, and what is merged with one.
StartedAt(n, v)  == found.started[n][v]
FinishedAt(n, v) == found.finished[n][v]
Merges           == UNION {found.merged[n] : n \in XNodes}
Seen(v) == {n \in XNodes : StartedAt(n, v) # 0 \/ FinishedAt(n, v) # 0 \/ \E m \in found.merged[n] : v \in {m[1], m[2]}}
Known   == {v \in Vers : Seen(v) # {}}

\* Only the exchange that was merged knows of the merge.
MergedIntoOnly(v) == {m[1] : m \in {k \in Merges : k[2] = v}}

\* Both exchanges of a merge have each other among merged_exchanges.
MergedWith(v) == {m[1] : m \in {k \in Merges : k[2] = v}} \cup {m[2] : m \in {k \in Merges : k[1] = v}}
IsMerged(v)   == MergedWith(v) # {}

\* get_min_merged_exchange and get_max_merged_exchange, of a known version: they go to lower
\* versions (d = -1) or to higher ones (d = 1) as far as the first that is not merged.
Reached(acc, w) ==
  IF acc.end \/ w \notin Known THEN acc
  ELSE IF ~IsMerged(w) THEN [acc EXCEPT !.end = TRUE]
  ELSE IF MergedWith(w) \cap acc.with # {} THEN [acc EXCEPT !.ver = w, !.with = @ \cup {w}]
  ELSE acc

Walk(v, d) ==
  LET upTo[k \in 0 .. LastVer] ==
        IF k = 0 THEN [end |-> FALSE, ver |-> v, with |-> {v} \cup MergedWith(v)]
        ELSE Reached(upTo[k - 1], v + d * k)
  IN upTo[LastVer].ver

MinMerged(v) == Walk(v, -1)
MaxMerged(v) == Walk(v, 1)

StartedIn(v)  == {n \in XNodes : StartedAt(n, v) # 0}
FinishedIn(v) == {n \in XNodes : FinishedAt(n, v) # 0}

\* is_exchange_finished.
IsExchangeFinished(v, expected) ==
  IF v \notin Known THEN FALSE
  ELSE IF IsMerged(v) THEN Cardinality(FinishedIn(MaxMerged(v))) = expected
  ELSE /\ Cardinality(Seen(v)) = expected
       /\ Cardinality(StartedIn(v)) = Cardinality(FinishedIn(v))

\* get_exchange_x1_time: the slowest node; get_exchange_x2_time: from the first start to the
\* last finish.  0 stands for None and -1.
X1(v) ==
  LET lo == MinMerged(v)  hi == MaxMerged(v)  both == StartedIn(lo) \cap FinishedIn(hi)
  IN IF v \notin Known \/ both = {} THEN 0
     ELSE Max({FinishedAt(n, hi) - StartedAt(n, lo) : n \in both})
X2(v) ==
  LET lo == MinMerged(v)  hi == MaxMerged(v) IN
  IF v \notin Known \/ FinishedIn(hi) = {} \/ StartedIn(lo) = {} THEN 0
  ELSE Max({FinishedAt(n, hi) : n \in FinishedIn(hi)}) - Min({StartedAt(n, lo) : n \in StartedIn(lo)})

-----------------------------------------------------------------------------
\* What is true: the topology of a group, the nodes that were in it before, and whether a node
\* had finished the group at some time.
Members(v)  == {n \in XNodes : joinedAt[n] <= Latest(v)}
Veterans(v) == {n \in XNodes : joinedAt[n] <= First(v)}
Through(n, v, time) == logs.finished[n][Latest(v)] \in 1 .. time
OverAt(v, time)     == \A n \in Members(v) : Through(n, v, time)

\* is_exchange_finished, asked with the number of nodes of the topology, says True of every
\* exchange that all of them had finished, itself or the one it was merged into, before the
\* logs were read, whatever is written in between the three greps; and if nothing is, it says
\* True of no other.  (Otherwise it may: it compares how many nodes have started an exchange at
\* the first grep with how many others have finished it at the second.)
FinishedIsFinished ==
  AllRead => \A v \in Vers :
    LET says == IsExchangeFinished(v, Cardinality(Members(v))) IN
    /\ OverAt(v, since) => says
    /\ clock = since /\ says => OverAt(v, clock)

\* Of such an exchange x2 is the time from the first start of its group to the last finish of
\* it, and x1 the time of the slowest of the nodes that were there from the start, whichever
\* exchange of the group is asked for.
TimesAreTrue ==
  AllRead => \A v \in Vers : OverAt(v, since) /\ Veterans(v) # {} =>
    LET start(n) == logs.started[n][First(v)]  finish(n) == logs.finished[n][Latest(v)] IN
    /\ X2(v) = Max({finish(n) : n \in Members(v)}) - Min({start(n) : n \in Veterans(v)})
    /\ X1(v) = Max({finish(n) - start(n) : n \in Veterans(v)})
=============================================================================
