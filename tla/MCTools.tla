------------------------------ MODULE MCTools ------------------------------
(***************************************************************************)
(* A small instance of the tools for TLC: two nodes whose logs are read;   *)
(* two hosts with a process of Tiden's user, two of others, and one with a *)
(* reserved name; three test modules: one for all values of a switch and   *)
(* of a switch whose name has a dot, one for the values it names of a      *)
(* switch and of another option, with defaults, and one without.           *)
(***************************************************************************)
EXTENDS Tools

CONSTANTS n1, n2, h1, h2, mine, other1, other2, jenkins

MCHostOf == [p \in Procs |-> IF p = other2 THEN h2 ELSE h1]

CONSTANTS m1, m2, m3, t1, t2, t3, sw, dotted, num, tag

MCCModules  == <<m1, m2, m3>>
MCInModule  == t1 :> m1 @@ t2 :> m2 @@ t3 :> m3
MCDeclares  == m1 :> {sw, dotted} @@ m2 :> {sw, num} @@ m3 :> {}
MCPossible  ==
  m1 :> << >> @@ m3 :> << >>
    @@ m2 :> << sw :> "on" @@ num :> "on", sw :> "off" @@ num :> "on", sw :> "on" @@ num :> "off" >>
MCMark(on, off, tagged, blocked) == [on |-> on, off |-> off, tagged |-> tagged, blocked |-> blocked]
MCMarksOf   ==
  { MCMark({}, {}, {}, TRUE), MCMark({sw}, {}, {}, FALSE),
    MCMark({}, {sw}, {tag}, FALSE), MCMark({sw}, {dotted}, {}, FALSE) }
MCPassed    == { {}, {tag, t1} }
MCGivens    ==
  { [o \in Opts |-> "unset"], [o \in Opts |-> "on"], [o \in Opts |-> "off"] }
    \cup { [o \in Opts |-> IF o = num THEN "on" ELSE IF o = sw THEN v ELSE "unset"] : v \in Values }
=============================================================================
