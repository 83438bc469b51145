------------------------------- MODULE Events -------------------------------
(***************************************************************************)
(* The bound of the modules about applications: calls that tests make and  *)
(* things that go wrong are counted together, so that a behaviour may have *)
(* many of either but only few of both.                                    *)
(***************************************************************************)
EXTENDS Integers

CONSTANT MaxEvents   \* bound: the calls and the mishaps

ASSUME EventsAssumption == MaxEvents \in Nat

VARIABLE events      \* how many there were

Happen(n) == events' = events + n /\ events' <= MaxEvents
Happens   == Happen(1)
Quiet     == UNCHANGED events

AsNumber(b) == IF b THEN 1 ELSE 0
=============================================================================
