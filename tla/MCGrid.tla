------------------------------- MODULE MCGrid -------------------------------
(***************************************************************************)
(* Small instances of a grid for TLC: two default nodes, at two hosts or at *)
(* one, and an additional one.                                             *)
(***************************************************************************)
EXTENDS Grid

CONSTANTS n1, n2, n3, h1, h2

ThreeNodes == <<n1, n2, n3>>
TwoHosts == <<h1, h2>>
Apart    == (n1 :> h1) @@ (n2 :> h2) @@ (n3 :> h2)
Together == [n \in {n1, n2, n3} |-> h1]
=============================================================================
