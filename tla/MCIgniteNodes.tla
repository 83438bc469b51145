--------------------------- MODULE MCIgniteNodes ---------------------------
(***************************************************************************)
(* Small instances of the grid for TLC.                                    *)
(***************************************************************************)
EXTENDS IgniteNodes
=============================================================================
