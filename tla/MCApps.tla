------------------------------- MODULE MCApps -------------------------------
(***************************************************************************)
(* A small instance of the applications for TLC.                           *)
(***************************************************************************)
EXTENDS Apps

CONSTANTS jv, zo, h1

TwoApps == <<jv, zo>>
OneHost == <<h1>>
=============================================================================
