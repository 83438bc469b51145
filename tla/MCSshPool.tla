----------------------------- MODULE MCSshPool -----------------------------
(***************************************************************************)
(* A small instance of the SSH pool for TLC.                               *)
(***************************************************************************)
EXTENDS SshPool

CONSTANTS h1, h2

TwoHosts == <<h1, h2>>
=============================================================================
