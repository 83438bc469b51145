----------------------------- MODULE MCSession -----------------------------
(***************************************************************************)
(* Small instances of sessions for TLC: a plain artifact and one whose     *)
(* repack rules copy from it.                                              *)
(***************************************************************************)
EXTENDS Session

CONSTANTS pl, rp, h1, h2

TwoArtifacts == <<pl, rp>>
FromPlain    == [a \in {rp} |-> {pl}]
TwoHosts     == <<h1, h2>>
=============================================================================
