----------------------------- MODULE MCProvScan -----------------------------
(***************************************************************************)
(* Small instances of ProvScan for TLC: two signal strengths, so that the  *)
(* insertion meets equal, stronger and weaker records.                     *)
(***************************************************************************)
EXTENDS ProvScan

MCRssi == {-70, -50}
=============================================================================
