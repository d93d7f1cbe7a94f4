----------------------------- MODULE MCDnsNames -----------------------------
(***************************************************************************)
(* Small instances of DnsNames for TLC: the labels "a" and "bc".           *)
(***************************************************************************)
EXTENDS DnsNames

MCLabels == {<<97>>, <<98, 99>>}
=============================================================================
