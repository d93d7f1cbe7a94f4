------------------------------ MODULE MCProvMgr ------------------------------
(***************************************************************************)
(* Small instances of ProvMgr for TLC.  Application tasks are              *)
(* interchangeable, and so are the slots of stop tasks and the credentials *)
(***************************************************************************)
EXTENDS ProvMgr, TLC

Symmetry ==
    Permutations(Callers) \cup Permutations(StopTasks) \cup Permutations(Creds)
=============================================================================
