-------------------------- MODULE MCManagedJournal --------------------------
(* Small instances of ManagedJournal: who makes which request. *)
EXTENDS ManagedJournal, TLC
CONSTANTS w1, r1
OneEach == (r1 :> w1)
NoRequest == <<>>
=============================================================================
