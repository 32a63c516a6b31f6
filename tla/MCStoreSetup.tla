---------------------------- MODULE MCStoreSetup -----------------------------
(***************************************************************************)
(* Instance of StoreSetup for TLC.                                         *)
(***************************************************************************)
EXTENDS StoreSetupProofs, TLC

Symmetry == Permutations(Procs)
=============================================================================
