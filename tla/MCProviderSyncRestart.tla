------------------------ MODULE MCProviderSyncRestart -----------------------
(***************************************************************************)
(* Small instances of the manager's restart beside the lock.               *)
(***************************************************************************)
EXTENDS ProviderSyncRestart, TLC

IdSymmetry == Permutations(Ids)
=============================================================================
