------------------------- MODULE MCProviderSyncLock -------------------------
(***************************************************************************)
(* Small instances of the lock.  One lock id for every process that can be *)
(* inside an attempt and one for a directory left behind leave a fresh id  *)
(* at any time.                                                            *)
(***************************************************************************)
EXTENDS ProviderSyncLock, TLC

IdSymmetry == Permutations(Ids)
=============================================================================
