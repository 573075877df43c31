------------------------------ MODULE SyncMutex ------------------------------
(***************************************************************************)
(* What the provider-sync lock promises its callers: the synchronisation   *)
(* of the session history runs in at most one process at a time, and a     *)
(* process that stops -- by finishing or by dying -- gives its turn back.  *)
(* ProviderSyncLock implements this with an OS file lock, a directory and  *)
(* an owner file.                                                          *)
(***************************************************************************)
CONSTANTS Procs,   \* the processes that synchronise
          NoProc   \* nobody

VARIABLE holder    \* the process inside the synchronisation, or NoProc

Init == holder = NoProc

Enter(p) == /\ holder = NoProc
            /\ holder' = p

Leave(p) == /\ holder = p
            /\ holder' = NoProc

Next == \E p \in Procs : Enter(p) \/ Leave(p)

Spec == Init /\ [][Next]_holder
=============================================================================
