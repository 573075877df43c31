------------------------- MODULE ProviderSyncProofs -------------------------
(***************************************************************************)
(* Proofs about the provider sync: its lock (ProviderSyncLock) for any     *)
(* number of processes, lock ids and incarnations, the restart beside it   *)
(* (ProviderSyncRestart) for any number of launchers and polls, and what   *)
(* runs under it (ProviderSync) for any number of rollouts, databases,     *)
(* providers, backups kept and outside events.                             *)
(***************************************************************************)
EXTENDS ProviderSync, ProviderSyncRestart, FiniteSetTheorems, TLAPS

(***************************************************************************)
(* The values a step may put at the path of the lock directory.            *)
(***************************************************************************)
LEMMA DirTypes ==
    ASSUME TypeOK
    PROVE  /\ NoDir \in Dirs
           /\ Dir(NoOwner) \in Dirs
           /\ \A p \in Peers, id \in Ids \cup {NoId} : Dir(Owner(p, id)) \in Dirs
           /\ \A n \in 0..ReuseAge : [dir EXCEPT !.age = n] \in Dirs
           /\ dir.age \in 0..ReuseAge
  BY DEF TypeOK, Dirs, Owners, NoDir, Dir, NoOwner, Owner, ReuseAge

(***************************************************************************)
(* A step of the lock, or a death the bound on incarnations does not allow *)
(* for: the manager's restart kills launchers.                             *)
(***************************************************************************)
Move == Next \/ \E p \in Peers : Die(p)

LEMMA TypeInitially == Init => TypeOK
  BY LockAssumption
     DEF Init, TypeOK, NoDir, NoOwner, Dirs, Owners, ReuseAge, Peers, HoldsOs

LEMMA TypeKept == TypeOK /\ [Move]_vars => TypeOK'
<1> SUFFICES ASSUME TypeOK, [Move]_vars PROVE TypeOK'
  OBVIOUS
<1> USE DirTypes DEF TypeOK, Goto, HoldsOs, Peers
<1>1. ASSUME NEW p \in Procs, TryLock(p) PROVE TypeOK'
  BY <1>1 DEF TryLock
<1>2. ASSUME NEW p \in Procs, CreateDir(p) PROVE TypeOK'
  BY <1>2 DEF CreateDir
<1>3. ASSUME NEW p \in Procs, WriteOwner(p) PROVE TypeOK'
  BY <1>3 DEF WriteOwner
<1>4. ASSUME NEW p \in Procs, WriteOwnerFails(p) PROVE TypeOK'
  BY <1>4 DEF WriteOwnerFails
<1>5. ASSUME NEW p \in Procs, ReadOwner(p) PROVE TypeOK'
  BY <1>5 DEF ReadOwner
<1>6. ASSUME NEW p \in Procs, InspectOwner(p) PROVE TypeOK'
  BY <1>6 DEF InspectOwner
<1>7. ASSUME NEW p \in Procs, Judge(p) PROVE TypeOK'
  BY <1>7 DEF Judge
<1>8. ASSUME NEW p \in Procs, Rename(p) PROVE TypeOK'
  BY <1>8 DEF Rename
<1>9. ASSUME NEW p \in Procs, CreateDirAgain(p) PROVE TypeOK'
  BY <1>9 DEF CreateDirAgain
<1>10. ASSUME NEW p \in Procs, Release(p) PROVE TypeOK'
  BY <1>10 DEF Release
<1>11. ASSUME NEW p \in Procs, RemoveDir(p) PROVE TypeOK'
  BY <1>11 DEF RemoveDir
<1>12. ASSUME NEW p \in Procs, Unlock(p) PROVE TypeOK'
  BY <1>12 DEF Unlock
<1>13. ASSUME NEW l \in Legacy, LegacyCreateDir(l) PROVE TypeOK'
  BY <1>13 DEF LegacyCreateDir
<1>14. ASSUME NEW l \in Legacy, LegacyWriteOwner(l) PROVE TypeOK'
  BY <1>14 DEF LegacyWriteOwner
<1>15. ASSUME NEW l \in Legacy, LegacyRelease(l) PROVE TypeOK'
  BY <1>15 DEF LegacyRelease
<1>16. ASSUME NEW l \in Legacy, LegacyRemoveDir(l) PROVE TypeOK'
  BY <1>16 DEF LegacyRemoveDir
<1>17. ASSUME NEW p \in Peers, Die(p) PROVE TypeOK'
  BY <1>17 DEF Die, Alive
<1>18. ASSUME NEW p \in Peers, Start(p) PROVE TypeOK'
  BY <1>18 DEF Start
<1>19. CASE Age
  BY <1>19 DEF Age, ReuseAge
<1>20. CASE UNCHANGED vars
  BY <1>20 DEF vars
<1>21. QED
  BY <1>1, <1>2, <1>3, <1>4, <1>5, <1>6, <1>7, <1>8, <1>9, <1>10, <1>11,
     <1>12, <1>13, <1>14, <1>15, <1>16, <1>17, <1>18, <1>19, <1>20
     DEF Move, Next, Acquire, GiveBack, LegacyStep, Crash

(***************************************************************************)
(* Type correctness: every step of acquire, release, crash and restart     *)
(* leaves the lock file, the directory and the processes in known states.  *)
(***************************************************************************)
THEOREM TypeCorrect == Spec => []TypeOK
<1>1. TypeOK /\ [Next]_vars => TypeOK'
  BY TypeKept DEF Move
<1>2. QED
  BY <1>1, TypeInitially, PTL DEF Spec

-----------------------------------------------------------------------------
(***************************************************************************)
(* Why the lock is exclusive.  A peer has a claim from the moment its      *)
(* mkdir succeeded until its directory is gone; there is at most one claim *)
(* and the directory is always the claimant's (Match).  A process of the   *)
(* current protocol touches the directory only while it owns the OS lock   *)
(* (OsHeld), so all that can go wrong is the rename of an older launcher's *)
(* directory.  It is decided on what was read one look at the process      *)
(* table earlier: if the claimant has not finished since, the reader saw   *)
(* either its young directory without an owner or its own owner.json       *)
(* (Judging), and neither is judged stale.                                 *)
(***************************************************************************)
Claims == {"made", "sync", "removing"}

OsHeld == \A p \in Procs : pc[p] \in HoldsOs => os = p

OneClaim == \A p, q \in Peers : pc[p] \in Claims /\ pc[q] \in Claims => p = q

Match == \A q \in Peers : pc[q] \in Claims =>
            /\ dir.there
            /\ dir.owner = IF pc[q] = "sync" THEN Owner(q, lid[q]) ELSE NoOwner

LegacyHasNoId == \A l \in Legacy : lid[l] = NoId

YoungWindow == \A l \in Legacy : pc[l] \in {"made", "removing"} => dir.age = 0

Judging == \A p \in Procs, l \in Legacy :
              pc[p] = "judge" /\ pc[l] \in Claims =>
                 \/ seen[p].owner = NoOwner /\ seen[p].age < Grace
                 \/ seen[p].owner.pid = l /\ seen[p].owner.inc = birth[l]

Decided == \A p \in Procs, l \in Legacy :
              pc[p] = "rename" => pc[l] \notin Claims

IInv == /\ OsHeld /\ OneClaim /\ Match /\ LegacyHasNoId
        /\ YoungWindow /\ Judging /\ Decided

LEMMA ClaimsInitially == Init => IInv
  BY LockAssumption DEF Init, IInv, OsHeld, OneClaim, Match, LegacyHasNoId,
     YoungWindow, Judging, Decided, Claims, HoldsOs, Peers

(***************************************************************************)
(* Every step keeps the claims in order.                                   *)
(***************************************************************************)
LEMMA ClaimsKept ==
    ASSUME ~LegacyReplaced PROVE TypeOK /\ IInv /\ [Move]_vars => IInv'
<1> SUFFICES ASSUME TypeOK, IInv, [Move]_vars PROVE IInv'
  OBVIOUS
<1> USE LockAssumption DEF TypeOK, Dirs, Owners, IInv, OsHeld, OneClaim,
      Match, LegacyHasNoId, YoungWindow, Judging, Decided, Claims, HoldsOs,
      Peers, Goto, Dir, NoDir, NoOwner, Owner, Grace, ReuseAge
<1>1. ASSUME NEW p \in Procs, TryLock(p) PROVE IInv'
  BY <1>1 DEF TryLock
<1>2. ASSUME NEW p \in Procs, CreateDir(p) PROVE IInv'
  BY <1>2 DEF CreateDir
<1>3. ASSUME NEW p \in Procs, WriteOwner(p) PROVE IInv'
  BY <1>3 DEF WriteOwner
<1>4. ASSUME NEW p \in Procs, WriteOwnerFails(p) PROVE IInv'
  BY <1>4 DEF WriteOwnerFails
<1>5. ASSUME NEW p \in Procs, ReadOwner(p) PROVE IInv'
  BY <1>5 DEF ReadOwner
<1>6. ASSUME NEW p \in Procs, InspectOwner(p) PROVE IInv'
  BY <1>6 DEF InspectOwner
<1>7. ASSUME NEW p \in Procs, Judge(p) PROVE IInv'
  BY <1>7 DEF Judge, Verdicts, Alive
<1>8. ASSUME NEW p \in Procs, Rename(p) PROVE IInv'
  BY <1>8 DEF Rename
<1>9. ASSUME NEW p \in Procs, CreateDirAgain(p) PROVE IInv'
  BY <1>9 DEF CreateDirAgain
<1>10. ASSUME NEW p \in Procs, Release(p) PROVE IInv'
  BY <1>10 DEF Release
<1>11. ASSUME NEW p \in Procs, RemoveDir(p) PROVE IInv'
  BY <1>11 DEF RemoveDir
<1>12. ASSUME NEW p \in Procs, Unlock(p) PROVE IInv'
  BY <1>12 DEF Unlock
<1>13. ASSUME NEW l \in Legacy, LegacyCreateDir(l) PROVE IInv'
  BY <1>13 DEF LegacyCreateDir
<1>14. ASSUME NEW l \in Legacy, LegacyWriteOwner(l) PROVE IInv'
  BY <1>14 DEF LegacyWriteOwner
<1>15. ASSUME NEW l \in Legacy, LegacyRelease(l) PROVE IInv'
  BY <1>15 DEF LegacyRelease
<1>16. ASSUME NEW l \in Legacy, LegacyRemoveDir(l) PROVE IInv'
  BY <1>16 DEF LegacyRemoveDir
<1>17. ASSUME NEW p \in Peers, Die(p) PROVE IInv'
  BY <1>17 DEF Die, Alive
<1>18. ASSUME NEW p \in Peers, Start(p) PROVE IInv'
  BY <1>18 DEF Start
<1>19. CASE Age
  BY <1>19 DEF Age
<1>20. CASE UNCHANGED vars
  BY <1>20 DEF vars
<1>21. QED
  BY <1>1, <1>2, <1>3, <1>4, <1>5, <1>6, <1>7, <1>8, <1>9, <1>10, <1>11, <1>12, <1>13, <1>14, <1>15, <1>16, <1>17, <1>18, <1>19, <1>20
     DEF Move, Next, Acquire, GiveBack, LegacyStep, Crash

(***************************************************************************)
(* The invariant is inductive as long as no older launcher takes the       *)
(* directory between another process's decision about it and the rename.   *)
(***************************************************************************)
THEOREM ClaimsInvariant == ASSUME ~LegacyReplaced PROVE Spec => []IInv
<1>1. TypeOK /\ IInv /\ [Next]_vars => IInv'
  BY ClaimsKept DEF Move
<1>2. QED
  BY <1>1, ClaimsInitially, TypeCorrect, PTL DEF Spec

(***************************************************************************)
(* At most one process, of either protocol, synchronises at a time.        *)
(***************************************************************************)
THEOREM MutexHolds == ASSUME ~LegacyReplaced PROVE Spec => []MutualExclusion
<1>1. IInv => MutualExclusion
  BY DEF IInv, OneClaim, MutualExclusion, InSync, Claims
<1>2. QED
  BY <1>1, ClaimsInvariant, PTL

(***************************************************************************)
(* A process of the current protocol that synchronises has its own owner   *)
(* file at the path: its release cannot report a changed ownership.        *)
(***************************************************************************)
THEOREM OwnerStays == ASSUME ~LegacyReplaced PROVE Spec => []HolderOwnsDir
<1>1. IInv => HolderOwnsDir
  BY DEF IInv, Match, HolderOwnsDir, InSync, Claims, Peers
<1>2. QED
  BY <1>1, ClaimsInvariant, PTL

(***************************************************************************)
(* The rename to quarantine only ever takes a directory nobody is inside.  *)
(***************************************************************************)
THEOREM OnlyOrphansReclaimed ==
    ASSUME ~LegacyReplaced PROVE Spec => ReclaimsOnlyOrphans
<1> DEFINE Safe == \A p \in Procs : pc[p] = "rename" /\ pc'[p] = "remake"
                      => \A q \in Peers \ {p} : pc[q] \notin {"made", "sync"}
<1>1. IInv => Safe
  BY LockAssumption
     DEF IInv, OsHeld, Decided, Claims, HoldsOs, Peers
<1>2. Spec => [][Safe]_vars
  BY <1>1, ClaimsInvariant, PTL
<1>3. QED
  BY <1>2 DEF ReclaimsOnlyOrphans

(***************************************************************************)
(* Among processes of the current protocol the lock is an abstract mutex,  *)
(* whatever older launchers do: the OS lock alone guarantees it.           *)
(***************************************************************************)
THEOREM OsLockHeld == Spec => []OsHeld
<1>1. Init => OsHeld
  BY DEF Init, OsHeld, HoldsOs, Peers
<1>2. TypeOK /\ OsHeld /\ [Next]_vars => OsHeld'
  BY LockAssumption
     DEF TypeOK, OsHeld, HoldsOs, Peers, Goto, vars, Next, Acquire, GiveBack,
         LegacyStep, Crash, TryLock, CreateDir, WriteOwner, WriteOwnerFails,
         ReadOwner, InspectOwner, Judge, Rename, CreateDirAgain, Release,
         RemoveDir, Unlock, LegacyCreateDir, LegacyWriteOwner, LegacyRelease,
         LegacyRemoveDir, Die, Start, Age
<1>3. QED
  BY <1>1, <1>2, TypeCorrect, PTL DEF Spec

(* Only the process that just wrote its owner.json enters.                 *)
LEMMA EntersFromMade ==
    ASSUME TypeOK, [Next]_vars, NEW q \in Procs, InSync(q)', ~InSync(q)
    PROVE  pc[q] = "made"
  BY LockAssumption
     DEF TypeOK, InSync, Peers, Goto, vars, Next, Acquire, GiveBack,
         LegacyStep, Crash, TryLock, CreateDir, WriteOwner, WriteOwnerFails,
         ReadOwner, InspectOwner, Judge, Rename, CreateDirAgain, Release,
         RemoveDir, Unlock, LegacyCreateDir, LegacyWriteOwner, LegacyRelease,
         LegacyRemoveDir, Die, Start, Age

THEOREM LockImplementsMutex == Spec => ImplementsMutex
<1>1. Init => Mutex!Init
  <2> SUFFICES ASSUME Init PROVE Holder = NoProc
    BY DEF Mutex!Init
  <2>1. \A p \in Procs : ~InSync(p)
    BY DEF Init, InSync, Peers
  <2>2. QED
    BY <2>1 DEF Holder
<1>2. OsHeld /\ OsHeld' /\ TypeOK /\ [Next]_vars => [Mutex!Next]_Holder
  <2> SUFFICES ASSUME OsHeld, OsHeld', TypeOK, [Next]_vars
               PROVE  Mutex!Next \/ UNCHANGED Holder
    OBVIOUS
  <2>1. \A p, q \in Procs : InSync(p) /\ InSync(q) => p = q
    BY DEF OsHeld, InSync, HoldsOs
  <2>2. \A p, q \in Procs : InSync(p)' /\ InSync(q)' => p = q
    BY DEF OsHeld, InSync, HoldsOs
  <2>3. CASE \E p \in Procs : InSync(p)
    <3>1. PICK p \in Procs : InSync(p)
      BY <2>3
    <3>2. Holder = p
      BY <2>1, <3>1 DEF Holder
    <3>3. CASE InSync(p)'
      <4>1. Holder' = p
        BY <2>2, <3>3 DEF Holder
      <4>2. QED
        BY <3>2, <4>1
    <3>4. CASE ~InSync(p)'
      <4>1. ASSUME NEW q \in Procs, InSync(q)' PROVE FALSE
        <5>1. q # p
          BY <3>4, <4>1
        <5>2. pc[q] = "made"
          BY <2>1, <3>1, <4>1, <5>1, EntersFromMade
        <5>3. QED
          BY <3>1, <5>1, <5>2 DEF OsHeld, InSync, HoldsOs
      <4>2. Holder' = NoProc
        BY <4>1 DEF Holder
      <4>3. QED
        BY <3>2, <4>2 DEF Mutex!Next, Mutex!Leave
    <3>5. QED
      BY <3>3, <3>4
  <2>4. CASE \A p \in Procs : ~InSync(p)
    <3>1. Holder = NoProc
      BY <2>4 DEF Holder
    <3>2. CASE \E p \in Procs : InSync(p)'
      <4>1. PICK p \in Procs : InSync(p)'
        BY <3>2
      <4>2. Holder' = p
        BY <2>2, <4>1 DEF Holder
      <4>3. QED
        BY <3>1, <4>2 DEF Mutex!Next, Mutex!Enter
    <3>3. CASE \A p \in Procs : ~InSync(p)'
      <4>1. Holder' = NoProc
        BY <3>3 DEF Holder
      <4>2. QED
        BY <3>1, <4>1
    <3>4. QED
      BY <3>2, <3>3
  <2>5. QED
    BY <2>3, <2>4
<1>3. QED
  BY <1>1, <1>2, OsLockHeld, TypeCorrect, PTL
     DEF Spec, ImplementsMutex, Mutex!Spec

-----------------------------------------------------------------------------
(* The restart, from the invariant of the lock.                            *)

(* Every step of the restart leaves the lock alone, or is a step of it, or *)
(* the death of a launcher.                                                *)
LEMMA RestartMoves == [RestartNext]_allVars => [Move]_vars
  BY RestartAssumption
     DEF RestartNext, allVars, vars, Move, LockStep, BeginRestart, Look, Decide,
         Kill, Spawn, Next, Peers

-----------------------------------------------------------------------------
(* The restart has one poll more than the bound at most.                   *)
PollsBounded == mgr = "look" => polls <= MaxPolls

(***************************************************************************)
(* Type correctness of the restart beside the lock.                        *)
(***************************************************************************)
THEOREM RestartTypeCorrect == RestartSpec => [](RestartTypeOK /\ PollsBounded)
<1>1. RestartInit => RestartTypeOK /\ PollsBounded
  BY TypeInitially, RestartAssumption
     DEF RestartInit, RestartTypeOK, PollsBounded, NoDir, NoOwner, Dirs, Owners,
         ReuseAge, Peers
<1>2. RestartTypeOK /\ PollsBounded /\ [RestartNext]_allVars
      => (RestartTypeOK /\ PollsBounded)'
  <2> SUFFICES ASSUME RestartTypeOK, PollsBounded, [RestartNext]_allVars
               PROVE  RestartTypeOK' /\ PollsBounded'
    OBVIOUS
  <2>1. TypeOK'
    BY RestartMoves, TypeKept DEF RestartTypeOK
  <2>2. NoDir \in Dirs /\ dir \in Dirs
    BY DirTypes DEF RestartTypeOK, TypeOK
  <2> USE <2>1, <2>2, RestartAssumption DEF RestartTypeOK, PollsBounded, KeepOngoing
  <2>3. CASE LockStep
    BY <2>3 DEF LockStep, mvars
  <2>4. CASE BeginRestart
    BY <2>4 DEF BeginRestart, Peers
  <2>5. CASE Look
    BY <2>5 DEF Look
  <2>6. CASE Decide
    BY <2>6 DEF Decide
  <2>7. ASSUME NEW p \in Launchers, Kill(p) PROVE RestartTypeOK' /\ PollsBounded'
    BY <2>7 DEF Kill
  <2>8. CASE Spawn
    BY <2>8 DEF Spawn
  <2>9. CASE UNCHANGED allVars
    BY <2>9 DEF allVars
  <2>10. QED
    BY <2>3, <2>4, <2>5, <2>6, <2>7, <2>8, <2>9 DEF RestartNext
<1>3. QED
  BY <1>1, <1>2, PTL DEF RestartSpec

-----------------------------------------------------------------------------
(***************************************************************************)
(* Why the wait works.  The synchronisations it waits for are running now, *)
(* without interruption since the restart began.  When the manager found a *)
(* directory, each of them had written the owner file in it, and has the   *)
(* same pid, birth time and directory still: the verdict is not stale.     *)
(***************************************************************************)
OngoingRuns == \A p \in ongoing : InSync(p)

FoundIsTheirs ==
    mgr = "judge" => \A p \in ongoing : /\ found.owner.pid = p
                                        /\ found.owner.inc = birth[p]

WaitInv == OngoingRuns /\ FoundIsTheirs /\ OngoingSyncSurvives

(***************************************************************************)
(* A restart kills nothing before every synchronisation that ran when it   *)
(* began is over (wait_for_idle_provider_sync), for any number of          *)
(* processes and whatever dies meanwhile.                                  *)
(***************************************************************************)
THEOREM WaitProtectsOngoing ==
    ASSUME ~LegacyReplaced PROVE RestartSpec => []OngoingSyncSurvives
<1>1. RestartInit => IInv /\ WaitInv
  BY ClaimsInitially
     DEF RestartInit, WaitInv, OngoingRuns, FoundIsTheirs, OngoingSyncSurvives
<1>2. RestartTypeOK /\ IInv /\ WaitInv /\ [RestartNext]_allVars => (IInv /\ WaitInv)'
  <2> SUFFICES ASSUME RestartTypeOK, IInv, WaitInv, [RestartNext]_allVars
               PROVE  IInv' /\ WaitInv'
    OBVIOUS
  <2>1. IInv'
    BY RestartMoves, ClaimsKept DEF RestartTypeOK
  <2>2. ASSUME NEW p \in ongoing
        PROVE  dir.there /\ dir.owner.pid = p /\ dir.owner.inc = birth[p]
    <3>1. p \in Peers /\ pc[p] = "sync"
      BY <2>2 DEF WaitInv, OngoingRuns, InSync, RestartTypeOK, Peers
    <3>2. dir.there /\ dir.owner = Owner(p, lid[p])
      BY <3>1 DEF IInv, Match, Claims
    <3>3. QED
      BY <3>2 DEF Owner
  <2>3. ASSUME NEW p \in ongoing, mgr = "judge" PROVE "stale" \notin Verdicts(found)
    <3>1. found.owner.pid = p /\ found.owner.inc = birth[p] /\ p # NoProc /\ Alive(p)
      BY <2>3, LockAssumption
         DEF WaitInv, OngoingRuns, FoundIsTheirs, InSync, Alive, RestartTypeOK, Peers
    <3>2. found.owner # NoOwner
      BY <3>1 DEF NoOwner
    <3>3. QED
      BY <3>1, <3>2 DEF Verdicts
  <2>4. ASSUME NEW p \in Procs, InSync(p), pc'[p] = "sync" PROVE birth'[p] = birth[p]
    BY <2>4, RestartMoves
       DEF InSync, RestartTypeOK, TypeOK, Peers, Goto, vars, Move, Next, Acquire,
           GiveBack, LegacyStep, Crash, TryLock, CreateDir, WriteOwner,
           WriteOwnerFails, ReadOwner, InspectOwner, Judge, Rename, CreateDirAgain,
           Release, RemoveDir, Unlock, LegacyCreateDir, LegacyWriteOwner,
           LegacyRelease, LegacyRemoveDir, Die, Start, Age
  <2> SUFFICES WaitInv'
    BY <2>1
  <2> USE DEF WaitInv, OngoingRuns, FoundIsTheirs, OngoingSyncSurvives, KeepOngoing,
              InSync, RestartTypeOK
  <2>5. CASE LockStep
    BY <2>4, <2>5 DEF LockStep, mvars
  <2>6. CASE BeginRestart
    BY <2>6 DEF BeginRestart
  <2>7. CASE Look
    BY <2>2, <2>7 DEF Look
  <2>8. CASE Decide
    BY <2>3, <2>8 DEF Decide
  <2>9. ASSUME NEW p \in Launchers, Kill(p) PROVE WaitInv'
    BY <2>9 DEF Kill
  <2>10. CASE Spawn
    BY <2>10 DEF Spawn
  <2>11. CASE UNCHANGED allVars
    BY <2>11 DEF allVars
  <2>12. QED
    BY <2>5, <2>6, <2>7, <2>8, <2>9, <2>10, <2>11 DEF RestartNext
<1>3. QED
  BY <1>1, <1>2, RestartTypeCorrect, PTL DEF RestartSpec, WaitInv

-----------------------------------------------------------------------------
Texts == [prov : Providers \cup {NoProvider}, body : Nat]

(* A run's plan: the texts it collected, none of them of the target; there *)
(* is a rollout under way while one is being written.                      *)
Shape ==
    /\ SyncTypeOK
    /\ \A f \in DOMAIN plan :
          plan[f] \in Texts /\ plan[f].prov \notin {target, NoProvider}
    /\ stage \in {"idle", "collect"} => DOMAIN plan = {}
    /\ cur # NoRollout <=> stage \in {"write", "rewrite"}
    /\ stage = "rewrite" => cur \notin applied

LEMMA EmptyType == EmptyText \in Texts /\ EmptyText.prov = NoProvider
  BY DEF EmptyText, Text, Texts

LEMMA ReturnKeeps ==
    ASSUME NEW r \in {"none", "Synced", "Skipped"}, Return(r)
    PROVE  /\ stage' = "idle" /\ result' = r /\ DOMAIN plan' = {} /\ todo' = {}
           /\ cur' = NoRollout /\ applied' = {} /\ mine' = NoName
  BY DEF Return, Nothing

(* Shape is inductive: one lemma for each action that changes what it says.*)
LEMMA BeginShape == Shape /\ Begin => Shape'
  BY DEF Shape, SyncTypeOK, Begin, disk, world

LEMMA CollectShape == Shape /\ Collect => Shape'
<1> SUFFICES ASSUME Shape, Collect PROVE Shape'
  OBVIOUS
<1>1. PICK locked \in SUBSET {f \in Rollouts : app} :
          /\ skipped' = locked
          /\ IF Stale(locked) = {} /\ DbsUpToDate /\ gstate[1]
             THEN Return(IF cfg = target THEN "Synced" ELSE "Skipped")
             ELSE /\ stage' = "validate"
                  /\ plan' = Restrict(rollout, Stale(locked))
                  /\ UNCHANGED <<todo, cur, applied, mine, result>>
  BY DEF Collect
<1>2. UNCHANGED <<disk, world, torn, target>> /\ stage = "collect"
  BY DEF Collect
<1>3. CASE \E r \in {"Synced", "Skipped"} : Return(r)
  BY <1>1, <1>2, <1>3, ReturnKeeps DEF Shape, SyncTypeOK, disk, world
<1>4. CASE /\ stage' = "validate" /\ plan' = Restrict(rollout, Stale(locked))
           /\ UNCHANGED <<todo, cur, applied, mine, result>>
  <2>1. plan' = [f \in Stale(locked) |-> rollout[f]] /\ Stale(locked) \subseteq Rollouts
    BY <1>4 DEF Restrict, Stale
  <2>2. \A f \in Stale(locked) :
           rollout[f] \in Texts /\ rollout[f].prov \notin {target, NoProvider}
    BY DEF Stale, Shape, SyncTypeOK, Texts
  <2>3. DOMAIN plan = {} /\ todo = {} /\ applied = {} /\ cur = NoRollout
    BY <1>2 DEF Shape, SyncTypeOK
  <2>4. QED
    BY <1>1, <1>2, <1>4, <2>1, <2>2, <2>3 DEF Shape, SyncTypeOK, disk, world
<1>5. QED
  BY <1>1, <1>3, <1>4

LEMMA ValidateShape == Shape /\ Validate => Shape'
<1> SUFFICES ASSUME Shape, Validate PROVE Shape'
  OBVIOUS
<1>1. CASE Return("Skipped")
  BY <1>1, ReturnKeeps DEF Validate, Shape, SyncTypeOK, disk, world
<1>2. CASE stage' = "backup" /\ UNCHANGED <<plan, todo, cur, applied, mine, result>>
  BY <1>2 DEF Validate, Shape, SyncTypeOK, disk, world
<1>3. QED
  BY <1>1, <1>2 DEF Validate

LEMMA BackupShape == Shape /\ Backup => Shape'
<1> SUFFICES ASSUME Shape, Backup PROVE Shape'
  OBVIOUS
<1>1. PICK s \in 0..MaxStamp, k \in 0..(Keep - 1) :
          clock' = s /\ mine' = <<s, k>> /\ DOMAIN backups' = DOMAIN backups \cup {<<s, k>>}
  BY DEF Backup
<1>2. <<s, k>> \in Names
  BY DEF Names
<1>3. QED
  BY <1>1, <1>2 DEF Backup, Shape, SyncTypeOK, world

LEMMA OpenRolloutShape ==
    ASSUME Shape, NEW f \in Rollouts, OpenRollout(f)
    PROVE  Shape'
<1>1. f \in DOMAIN plan /\ f # NoRollout
  BY SyncAssumption DEF OpenRollout, Shape, SyncTypeOK
<1>2. rollout' \in [Rollouts -> Texts]
  BY EmptyType DEF OpenRollout, Shape, SyncTypeOK, Texts
<1>3. cur' # NoRollout <=> stage' \in {"write", "rewrite"}
  BY <1>1 DEF OpenRollout, Shape
<1>4. QED
  BY <1>1, <1>2, <1>3 DEF OpenRollout, Shape, SyncTypeOK, world, Texts

LEMMA WriteRolloutShape == Shape /\ WriteRollout => Shape'
<1> SUFFICES ASSUME Shape, WriteRollout PROVE Shape'
  OBVIOUS
<1>1. cur \in DOMAIN plan /\ plan[cur] \in Texts
  BY DEF WriteRollout, Shape, SyncTypeOK
<1>2. Text(target, plan[cur].body) \in Texts
  BY <1>1 DEF Text, Texts, Shape, SyncTypeOK
<1>3. rollout' \in [Rollouts -> Texts]
  BY <1>2 DEF WriteRollout, Shape, SyncTypeOK, Texts
<1>4. QED
  BY <1>1, <1>3 DEF WriteRollout, Shape, SyncTypeOK, world, Texts

LEMMA RestoreShape ==
    ASSUME Shape, NEW f \in Rollouts, Restore(f)
    PROVE  Shape'
<1>1. f \in DOMAIN plan /\ f # NoRollout /\ cur = NoRollout
  BY SyncAssumption DEF Restore, Shape, SyncTypeOK
<1>2. rollout' \in [Rollouts -> Texts]
  BY EmptyType DEF Restore, Shape, SyncTypeOK, Texts
<1>3. /\ cur' # NoRollout <=> stage' \in {"write", "rewrite"}
      /\ stage' = "rewrite" => cur' \notin applied'
      /\ cur' \in DOMAIN plan \cup {NoRollout}
      /\ stage' \in {"restore", "rewrite"}
  BY <1>1 DEF Restore, Shape
<1>4. QED
  BY <1>1, <1>2, <1>3 DEF Restore, Shape, SyncTypeOK, world, Texts

LEMMA RewriteRolloutShape == Shape /\ RewriteRollout => Shape'
<1> SUFFICES ASSUME Shape, RewriteRollout PROVE Shape'
  OBVIOUS
<1>1. cur \in DOMAIN plan /\ plan[cur] \in Texts
  BY DEF RewriteRollout, Shape, SyncTypeOK
<1>2. rollout' \in [Rollouts -> Texts]
  BY <1>1 DEF RewriteRollout, Shape, SyncTypeOK, Texts
<1>3. QED
  BY <1>1, <1>2 DEF RewriteRollout, Shape, SyncTypeOK, world, Texts

(* A step of the run that touches no rollout.                              *)
LEMMA LaterStepShape ==
    ASSUME Shape,
           RolloutsDone \/ DbsDone \/ WriteGlobalState \/ WriteGlobalBak \/ Prune \/ Restored
    PROVE  Shape'
<1>1. CASE RolloutsDone \/ DbsDone
  BY <1>1 DEF RolloutsDone, DbsDone, Shape, SyncTypeOK, disk, world, run
<1>2. CASE WriteGlobalState
  <2>1. gstate \in BOOLEAN \X BOOLEAN
    BY DEF Shape, SyncTypeOK
  <2>2. gstate' \in BOOLEAN \X BOOLEAN
    <3>1. gstate' = gstate \/ gstate' = <<TRUE, gstate[2]>>
      BY <1>2 DEF WriteGlobalState
    <3>2. gstate[2] \in BOOLEAN
      BY <2>1
    <3>3. <<TRUE, gstate[2]>> \in BOOLEAN \X BOOLEAN
      BY <3>2
    <3>4. QED
      BY <2>1, <3>1, <3>3
  <2>3. QED
    BY <1>2, <2>2 DEF WriteGlobalState, Shape, SyncTypeOK, world, run
<1>3. CASE WriteGlobalBak
  BY <1>3 DEF WriteGlobalBak, Shape, SyncTypeOK, world, run
<1>4. CASE Prune
  <2>1. DOMAIN backups' \subseteq DOMAIN backups
    BY <1>4 DEF Prune, Restrict, Kept
  <2>2. Return("Synced")
    BY <1>4 DEF Prune
  <2>3. QED
    BY <1>4, <2>1, <2>2, ReturnKeeps DEF Prune, Shape, SyncTypeOK, world
<1>5. CASE Restored
  <2>1. Return("Skipped")
    BY <1>5 DEF Restored
  <2>2. QED
    BY <1>5, <2>1, ReturnKeeps DEF Restored, Shape, SyncTypeOK, disk, world
<1>6. QED
  BY <1>1, <1>2, <1>3, <1>4, <1>5

LEMMA UpdateDbShape ==
    ASSUME Shape, NEW d \in Dbs, UpdateDb(d)
    PROVE  Shape'
  BY DEF UpdateDb, Shape, SyncTypeOK, world, run

LEMMA FailShape == Shape /\ (Fail \/ Dies) => Shape'
<1> SUFFICES ASSUME Shape, Fail \/ Dies PROVE Shape'
  OBVIOUS
<1>1. env' \in 0..MaxEnv /\ torn' \subseteq Rollouts
  BY SyncAssumption DEF Fail, Dies, Spend, Shape, SyncTypeOK
<1>2. CASE /\ Fail /\ stage \in {"dbs", "gstate", "gbak", "prune"}
  BY <1>1, <1>2 DEF Fail, Shape, SyncTypeOK, disk
<1>3. CASE /\ Fail /\ stage \notin {"dbs", "gstate", "gbak", "prune"}
  <2>1. Return("Skipped")
    BY <1>3 DEF Fail
  <2>2. QED
    BY <1>1, <1>3, <2>1, ReturnKeeps DEF Fail, Shape, SyncTypeOK, disk
<1>4. CASE Dies
  <2>1. Return("none")
    BY <1>4 DEF Dies
  <2>2. QED
    BY <1>1, <1>4, <2>1, ReturnKeeps DEF Dies, Shape, SyncTypeOK, disk
<1>5. QED
  BY <1>2, <1>3, <1>4

(* What the user and the app do.                                           *)
LEMMA OutsideShape == Shape /\ (SwitchProvider \/ StartApp \/ StopApp) => Shape'
<1> SUFFICES ASSUME Shape, SwitchProvider \/ StartApp \/ StopApp PROVE Shape'
  OBVIOUS
<1>1. env' \in 0..MaxEnv
  BY SyncAssumption DEF SwitchProvider, StartApp, StopApp, Spend, Shape, SyncTypeOK
<1>2. QED
  BY <1>1 DEF SwitchProvider, StartApp, StopApp, Shape, SyncTypeOK, disk, run

LEMMA AppWritesKeeps ==
    ASSUME Shape, NEW f \in Rollouts, AppWrites(f)
    PROVE  /\ rollout' \in [Rollouts -> Texts] /\ said' \in [Rollouts -> Nat]
           /\ rollout'[f].prov = rollout[f].prov /\ rollout'[f].body = rollout[f].body + 1
           /\ said'[f] = said[f] + 1
           /\ \A g \in Rollouts \ {f} : rollout'[g] = rollout[g] /\ said'[g] = said[g]
<1> DEFINE old == rollout[f]
           new == [old EXCEPT !.body = @ + 1]
<1>1. rollout' = [rollout EXCEPT ![f] = new] /\ said' = [said EXCEPT ![f] = @ + 1]
  BY DEF AppWrites
<1>2. /\ old \in Texts /\ said \in [Rollouts -> Nat] /\ rollout \in [Rollouts -> Texts]
  BY DEF Shape, SyncTypeOK, Texts
<1>3. new = [prov |-> old.prov, body |-> old.body + 1]
  BY <1>2 DEF Texts
<1>4. new \in Texts /\ new.prov = old.prov /\ new.body = old.body + 1
  BY <1>2, <1>3 DEF Texts
<1> HIDE DEF new
<1>5. QED
  BY <1>1, <1>2, <1>3, <1>4

LEMMA AppWritesShape ==
    ASSUME Shape, NEW f \in Rollouts, AppWrites(f)
    PROVE  Shape'
<1>1. env' \in 0..MaxEnv
  BY SyncAssumption DEF AppWrites, Spend, Shape, SyncTypeOK
<1>2. rollout' \in [Rollouts -> Texts] /\ said' \in [Rollouts -> Nat]
  BY AppWritesKeeps
<1>3. QED
  BY <1>1, <1>2 DEF AppWrites, Shape, SyncTypeOK, run, Texts

LEMMA ShapeStep == Shape /\ [SyncNext]_syncVars => Shape'
<1> SUFFICES ASSUME Shape, [SyncNext]_syncVars PROVE Shape'
  OBVIOUS
<1>1. CASE \E f \in Rollouts : OpenRollout(f) \/ Restore(f) \/ AppWrites(f)
  BY <1>1, OpenRolloutShape, RestoreShape, AppWritesShape
<1>2. CASE \E d \in Dbs : UpdateDb(d)
  BY <1>2, UpdateDbShape
<1>3. CASE UNCHANGED syncVars
  BY <1>3 DEF syncVars, disk, world, run, Shape, SyncTypeOK
<1>4. QED
  BY <1>1, <1>2, <1>3, BeginShape, CollectShape, ValidateShape, BackupShape,
     WriteRolloutShape, RewriteRolloutShape, LaterStepShape, FailShape, OutsideShape
     DEF SyncNext, SyncStep

LEMMA InitShape == SyncInit => Shape
<1> SUFFICES ASSUME SyncInit PROVE Shape
  OBVIOUS
<1>1. rollout \in [Rollouts -> Texts] /\ db \in [Dbs -> Providers]
  BY DEF SyncInit, Text, Texts
<1>2. DOMAIN plan = {} /\ DOMAIN backups = {}
  BY DEF SyncInit, Nothing
<1>3. /\ said \in [Rollouts -> Nat] /\ env \in 0..MaxEnv /\ clock \in 0..MaxStamp
  BY SyncAssumption DEF SyncInit
<1>4. gstate \in BOOLEAN \X BOOLEAN
  BY DEF SyncInit
<1>5. /\ stage = "idle" /\ cur = NoRollout /\ mine = NoName /\ result = "none"
      /\ cfg \in Providers /\ target \in Providers /\ app \in BOOLEAN
      /\ todo = {} /\ applied = {} /\ skipped = {} /\ torn = {}
  BY DEF SyncInit
<1>6. SyncTypeOK
  BY <1>1, <1>2, <1>3, <1>4, <1>5 DEF SyncTypeOK, Texts
<1>7. QED
  BY <1>2, <1>5, <1>6 DEF Shape

THEOREM ShapeHolds == SyncSpec => []Shape
  BY InitShape, ShapeStep, PTL DEF SyncSpec

-----------------------------------------------------------------------------
(* EventsKept needs to know what will be written to the rollout under way: *)
(* the events the app had written when it was opened, which is all of them *)
(* because the app cannot write until the rewrite is over.                 *)
Events ==
    /\ \A f \in Rollouts : \/ rollout[f] = EmptyText /\ f \in torn \cup {cur}
                           \/ rollout[f].body = said[f]
    /\ cur # NoRollout => plan[cur].body = said[cur]

(* No file is touched, and a rollout under way stays so or becomes torn.   *)
LEMMA EventsFrame ==
    ASSUME Events, UNCHANGED <<rollout, said>>, torn \subseteq torn',
           \/ UNCHANGED <<cur, plan>>
           \/ cur' = NoRollout /\ {cur} \ {NoRollout} \subseteq torn'
    PROVE  Events'
  BY SyncAssumption DEF Events

(* The two halves of a rewrite: f is emptied, then written.                *)
LEMMA EventsOpen ==
    ASSUME Shape, Events, NEW f \in DOMAIN plan, cur = NoRollout,
           rollout[f].body = plan[f].body, rollout[f] # EmptyText,
           rollout' = [rollout EXCEPT ![f] = EmptyText], cur' = f,
           UNCHANGED <<said, torn, plan>>
    PROVE  Events'
<1>1. f \in Rollouts /\ rollout[f].body = said[f]
  BY SyncAssumption DEF Shape, SyncTypeOK, Events
<1>2. rollout'[f] = EmptyText /\ \A g \in Rollouts \ {f} : rollout'[g] = rollout[g]
  BY <1>1 DEF Shape, SyncTypeOK
<1>3. QED
  BY <1>1, <1>2, SyncAssumption DEF Events

LEMMA EventsWrite ==
    ASSUME Shape, Events, cur # NoRollout, NEW t \in Texts, t.body = plan[cur].body,
           rollout' = [rollout EXCEPT ![cur] = t], cur' = NoRollout,
           UNCHANGED <<said, torn, plan>>
    PROVE  Events'
<1>1. cur \in Rollouts
  BY DEF Shape, SyncTypeOK
<1>2. rollout'[cur].body = said[cur] /\ \A g \in Rollouts \ {cur} : rollout'[g] = rollout[g]
  BY <1>1 DEF Shape, SyncTypeOK, Events
<1>3. QED
  BY <1>1, <1>2, SyncAssumption DEF Events

LEMMA RunEvents == Shape /\ Events /\ SyncStep => Events'
<1> SUFFICES ASSUME Shape, Events, SyncStep PROVE Events'
  OBVIOUS
<1> USE DEF disk, world, run
<1>1. CASE Begin \/ RolloutsDone \/ DbsDone \/ WriteGlobalState \/ WriteGlobalBak \/ Backup
           \/ \E d \in Dbs : UpdateDb(d)
  BY <1>1, EventsFrame
     DEF Begin, RolloutsDone, DbsDone, WriteGlobalState, WriteGlobalBak, Backup, UpdateDb
<1>2. CASE Collect \/ Validate \/ Prune \/ Restored
  <2>1. cur = NoRollout
    BY <1>2 DEF Collect, Validate, Prune, Restored, Shape
  <2>2. UNCHANGED <<rollout, said, torn>> /\ cur' = NoRollout
    BY <1>2, <2>1 DEF Collect, Validate, Prune, Restored, Return
  <2>3. QED
    BY <2>1, <2>2, EventsFrame
<1>3. CASE \E f \in Rollouts : OpenRollout(f)
  <2>1. PICK f \in Rollouts : OpenRollout(f)
    BY <1>3
  <2>2. f \in DOMAIN plan /\ UNCHANGED <<said, torn, plan>> /\ cur = NoRollout
    BY <2>1 DEF OpenRollout, Shape, SyncTypeOK
  <2>3. CASE /\ rollout[f] = plan[f]
             /\ rollout' = [rollout EXCEPT ![f] = EmptyText] /\ cur' = f
    <3>1. rollout[f] # EmptyText
      BY <2>2, <2>3, EmptyType DEF Shape
    <3>2. QED
      BY <2>2, <2>3, <3>1, EventsOpen
  <2>4. CASE UNCHANGED <<cur, rollout>>
    BY <2>2, <2>4, EventsFrame
  <2>5. QED
    BY <2>1, <2>3, <2>4 DEF OpenRollout
<1>4. CASE \E f \in Rollouts : Restore(f)
  <2>1. PICK f \in Rollouts : Restore(f)
    BY <1>4
  <2>2. f \in DOMAIN plan /\ UNCHANGED <<said, torn, plan>> /\ cur = NoRollout
    BY <2>1 DEF Restore, Shape, SyncTypeOK
  <2>3. CASE /\ rollout[f] = Text(target, plan[f].body)
             /\ rollout' = [rollout EXCEPT ![f] = EmptyText] /\ cur' = f
    <3>1. rollout[f] # EmptyText /\ rollout[f].body = plan[f].body
      BY <2>3, EmptyType, SyncAssumption DEF Text, Shape, SyncTypeOK
    <3>2. QED
      BY <2>2, <2>3, <3>1, EventsOpen
  <2>4. CASE UNCHANGED <<cur, rollout>>
    BY <2>2, <2>4, EventsFrame
  <2>5. QED
    BY <2>1, <2>3, <2>4 DEF Restore
<1>5. CASE WriteRollout
  <2>1. cur # NoRollout /\ plan[cur] \in Texts
    BY <1>5 DEF WriteRollout, Shape, SyncTypeOK
  <2>2. Text(target, plan[cur].body) \in Texts /\ Text(target, plan[cur].body).body = plan[cur].body
    BY <2>1 DEF Text, Texts, Shape, SyncTypeOK
  <2>3. QED
    BY <1>5, <2>1, <2>2, EventsWrite DEF WriteRollout
<1>6. CASE RewriteRollout
  <2>1. cur # NoRollout /\ plan[cur] \in Texts
    BY <1>6 DEF RewriteRollout, Shape, SyncTypeOK
  <2>2. QED
    BY <1>6, <2>1, EventsWrite DEF RewriteRollout
<1>7. QED
  BY <1>1, <1>2, <1>3, <1>4, <1>5, <1>6 DEF SyncStep

LEMMA EventsStep == Shape /\ Events /\ [SyncNext]_syncVars => Events'
<1> SUFFICES ASSUME Shape, Events, [SyncNext]_syncVars PROVE Events'
  OBVIOUS
<1> USE DEF disk, world, run
<1>1. CASE Fail \/ Dies
  <2>1. UNCHANGED <<rollout, said>> /\ torn' = torn \cup ({cur} \ {NoRollout})
    BY <1>1 DEF Fail, Dies
  <2>2. UNCHANGED <<cur, plan>> \/ cur' = NoRollout
    BY <1>1 DEF Fail, Dies, Return
  <2>3. QED
    BY <2>1, <2>2, EventsFrame
<1>2. CASE SwitchProvider \/ StartApp \/ StopApp \/ UNCHANGED syncVars
  BY <1>2, EventsFrame DEF SwitchProvider, StartApp, StopApp, syncVars
<1>3. CASE \E f \in Rollouts : AppWrites(f)
  <2>1. PICK f \in Rollouts : AppWrites(f)
    BY <1>3
  <2>2. /\ rollout'[f].body = rollout[f].body + 1 /\ said'[f] = said[f] + 1
        /\ \A g \in Rollouts \ {f} : rollout'[g] = rollout[g] /\ said'[g] = said[g]
    BY <2>1, AppWritesKeeps
  <2>3. f # cur /\ f \notin torn /\ UNCHANGED <<cur, torn, plan>>
    BY <2>1 DEF AppWrites
  <2>4. cur # NoRollout => cur \in Rollouts
    BY DEF Shape, SyncTypeOK
  <2>5. QED
    BY <2>2, <2>3, <2>4 DEF Events
<1>4. QED
  BY <1>1, <1>2, <1>3, RunEvents DEF SyncNext

(* No event the app wrote to a session is ever lost to a rewrite or to a   *)
(* restore: a rollout holds all of them, or its rewrite was cut short.     *)
THEOREM EventsHold == SyncSpec => []EventsKept
<1>1. SyncInit => Events
  BY DEF SyncInit, Events, Text
<1>2. Shape /\ Events => EventsKept
  BY DEF Shape, Events, EventsKept
<1>3. QED
  BY <1>1, <1>2, InitShape, ShapeStep, EventsStep, PTL DEF SyncSpec

-----------------------------------------------------------------------------
(* How far a run has come, told by its program counter.                    *)
Progress ==
    /\ stage # "idle" => result = "none"
    /\ stage \in {"dbs", "gstate", "gbak", "prune"} => todo = {}
    /\ stage \in {"gstate", "gbak", "prune"} => DbsUpToDate
    /\ stage \in {"gbak", "prune"} => gstate[1]

LEMMA ProgressStep == Shape /\ Progress /\ [SyncNext]_syncVars => Progress'
<1> SUFFICES ASSUME Shape, Progress, [SyncNext]_syncVars PROVE Progress'
  OBVIOUS
<1> USE DEF disk, world, run
<1>1. CASE stage' = "idle"
  BY <1>1 DEF Progress
<1>2. ASSUME NEW r, Return(r) PROVE Progress'
  BY <1>2, <1>1 DEF Return
<1>3. CASE Begin \/ Backup \/ WriteRollout \/ RewriteRollout
           \/ \E f \in Rollouts : OpenRollout(f) \/ Restore(f)
  BY <1>3 DEF Begin, Backup, WriteRollout, RewriteRollout, OpenRollout, Restore, Progress, DbsUpToDate
<1>4. CASE Collect \/ Validate
  BY <1>4, <1>2 DEF Collect, Validate, Progress
<1>5. CASE RolloutsDone \/ \E d \in Dbs : UpdateDb(d)
  BY <1>5 DEF RolloutsDone, UpdateDb, Progress
<1>6. CASE DbsDone
  BY <1>6 DEF DbsDone, Progress, DbsUpToDate
<1>7. CASE WriteGlobalState
  <2>1. CASE gstate[1] /\ stage' = "prune" /\ UNCHANGED gstate
    BY <1>7, <2>1 DEF WriteGlobalState, Progress, DbsUpToDate
  <2>2. CASE stage' = "gbak" /\ gstate' = <<TRUE, gstate[2]>>
    BY <1>7, <2>2 DEF WriteGlobalState, Progress, DbsUpToDate
  <2>3. QED
    BY <1>7, <2>1, <2>2 DEF WriteGlobalState
<1>8. CASE WriteGlobalBak
  BY <1>8 DEF WriteGlobalBak, Progress, DbsUpToDate
<1>9. CASE Prune \/ Restored \/ Dies
  BY <1>9, <1>2 DEF Prune, Restored, Dies
<1>10. CASE Fail
  <2>1. CASE stage' = "restore" /\ UNCHANGED result
    BY <1>10, <2>1 DEF Fail, Progress
  <2>2. QED
    BY <1>10, <2>1, <1>2 DEF Fail
<1>11. CASE SwitchProvider \/ StartApp \/ StopApp \/ UNCHANGED syncVars
            \/ \E f \in Rollouts : AppWrites(f)
  BY <1>11 DEF SwitchProvider, StartApp, StopApp, AppWrites, syncVars, Progress, DbsUpToDate
<1>12. QED
  BY <1>3, <1>4, <1>5, <1>6, <1>7, <1>8, <1>9, <1>10, <1>11 DEF SyncNext, SyncStep

(* The rollouts a run has still to look at or to write.                    *)
Left == IF stage \in {"validate", "backup"} THEN DOMAIN plan ELSE todo

(* Up to the end of a run that met no error, every rollout is at the       *)
(* target, is left to write, or is reported as skipped.                    *)
Uniform ==
    stage \in {"validate", "backup", "apply", "write", "dbs", "gstate", "gbak", "prune"} =>
       \A f \in Rollouts : \/ f \in skipped \cup Left
                           \/ rollout[f].prov \in {target, NoProvider}

LEMMA UniformStep == Shape /\ Uniform /\ [SyncNext]_syncVars => Uniform'
<1> SUFFICES ASSUME Shape, Uniform, [SyncNext]_syncVars PROVE Uniform'
  OBVIOUS
<1> USE DEF disk, world, run
<1>1. CASE stage' \in {"idle", "collect", "restore", "rewrite"}
  BY <1>1 DEF Uniform
<1>2. ASSUME NEW r, Return(r) PROVE Uniform'
  BY <1>2, <1>1 DEF Return
<1>3. CASE Begin \/ Prune \/ Restored \/ Fail \/ Dies \/ RewriteRollout
           \/ \E f \in Rollouts : Restore(f)
  BY <1>3, <1>1, <1>2 DEF Begin, Prune, Restored, Fail, Dies, RewriteRollout, Restore, Uniform
<1>4. CASE Collect
  <2>1. PICK locked \in SUBSET Rollouts :
            /\ skipped' = locked
            /\ \/ \E r \in {"Synced", "Skipped"} : Return(r)
               \/ stage' = "validate" /\ plan' = Restrict(rollout, Stale(locked))
    BY <1>4 DEF Collect
  <2>2. CASE stage' = "validate" /\ plan' = Restrict(rollout, Stale(locked))
    <3>1. DOMAIN plan' = Stale(locked)
      BY <2>2 DEF Restrict
    <3>2. UNCHANGED <<rollout, target>>
      BY <1>4 DEF Collect
    <3>3. QED
      BY <2>1, <2>2, <3>1, <3>2 DEF Uniform, Left, Stale
  <2>3. QED
    BY <2>1, <2>2, <1>2
<1>5. CASE Validate \/ Backup
  BY <1>5, <1>2 DEF Validate, Backup, Uniform, Left
<1>6. CASE \E f \in Rollouts : OpenRollout(f)
  <2>1. PICK f \in Rollouts : OpenRollout(f)
    BY <1>6
  <2>2. stage = "apply" /\ todo' = todo \ {f} /\ UNCHANGED <<target, plan>>
        /\ rollout \in [Rollouts -> Texts]
    BY <2>1 DEF OpenRollout, Shape, SyncTypeOK, Texts
  <2>3. CASE stage' = "write" /\ rollout' = [rollout EXCEPT ![f] = EmptyText] /\ UNCHANGED skipped
    BY <2>2, <2>3, EmptyType DEF Uniform, Left
  <2>4. CASE skipped' = skipped \cup {f} /\ UNCHANGED <<stage, rollout>>
    BY <2>2, <2>4 DEF Uniform, Left
  <2>5. QED
    BY <2>1, <2>3, <2>4 DEF OpenRollout
<1>7. CASE WriteRollout
  <2>1. rollout' = [rollout EXCEPT ![cur] = Text(target, plan[cur].body)]
        /\ rollout \in [Rollouts -> Texts]
    BY <1>7 DEF WriteRollout, Shape, SyncTypeOK, Texts
  <2>2. Text(target, plan[cur].body).prov = target
    BY DEF Text
  <2>3. QED
    BY <1>7, <2>1, <2>2 DEF WriteRollout, Uniform, Left
<1>8. CASE RolloutsDone \/ DbsDone \/ WriteGlobalState \/ WriteGlobalBak
           \/ \E d \in Dbs : UpdateDb(d)
  BY <1>8 DEF RolloutsDone, DbsDone, WriteGlobalState, WriteGlobalBak, UpdateDb, Uniform, Left
<1>9. CASE SwitchProvider \/ StartApp \/ StopApp \/ UNCHANGED syncVars
  BY <1>9 DEF SwitchProvider, StartApp, StopApp, syncVars, Uniform, Left
<1>10. CASE \E f \in Rollouts : AppWrites(f)
  <2>1. PICK f \in Rollouts : AppWrites(f)
    BY <1>10
  <2>2. \A g \in Rollouts : rollout'[g].prov = rollout[g].prov
    BY <2>1, AppWritesKeeps
  <2>3. QED
    BY <2>1, <2>2 DEF AppWrites, Uniform, Left
<1>11. QED
  BY <1>3, <1>4, <1>5, <1>6, <1>7, <1>8, <1>9, <1>10 DEF SyncNext, SyncStep

(* "Provider sync complete" means what it says, whatever the app and the   *)
(* user did meanwhile: every session not reported as skipped, every        *)
(* database and the global state are at the target.                        *)
THEOREM SyncedIsUniform == SyncSpec => SyncedMeansUniform
<1> DEFINE SyncIInv == Shape /\ Progress /\ Uniform
<1>1. SyncInit => SyncIInv
  BY InitShape DEF SyncInit, Progress, Uniform
<1>2. SyncIInv /\ [SyncNext]_syncVars => SyncIInv'
  BY ShapeStep, ProgressStep, UniformStep
<1>3. SyncIInv /\ [SyncNext]_syncVars => CompletesUniform
  <2> SUFFICES ASSUME SyncIInv, [SyncNext]_syncVars, stage # "idle", result' = "Synced"
               PROVE  CompletesUniform
    BY DEF CompletesUniform
  <2>1. Collect \/ Prune
    <3>1. result # "Synced"
      BY DEF Progress
    <3>2. ASSUME NEW r, Return(r) PROVE result' = r
      BY <3>2 DEF Return
    <3>3. QED
      BY <3>1, <3>2 DEF SyncNext, SyncStep, Begin, Validate, Backup, OpenRollout, WriteRollout,
         RolloutsDone, UpdateDb, DbsDone, WriteGlobalState, WriteGlobalBak, Restore,
         RewriteRollout, Restored, Fail, Dies, SwitchProvider, StartApp, StopApp,
         AppWrites, syncVars, run
  <2>2. CASE Collect
    <3>1. PICK locked : /\ skipped' = locked
                        /\ Stale(locked) = {} /\ DbsUpToDate /\ gstate[1]
      BY <2>2 DEF Collect, Progress
    <3>2. QED
      BY <2>2, <3>1 DEF Collect, Stale, DbsUpToDate, CompletesUniform, disk
  <2>3. CASE Prune
    <3>1. stage = "prune" /\ UNCHANGED <<rollout, db, gstate, skipped>>
      BY <2>3 DEF Prune
    <3>2. todo = {} /\ DbsUpToDate /\ gstate[1]
      BY <3>1 DEF Progress
    <3>3. QED
      BY <3>1, <3>2 DEF Uniform, Left, DbsUpToDate, CompletesUniform
  <2>4. QED
    BY <2>1, <2>2, <2>3
<1>4. QED
  BY <1>1, <1>2, <1>3, PTL DEF SyncSpec, SyncedMeansUniform

-----------------------------------------------------------------------------
(* What a run knows of its rollouts: one it wrote holds the target and at  *)
(* least the events collected, unless it is being put back; any other has  *)
(* its provider still, or has grown.                                       *)
Planned ==
    \A f \in DOMAIN plan : f # cur =>
       IF f \in applied
       THEN rollout[f].prov = target /\ rollout[f].body >= plan[f].body
       ELSE rollout[f].prov = plan[f].prov \/ rollout[f].body > plan[f].body

LEMMA PlannedFrame ==
    ASSUME Planned, UNCHANGED <<rollout, plan, target, applied, cur>>
    PROVE  Planned'
  BY DEF Planned

LEMMA PlannedStep == Shape /\ Planned /\ [SyncNext]_syncVars => Planned'
<1> SUFFICES ASSUME Shape, Planned, [SyncNext]_syncVars PROVE Planned'
  OBVIOUS
<1> USE DEF disk, world, run
<1>1. ASSUME NEW r, Return(r) PROVE Planned'
  BY <1>1 DEF Return, Nothing, Planned
<1>2. CASE Validate \/ Backup \/ RolloutsDone \/ DbsDone \/ WriteGlobalState
           \/ WriteGlobalBak \/ Prune \/ Restored \/ Fail \/ Dies \/ SwitchProvider
           \/ StartApp \/ StopApp \/ UNCHANGED syncVars \/ \E d \in Dbs : UpdateDb(d)
  BY <1>2, <1>1, PlannedFrame
     DEF Validate, Backup, RolloutsDone, DbsDone, WriteGlobalState, WriteGlobalBak, Prune,
         Restored, Fail, Dies, SwitchProvider, StartApp, StopApp, syncVars, UpdateDb
<1>3. CASE Begin
  BY <1>3 DEF Begin, Shape, Planned
<1>4. CASE Collect
  <2>1. CASE \E r \in {"Synced", "Skipped"} : Return(r)
    BY <2>1, <1>1
  <2>2. CASE \E locked \in SUBSET Rollouts :
                plan' = Restrict(rollout, Stale(locked)) /\ UNCHANGED applied
    <3>1. PICK locked \in SUBSET Rollouts :
              plan' = [f \in Stale(locked) |-> rollout[f]] /\ UNCHANGED applied
      BY <2>2 DEF Restrict
    <3>2. applied = {} /\ UNCHANGED rollout
      BY <1>4 DEF Collect, Shape, SyncTypeOK
    <3>3. QED
      BY <3>1, <3>2 DEF Planned
  <2>3. QED
    BY <1>4, <2>1, <2>2 DEF Collect
<1>5. CASE \E f \in Rollouts : OpenRollout(f)
  <2>1. PICK f \in Rollouts : OpenRollout(f)
    BY <1>5
  <2>2. UNCHANGED <<target, plan, applied>> /\ cur = NoRollout /\ rollout \in [Rollouts -> Texts]
        /\ DOMAIN plan \subseteq Rollouts
    BY <2>1 DEF OpenRollout, Shape, SyncTypeOK, Texts
  <2>3. CASE rollout' = [rollout EXCEPT ![f] = EmptyText] /\ cur' = f
    BY <2>2, <2>3, SyncAssumption DEF Planned
  <2>4. CASE UNCHANGED <<cur, rollout>>
    BY <2>2, <2>4, PlannedFrame
  <2>5. QED
    BY <2>1, <2>3, <2>4 DEF OpenRollout
<1>6. CASE WriteRollout
  <2>1. /\ cur \in DOMAIN plan /\ plan[cur] \in Texts /\ DOMAIN plan \subseteq Rollouts
        /\ rollout \in [Rollouts -> Texts]
    BY <1>6 DEF WriteRollout, Shape, SyncTypeOK, Texts
  <2>2. /\ rollout' = [rollout EXCEPT ![cur] = Text(target, plan[cur].body)]
        /\ applied' = applied \cup {cur} /\ UNCHANGED <<plan, target>>
    BY <1>6 DEF WriteRollout
  <2>3. rollout'[cur].prov = target /\ rollout'[cur].body = plan[cur].body /\ plan[cur].body \in Nat
    BY <2>1, <2>2 DEF Text, Texts
  <2>4. QED
    BY <2>1, <2>2, <2>3 DEF Planned
<1>7. CASE RewriteRollout
  <2>1. /\ cur \in DOMAIN plan /\ cur \notin applied /\ DOMAIN plan \subseteq Rollouts
        /\ rollout \in [Rollouts -> Texts]
    BY <1>7 DEF RewriteRollout, Shape, SyncTypeOK, Texts
  <2>2. QED
    BY <1>7, <2>1 DEF RewriteRollout, Planned
<1>8. CASE \E f \in Rollouts : Restore(f)
  <2>1. PICK f \in Rollouts : Restore(f)
    BY <1>8
  <2>2. /\ f \in applied /\ f \in DOMAIN plan /\ applied' = applied \ {f}
        /\ UNCHANGED <<target, plan>> /\ cur = NoRollout
        /\ rollout \in [Rollouts -> Texts] /\ DOMAIN plan \subseteq Rollouts
    BY <2>1 DEF Restore, Shape, SyncTypeOK, Texts
  <2>3. CASE rollout' = [rollout EXCEPT ![f] = EmptyText] /\ cur' = f
    BY <2>2, <2>3, SyncAssumption DEF Planned
  <2>4. CASE rollout[f] # Text(target, plan[f].body) /\ UNCHANGED <<rollout, cur>>
    <3>1. rollout[f].prov = target /\ rollout[f].body >= plan[f].body
      BY <2>2, SyncAssumption DEF Planned
    <3>2. rollout[f] \in Texts /\ plan[f] \in Texts
      BY <2>2 DEF Shape
    <3>3. rollout[f].body # plan[f].body
      BY <2>4, <3>1, <3>2 DEF Text, Texts
    <3>4. rollout[f].body > plan[f].body
      BY <3>1, <3>2, <3>3 DEF Texts
    <3>5. QED
      BY <2>2, <2>4, <3>4 DEF Planned
  <2>5. QED
    BY <2>1, <2>3, <2>4 DEF Restore
<1>9. CASE \E f \in Rollouts : AppWrites(f)
  <2>1. PICK f \in Rollouts : AppWrites(f)
    BY <1>9
  <2>2. /\ rollout'[f].prov = rollout[f].prov /\ rollout'[f].body = rollout[f].body + 1
        /\ \A g \in Rollouts \ {f} : rollout'[g] = rollout[g]
    BY <2>1, AppWritesKeeps
  <2>3. \A g \in DOMAIN plan : g \in Rollouts /\ rollout[g].body \in Nat /\ plan[g].body \in Nat
    BY DEF Shape, SyncTypeOK, Texts
  <2>4. UNCHANGED <<plan, target, applied, cur>>
    BY <2>1 DEF AppWrites
  <2>5. QED
    BY <2>2, <2>3, <2>4 DEF Planned
<1>10. QED
  BY <1>2, <1>3, <1>4, <1>5, <1>6, <1>7, <1>8, <1>9 DEF SyncNext, SyncStep

(* An error after the rollouts are written takes them back: when the run   *)
(* then ends, each has its provider again, but for those the app has       *)
(* written to since.                                                       *)
THEOREM FailureRestores == SyncSpec => LaterFailureRestores
<1>1. SyncInit => Planned
  BY DEF SyncInit, Nothing, Planned
<1>2. Shape /\ Planned => EndsRestored
  BY SyncAssumption DEF Shape, SyncTypeOK, Planned, EndsRestored
<1>3. QED
  BY <1>1, <1>2, InitShape, ShapeStep, PlannedStep, PTL DEF SyncSpec, LaterFailureRestores

-----------------------------------------------------------------------------
Writing == {"apply", "write", "dbs", "gstate", "gbak", "prune", "restore", "rewrite"}

(* A run that writes has its backup, which recorded the provider of every  *)
(* rollout of the plan and of every database.                              *)
Backed ==
    stage \in Writing =>
       /\ mine \in DOMAIN backups
       /\ DOMAIN backups[mine].meta = DOMAIN plan
       /\ \A f \in DOMAIN plan : backups[mine].meta[f] = plan[f].prov
       /\ \A d \in Dbs : db[d] \in {backups[mine].db[d], target}

LEMMA BackedStep == Shape /\ Backed /\ [SyncNext]_syncVars => Backed'
<1> SUFFICES ASSUME Shape, Backed, [SyncNext]_syncVars PROVE Backed'
  OBVIOUS
<1> USE DEF disk, world, run
<1>1. CASE stage' \notin Writing
  BY <1>1 DEF Backed
<1>2. ASSUME NEW r, Return(r) PROVE Backed'
  BY <1>2, <1>1 DEF Return, Writing
<1>3. CASE Begin \/ Collect \/ Validate \/ Prune \/ Restored \/ Dies
  BY <1>3, <1>1, <1>2 DEF Begin, Collect, Validate, Prune, Restored, Dies, Writing
<1>4. CASE Backup
  <2>1. PICK n : /\ mine' = n
                 /\ n \in DOMAIN backups'
                 /\ backups'[n].meta = [f \in DOMAIN plan |-> plan[f].prov]
                 /\ backups'[n].db = db
    <3>1. PICK s, k : /\ mine' = <<s, k>>
                      /\ backups' = [n \in DOMAIN backups \cup {<<s, k>>} |->
                            IF n = <<s, k>>
                            THEN [meta |-> [f \in DOMAIN plan |-> plan[f].prov],
                                  db |-> db, gstate |-> gstate]
                            ELSE backups[n]]
      BY <1>4 DEF Backup
    <3>2. QED
      BY <3>1
  <2>2. UNCHANGED <<plan, db>>
    BY <1>4 DEF Backup
  <2>3. QED
    BY <2>1, <2>2 DEF Backed
<1>5. CASE /\ stage \in Writing
           /\ UNCHANGED <<mine, backups, plan, db, target>>
  BY <1>5 DEF Backed
<1>6. CASE \E d \in Dbs : UpdateDb(d)
  <2>1. PICK d \in Dbs : UpdateDb(d)
    BY <1>6
  <2>2. db \in [Dbs -> Providers] /\ db' = [db EXCEPT ![d] = target]
    BY <2>1 DEF UpdateDb, Shape, SyncTypeOK
  <2>3. \A e \in Dbs : db'[e] \in {db[e], target}
    BY <2>2
  <2>4. stage \in Writing /\ UNCHANGED <<mine, backups, plan, target>>
    BY <2>1 DEF UpdateDb, Writing
  <2>5. QED
    BY <2>3, <2>4 DEF Backed
<1>7. CASE Fail
  BY <1>7, <1>2, <1>5 DEF Fail, Writing
<1>8. CASE UNCHANGED <<stage, mine, backups, plan, db, target>>
  BY <1>8 DEF Backed
<1>9. CASE WriteRollout \/ RolloutsDone \/ DbsDone \/ WriteGlobalState \/ WriteGlobalBak
           \/ RewriteRollout \/ \E f \in Rollouts : OpenRollout(f) \/ Restore(f)
  BY <1>9, <1>5 DEF WriteRollout, RolloutsDone, DbsDone, WriteGlobalState, WriteGlobalBak,
     RewriteRollout, OpenRollout, Restore, Writing
<1>10. CASE SwitchProvider \/ StartApp \/ StopApp \/ UNCHANGED syncVars
            \/ \E f \in Rollouts : AppWrites(f)
  BY <1>10, <1>8 DEF SwitchProvider, StartApp, StopApp, syncVars, AppWrites
<1>11. QED
  BY <1>3, <1>4, <1>6, <1>7, <1>9, <1>10 DEF SyncNext, SyncStep

(* From the first write to the end of the run, its backup holds the        *)
(* provider of every rollout it has touched and of every database.         *)
THEOREM BackupHolds == SyncSpec => []BackedUp
<1>1. SyncInit => Backed
  BY DEF SyncInit, Backed, Writing
<1>2. Shape /\ Backed => BackedUp
  BY DEF Shape, SyncTypeOK, Backed, BackedUp, Writing
<1>3. QED
  BY <1>1, <1>2, InitShape, ShapeStep, BackedStep, PTL DEF SyncSpec

-----------------------------------------------------------------------------
(* While the local time does not go back, no backup is named after a later *)
(* second than the last one, and a run that writes made its backup then.   *)
Dated ==
    /\ \A n \in DOMAIN backups : n[1] <= clock
    /\ stage \in Writing => mine \in DOMAIN backups /\ mine[1] = clock

LEMMA DatedStep ==
    ASSUME ~ClockGoesBack, Shape, Dated, [SyncNext]_syncVars
    PROVE  Dated'
<1> USE DEF disk, world, run
<1>1. CASE UNCHANGED <<backups, clock>> /\ stage' \notin Writing
  BY <1>1 DEF Dated
<1>2. ASSUME NEW r, Return(r), UNCHANGED <<backups, clock>> PROVE Dated'
  BY <1>2, <1>1 DEF Return, Writing
<1>3. CASE Begin \/ Collect \/ Validate \/ Restored \/ Dies
  BY <1>3, <1>1, <1>2 DEF Begin, Collect, Validate, Restored, Dies, Writing
<1>4. CASE Backup
  <2>1. PICK s \in 0..MaxStamp, k \in 0..(Keep - 1) :
            /\ s \in {clock, clock + 1} \/ (ClockGoesBack /\ s < clock)
            /\ clock' = s /\ mine' = <<s, k>>
            /\ DOMAIN backups' = DOMAIN backups \cup {<<s, k>>}
    BY <1>4 DEF Backup
  <2>2. \A n \in DOMAIN backups : n[1] \in Nat /\ n[1] <= clock
    BY SyncAssumption DEF Dated, Shape, SyncTypeOK, Names
  <2>3. clock \in Nat /\ clock <= s
    BY <2>1, SyncAssumption DEF Shape, SyncTypeOK
  <2>4. QED
    BY <2>1, <2>2, <2>3 DEF Dated
<1>5. CASE Prune
  <2>1. DOMAIN backups' \subseteq DOMAIN backups /\ UNCHANGED clock /\ stage' = "idle"
    BY <1>5 DEF Prune, Restrict, Kept, Return
  <2>2. QED
    BY <2>1 DEF Dated, Writing
<1>6. CASE stage \in Writing /\ UNCHANGED <<backups, clock, mine>>
  BY <1>6 DEF Dated
<1>7. CASE Fail
  BY <1>7, <1>2, <1>6 DEF Fail, Writing
<1>8. CASE UNCHANGED <<stage, backups, clock, mine>>
  BY <1>8 DEF Dated
<1>9. CASE WriteRollout \/ RolloutsDone \/ DbsDone \/ WriteGlobalState \/ WriteGlobalBak
           \/ RewriteRollout \/ (\E d \in Dbs : UpdateDb(d))
           \/ \E f \in Rollouts : OpenRollout(f) \/ Restore(f)
  BY <1>9, <1>6 DEF WriteRollout, RolloutsDone, DbsDone, WriteGlobalState, WriteGlobalBak,
     RewriteRollout, OpenRollout, Restore, UpdateDb, Writing
<1>10. CASE SwitchProvider \/ StartApp \/ StopApp \/ UNCHANGED syncVars
            \/ \E f \in Rollouts : AppWrites(f)
  BY <1>10, <1>8 DEF SwitchProvider, StartApp, StopApp, syncVars, AppWrites
<1>11. QED
  BY <1>3, <1>4, <1>5, <1>7, <1>9, <1>10 DEF SyncNext, SyncStep

(* The names newer than the run's own are suffixes of its own second, and  *)
(* there are fewer than Keep of those.                                     *)
LEMMA FewNewer ==
    ASSUME Shape, Dated, stage = "prune"
    PROVE  mine \in Kept
<1> DEFINE later == {m \in DOMAIN backups : Newer(m, mine)}
           suffixes == 1..(Keep - 1)
           names == {<<clock, k>> : k \in suffixes}
<1>1. /\ mine \in DOMAIN backups /\ mine[1] = clock /\ clock \in Nat
      /\ mine \in Names /\ DOMAIN backups \subseteq Names
  BY SyncAssumption DEF Dated, Writing, Shape, SyncTypeOK
<1>2. later \subseteq names
  <2> SUFFICES ASSUME NEW m \in later PROVE m \in names
    OBVIOUS
  <2>1. m \in Names /\ m[1] <= clock /\ Newer(m, mine)
    BY <1>1 DEF Dated
  <2>2. m[1] \in Nat /\ m[2] \in 0..(Keep - 1) /\ m = <<m[1], m[2]>> /\ mine[2] \in 0..(Keep - 1)
    BY <1>1, <2>1, SyncAssumption DEF Names
  <2>3. m[1] = clock /\ m[2] > mine[2]
    BY <1>1, <2>1, <2>2 DEF Newer
  <2>4. m[2] \in suffixes
    BY <2>2, <2>3, SyncAssumption
  <2>5. QED
    BY <2>2, <2>3, <2>4
<1>3. IsFiniteSet(suffixes) /\ Cardinality(suffixes) = Keep - 1
  BY FS_Interval, SyncAssumption
<1>4. IsFiniteSet(names) /\ Cardinality(names) <= Keep - 1
  <2> DEFINE name == [k \in suffixes |-> <<clock, k>>]
  <2>1. name \in Surjection(suffixes, names)
    BY DEF Surjection
  <2>2. QED
    BY <1>3, <2>1, FS_Surjection
<1>5. IsFiniteSet(later) /\ Cardinality(later) <= Cardinality(names)
  BY <1>2, <1>4, FS_Subset
<1>6. Cardinality(later) < Keep
  BY <1>4, <1>5, FS_CardinalityType, SyncAssumption
<1>7. QED
  BY <1>1, <1>6 DEF Kept

(* The rotation of the backups keeps the run's own, as long as the local   *)
(* time does not go back (with it, a run can remove what it has just made; *)
(* see OwnBackupKept).                                                     *)
THEOREM OwnBackupHolds ==
    ASSUME ~ClockGoesBack
    PROVE  SyncSpec => OwnBackupKept
<1>1. SyncInit => Dated
  BY DEF SyncInit, Dated, Writing
<1>2. Shape /\ Dated /\ [SyncNext]_syncVars => Dated'
  BY DatedStep
<1>3. Shape /\ Progress /\ Dated /\ [SyncNext]_syncVars => PrunesOthers
  <2> SUFFICES ASSUME Shape, Progress, Dated, [SyncNext]_syncVars, stage = "prune", result' = "Synced"
               PROVE  mine \in DOMAIN backups'
    BY DEF PrunesOthers
  <2>1. mine \in DOMAIN backups /\ mine \in Kept
    BY FewNewer DEF Dated, Writing
  <2>2. CASE Prune
    BY <2>1, <2>2 DEF Prune, Restrict
  <2>3. CASE ~Prune
    <3>1. UNCHANGED backups
      BY <2>3 DEF SyncNext, SyncStep, Begin, Collect, Validate, Backup, OpenRollout, WriteRollout,
         RolloutsDone, UpdateDb, DbsDone, WriteGlobalState, WriteGlobalBak, Restore,
         RewriteRollout, Restored, Fail, Dies, SwitchProvider, StartApp, StopApp,
         AppWrites, syncVars, disk
    <3>2. QED
      BY <2>1, <3>1
  <2>4. QED
    BY <2>2, <2>3
<1>4. SyncInit => Progress
  BY DEF SyncInit, Progress
<1>5. QED
  BY <1>1, <1>2, <1>3, <1>4, InitShape, ShapeStep, ProgressStep, PTL DEF SyncSpec, OwnBackupKept
=============================================================================
