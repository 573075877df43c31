-------------------------- MODULE ProviderSyncLock --------------------------
(***************************************************************************)
(* The provider-sync lifecycle lock of codex-plus-data (provider_sync.rs). *)
(*                                                                         *)
(* A process that synchronises holds two locks: an OS file lock on         *)
(* provider-sync.lifecycle.lock, which the kernel drops when the process   *)
(* exits, and the directory provider-sync.lock with an owner.json in it,   *)
(* which survives a crash.  The directory keeps older launchers out: they  *)
(* know nothing of the file lock.  Creating the directory, writing the     *)
(* owner, reading it back, asking the system about the owner's process and *)
(* renaming the directory away are separate system calls, and every other  *)
(* process may act between two of them.                                    *)
(***************************************************************************)
EXTENDS Naturals

CONSTANTS Procs,      \* processes that speak the current protocol
          Legacy,     \* older launchers: directory only, no lockId
          Ids,        \* lock ids (uuid::Uuid::new_v4)
          NoProc, NoId,
          LegacyReplaced, \* may one older launcher follow another while a
                      \* process decides about the first one's directory?
          MaxBirth    \* bound: incarnations of one pid

Peers == Procs \cup Legacy

ASSUME LockAssumption ==
    /\ NoProc \notin Peers
    /\ NoId \notin Ids
    /\ Procs \cap Legacy = {}
    /\ LegacyReplaced \in BOOLEAN
    /\ MaxBirth \in Nat \ {0}

VARIABLES
    os,      \* the holder of the OS lock on provider-sync.lifecycle.lock
    dir,     \* what is at provider-sync.lock
    pc,      \* where each process is in acquire or release
    lid,     \* the lock_id of the attempt a process is in
    seen,    \* the directory as a process found it in inspect_lock
    birth    \* the incarnation of the process that has, or last had, a pid

vars == <<os, dir, pc, lid, seen, birth>>

-----------------------------------------------------------------------------
(* The directory.  An owner names a pid, the incarnation that wrote the    *)
(* file (startedAt, processStartedAt, processBirthId) and the lockId older *)
(* launchers do not write.  Age is what the code tells apart: younger than *)
(* LOCK_INTERRUPTED_GRACE_SECS (0), older (1), and older than              *)
(* LEGACY_PID_REUSE_MIN_LOCK_AGE_SECS (2).                                 *)

Grace == 1
ReuseAge == 2

NoOwner == [pid |-> NoProc, inc |-> 0, lid |-> NoId]
Owner(p, id) == [pid |-> p, inc |-> birth[p], lid |-> id]

NoDir == [there |-> FALSE, owner |-> NoOwner, age |-> 0]
Dir(o) == [there |-> TRUE, owner |-> o, age |-> 0]

Alive(p) == pc[p] # "dead"

(* Where a live process of the current protocol is: it owns the OS lock    *)
(* everywhere but in "idle".                                               *)
HoldsOs == {"locked", "made", "isolate", "inspect", "judge", "rename",
            "remake", "sync", "removing", "unlock"}

Goto(p, step) == pc' = [pc EXCEPT ![p] = step]

-----------------------------------------------------------------------------
(* What classify_lock may answer for a directory it found as d.  The       *)
(* process table may be unreadable, or tell no birth time: then the owner  *)
(* counts as alive.                                                        *)
(* Slip: the grace period of a directory without an owner is forgotten.    *)
VerdictsNoGrace(d) ==
    IF d.owner = NoOwner THEN {"stale"}
    ELSE {"held"} \cup {v \in {"stale"} : ~Alive(d.owner.pid)}

(* Slip: an owner whose process cannot be inspected counts as gone.        *)
VerdictsUnknownIsStale(d) ==
    IF d.owner = NoOwner /\ d.age < Grace THEN {"indeterminate"} ELSE {"held", "stale"}

(* Slip: a directory without an owner is never given up.                   *)
VerdictsOwnerlessForever(d) ==
    IF d.owner = NoOwner THEN {"indeterminate"}
    ELSE {"held"} \cup {v \in {"stale"} : ~Alive(d.owner.pid)}

Verdicts(d) ==
    IF d.owner = NoOwner
    THEN IF d.age >= Grace THEN {"stale"} ELSE {"indeterminate"}
    ELSE {"held"} \cup
         { v \in {"stale"} :
              \/ ~Alive(d.owner.pid)
              \/ /\ d.owner.inc # birth[d.owner.pid]
                 /\ (d.owner.lid # NoId \/ d.age >= ReuseAge) }

-----------------------------------------------------------------------------
(* Slip: the file lock is taken whether or not another process has it.     *)
TryLockShared(p) ==
    /\ pc[p] = "idle"
    /\ os' = p
    /\ \E id \in Ids \ ({dir.owner.lid} \cup {lid[q] : q \in Procs}) :
          lid' = [lid EXCEPT ![p] = id]
    /\ Goto(p, "locked")
    /\ UNCHANGED <<dir, seen, birth>>

(* acquire_lock_inner.  A busy file lock ends the attempt with no change.  *)
TryLock(p) ==
    /\ pc[p] = "idle"
    /\ os = NoProc
    /\ os' = p
    /\ \E id \in Ids \ ({dir.owner.lid} \cup {lid[q] : q \in Procs}) :
          lid' = [lid EXCEPT ![p] = id]
    /\ Goto(p, "locked")
    /\ UNCHANGED <<dir, seen, birth>>

(* create_lock, first half: create_dir, which fails if the path exists.    *)
CreateDir(p) ==
    /\ pc[p] = "locked"
    /\ IF dir.there THEN Goto(p, "isolate") /\ UNCHANGED dir
                    ELSE Goto(p, "made") /\ dir' = Dir(NoOwner)
    /\ UNCHANGED <<os, lid, seen, birth>>

(* create_lock, second half: write owner.json; the guard is handed out.    *)
(* The write goes to a path and fails when the directory is gone.          *)
WriteOwner(p) ==
    /\ pc[p] = "made"
    /\ dir.there
    /\ dir' = Dir(Owner(p, lid[p]))
    /\ Goto(p, "sync")
    /\ UNCHANGED <<os, lid, seen, birth>>

(* The write fails: whatever is at the path is removed, if it can be.      *)
WriteOwnerFails(p) ==
    /\ pc[p] = "made"
    /\ dir' \in {NoDir, dir}
    /\ Goto(p, "unlock")
    /\ UNCHANGED <<os, lid, seen, birth>>

(* isolate_stale_lock: a lockId proves an orphan, for its owner would have *)
(* to hold the OS lock this process holds.                                 *)
ReadOwner(p) ==
    /\ pc[p] = "isolate"
    /\ Goto(p, IF dir.owner.lid # NoId THEN "rename" ELSE "inspect")
    /\ UNCHANGED <<os, dir, lid, seen, birth>>

(* inspect_lock: the path is looked at again, the owner read a second time *)
(* and the age taken right after it ...                                    *)
InspectOwner(p) ==
    /\ pc[p] = "inspect"
    /\ IF dir.there THEN Goto(p, "judge") ELSE Goto(p, "unlock")
    /\ seen' = [seen EXCEPT ![p] = dir]
    /\ UNCHANGED <<os, dir, lid, birth>>

(* ... and then the system is asked about the owner's process, which may   *)
(* take as long as running ps does.                                        *)
Judge(p) ==
    /\ pc[p] = "judge"
    /\ \E v \in Verdicts(seen[p]) :
          Goto(p, IF v = "stale" THEN "rename" ELSE "unlock")
    /\ seen' = [seen EXCEPT ![p] = NoDir]
    /\ UNCHANGED <<os, dir, lid, birth>>

(* The rename to the quarantine path takes whatever directory is there.    *)
Rename(p) ==
    /\ pc[p] = "rename"
    /\ \/ dir.there /\ dir' = NoDir /\ Goto(p, "remake")
       \/ Goto(p, "unlock") /\ UNCHANGED dir
    /\ UNCHANGED <<os, lid, seen, birth>>

(* create_lock once more; a second AlreadyExists ends the attempt.         *)
CreateDirAgain(p) ==
    /\ pc[p] = "remake"
    /\ IF dir.there THEN Goto(p, "unlock") /\ UNCHANGED dir
                    ELSE Goto(p, "made") /\ dir' = Dir(NoOwner)
    /\ UNCHANGED <<os, lid, seen, birth>>

(* The guard is released or dropped: release_owned_lock removes the        *)
(* directory if its owner has this guard's lockId.  remove_dir_all takes   *)
(* owner.json first and the directory after it, and may fail before either.*)
Release(p) ==
    /\ pc[p] = "sync"
    /\ \/ /\ dir.there /\ dir.owner.lid = lid[p]
          /\ dir' = Dir(NoOwner)
          /\ Goto(p, "removing")
       \/ Goto(p, "unlock") /\ UNCHANGED dir
    /\ UNCHANGED <<os, lid, seen, birth>>

RemoveDir(p) ==
    /\ pc[p] = "removing"
    /\ \/ dir' = IF dir.owner = NoOwner THEN NoDir ELSE dir
       \/ UNCHANGED dir
    /\ Goto(p, "unlock")
    /\ UNCHANGED <<os, lid, seen, birth>>

(* FileExt::unlock, or the lock file closed on an error path.              *)
Unlock(p) ==
    /\ pc[p] = "unlock"
    /\ os' = NoProc
    /\ lid' = [lid EXCEPT ![p] = NoId]
    /\ Goto(p, "idle")
    /\ UNCHANGED <<dir, seen, birth>>

-----------------------------------------------------------------------------
(* Processes die at any step.  The kernel drops the OS lock; the directory *)
(* stays as it is.  The pid may come back with another birth time.         *)
Die(p) ==
    /\ Alive(p)
    /\ Goto(p, "dead")
    /\ os' = IF os = p THEN NoProc ELSE os
    /\ lid' = [lid EXCEPT ![p] = NoId]
    /\ seen' = [seen EXCEPT ![p] = NoDir]
    /\ UNCHANGED <<dir, birth>>

Crash(p) == birth[p] < MaxBirth /\ Die(p)

Start(p) ==
    /\ pc[p] = "dead"
    /\ Goto(p, "idle")
    /\ birth' = [birth EXCEPT ![p] = @ + 1]
    /\ UNCHANGED <<os, dir, lid, seen>>

-----------------------------------------------------------------------------
(* Older launchers, as the comments on the compatibility directory and the *)
(* owner files without lockId describe them: the directory is all they     *)
(* look at.  Between the reading of an owner.json and the rename lies one  *)
(* look at the process table: LegacyReplaced says whether an older         *)
(* launcher can take the directory inside that window.                     *)
LegacyCreateDir(l) ==
    /\ pc[l] = "idle"
    /\ ~dir.there
    /\ LegacyReplaced \/ \A p \in Procs : pc[p] \notin {"judge", "rename"}
    /\ dir' = Dir(NoOwner)
    /\ Goto(l, "made")
    /\ UNCHANGED <<os, lid, seen, birth>>

LegacyWriteOwner(l) ==
    /\ pc[l] = "made"
    /\ dir.there
    /\ dir' = Dir(Owner(l, NoId))
    /\ Goto(l, "sync")
    /\ UNCHANGED <<os, lid, seen, birth>>

LegacyRelease(l) ==
    /\ pc[l] = "sync"
    /\ IF dir.there THEN dir' = Dir(NoOwner) /\ Goto(l, "removing")
                    ELSE UNCHANGED dir /\ Goto(l, "idle")
    /\ UNCHANGED <<os, lid, seen, birth>>

LegacyRemoveDir(l) ==
    /\ pc[l] = "removing"
    /\ dir' = IF dir.owner = NoOwner THEN NoDir ELSE dir
    /\ Goto(l, "idle")
    /\ UNCHANGED <<os, lid, seen, birth>>

(* Time passes.  An older launcher takes a few milliseconds between its    *)
(* mkdir and its owner.json, and between the two halves of its removal, so *)
(* a directory does not outlive the grace period inside those windows      *)
(* (the comment on LOCK_INTERRUPTED_GRACE_SECS).  Nothing of the kind is   *)
(* assumed of the processes of the current protocol.                       *)
Age ==
    /\ dir.there
    /\ dir.age < ReuseAge
    /\ \A l \in Legacy : pc[l] \notin {"made", "removing"}
    /\ dir' = [dir EXCEPT !.age = @ + 1]
    /\ UNCHANGED <<os, pc, lid, seen, birth>>

-----------------------------------------------------------------------------
Init ==
    /\ os = NoProc
    /\ dir = NoDir
    /\ pc = [p \in Peers |-> "idle"]
    /\ lid = [p \in Peers |-> NoId]
    /\ seen = [p \in Peers |-> NoDir]
    /\ birth = [p \in Peers |-> 1]

Acquire(p) == \/ TryLock(p) \/ CreateDir(p) \/ WriteOwner(p)
              \/ WriteOwnerFails(p) \/ ReadOwner(p) \/ InspectOwner(p)
              \/ Judge(p) \/ Rename(p) \/ CreateDirAgain(p)

GiveBack(p) == Release(p) \/ RemoveDir(p) \/ Unlock(p)

LegacyStep(l) == \/ LegacyCreateDir(l) \/ LegacyWriteOwner(l)
                 \/ LegacyRelease(l) \/ LegacyRemoveDir(l)

Next == \/ \E p \in Procs : Acquire(p) \/ GiveBack(p)
        \/ \E l \in Legacy : LegacyStep(l)
        \/ \E p \in Peers : Crash(p) \/ Start(p)
        \/ Age

Spec == Init /\ [][Next]_vars

(* Every launch of the program attempts a synchronisation and the guard is *)
(* dropped when it ends, so each process keeps taking its steps; a write,  *)
(* a rename or a look at the process table that can succeed does not fail  *)
(* for ever; an older launcher that began finishes.                        *)
Fairness ==
    /\ \A p \in Procs : /\ WF_vars(Acquire(p)) /\ WF_vars(GiveBack(p))
                        /\ SF_vars(TryLock(p)) /\ SF_vars(WriteOwner(p))
                        /\ SF_vars(Judge(p) /\ pc'[p] = "rename")
                        /\ SF_vars(Rename(p) /\ pc'[p] = "remake")
    /\ \A l \in Legacy : /\ WF_vars(LegacyWriteOwner(l))
                         /\ WF_vars(LegacyRelease(l))
                         /\ WF_vars(LegacyRemoveDir(l))
    /\ \A p \in Peers : WF_vars(Start(p))
    /\ WF_vars(Age)

LiveSpec == Spec /\ Fairness
-----------------------------------------------------------------------------
(* The state a reader expects at each step.                                *)
Owners == [pid : Peers \cup {NoProc}, inc : Nat, lid : Ids \cup {NoId}]
Dirs == [there : BOOLEAN, owner : Owners, age : 0..ReuseAge]

TypeOK ==
    /\ os \in Procs \cup {NoProc}
    /\ dir \in Dirs
    /\ pc \in [Peers -> HoldsOs \cup {"idle", "dead"}]
    /\ lid \in [Peers -> Ids \cup {NoId}]
    /\ seen \in [Peers -> Dirs]
    /\ birth \in [Peers -> Nat]

InSync(p) == pc[p] = "sync"

(* Two processes never synchronise at the same time, older launchers       *)
(* included: whatever died where, and whatever was reclaimed, the lock has *)
(* one holder.                                                             *)
MutualExclusion == \A p, q \in Peers : InSync(p) /\ InSync(q) => p = q

(* A process that synchronises always finds its own lock directory, so a   *)
(* release never reports "lock ownership changed" and older launchers stay *)
(* out until the end.                                                      *)
HolderOwnsDir ==
    \A p \in Procs : InSync(p) => dir.there /\ dir.owner = Owner(p, lid[p])

(* The rename that reclaims a directory never takes the one a live process *)
(* put there and is still inside of.                                       *)
ReclaimsOnlyOrphans ==
    [][ \A p \in Procs : pc[p] = "rename" /\ pc'[p] = "remake"
            => \A q \in Peers \ {p} : pc[q] \notin {"made", "sync"} ]_vars

(* A directory left by a dead process, whatever step it died in, does not  *)
(* keep the history from being synchronised for ever.                      *)
NeverWedged == []<>(\E p \in Peers : InSync(p))

(* The abstract lock: its holder is the process that synchronises.         *)
Holder == IF \E p \in Procs : InSync(p)
          THEN CHOOSE p \in Procs : InSync(p) ELSE NoProc

Mutex == INSTANCE SyncMutex WITH holder <- Holder
ImplementsMutex == Mutex!Spec
=============================================================================
