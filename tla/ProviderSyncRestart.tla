------------------------ MODULE ProviderSyncRestart -------------------------
(***************************************************************************)
(* The manager's restart command (commands.rs, restart_codex_plus) beside  *)
(* the lock: it looks at the lock directory without taking any lock, waits *)
(* while a synchronisation is going on, refuses the restart if that takes  *)
(* too long, and otherwise kills every launcher it finds and spawns one.   *)
(***************************************************************************)
EXTENDS ProviderSyncLock

CONSTANTS Launchers,   \* the processes a restart kills; the manager's own
                       \* synchronisation is not one of them
          MaxPolls     \* bound: timeout / interval of the wait

ASSUME RestartAssumption == Launchers \subseteq Procs /\ MaxPolls \in Nat

VARIABLES
    mgr,      \* "idle", "look", "judge", or "stop" while it kills
    found,    \* the lock directory as the manager read it
    polls,    \* how often it has looked in this wait
    victims,  \* launchers it enumerated and has not killed yet
    ongoing   \* history: synchronisations running since the restart began

mvars == <<mgr, found, polls, victims>>
allVars == <<os, dir, pc, lid, seen, birth, mgr, found, polls, victims, ongoing>>

KeepOngoing == ongoing' = {p \in ongoing : pc'[p] = "sync"}

(* restart_codex_plus is entered; relay_switch_mutex admits one at a time. *)
(* The bound on incarnations bounds the restarts too.                      *)
BeginRestart ==
    /\ mgr = "idle"
    /\ \A p \in Launchers : birth[p] < MaxBirth
    /\ mgr' = "look"
    /\ polls' = 0
    /\ ongoing' = {p \in Procs : InSync(p)}
    /\ UNCHANGED <<os, dir, pc, lid, seen, birth, found, victims>>

(* One round of wait_for_idle_provider_sync: read the directory ...        *)
Look ==
    /\ mgr = "look"
    /\ found' = dir
    /\ polls' = polls + 1
    /\ IF dir.there THEN mgr' = "judge" /\ UNCHANGED victims
       ELSE mgr' = "stop" /\ victims' = {p \in Launchers : Alive(p)}
    /\ UNCHANGED <<os, dir, pc, lid, seen, birth>>
    /\ KeepOngoing

(* Slip: a wait that timed out goes on to the kill instead of refusing.    *)
DecideAnyway ==
    /\ mgr = "judge"
    /\ found' = NoDir
    /\ \E v \in Verdicts(found) :
          \/ /\ v = "stale" \/ polls > MaxPolls
             /\ mgr' = "stop"
             /\ victims' = {p \in Launchers : Alive(p)}
          \/ /\ v # "stale" /\ polls <= MaxPolls
             /\ mgr' = "look"
             /\ UNCHANGED victims
    /\ UNCHANGED <<os, dir, pc, lid, seen, birth, polls>>
    /\ KeepOngoing

(* ... then classify it; Held and Indeterminate wait, until the timeout.   *)
Decide ==
    /\ mgr = "judge"
    /\ found' = NoDir
    /\ \E v \in Verdicts(found) :
          \/ /\ v = "stale"
             /\ mgr' = "stop"
             /\ victims' = {p \in Launchers : Alive(p)}
          \/ /\ v # "stale"
             /\ mgr' = IF polls > MaxPolls THEN "idle" ELSE "look"
             /\ UNCHANGED victims
    /\ UNCHANGED <<os, dir, pc, lid, seen, birth, polls>>
    /\ KeepOngoing

(* stop_launcher_processes_and_wait, one process at a time.                *)
Kill(p) ==
    /\ mgr = "stop"
    /\ p \in victims
    /\ victims' = victims \ {p}
    /\ IF Alive(p) THEN Die(p) ELSE UNCHANGED vars
    /\ UNCHANGED <<mgr, found, polls>>
    /\ KeepOngoing

(* All are gone; a silent launcher is spawned in place of one of them.     *)
Spawn ==
    /\ mgr = "stop"
    /\ victims = {}
    /\ mgr' = "idle"
    /\ \/ \E p \in Launchers : Start(p)
       \/ UNCHANGED vars
    /\ UNCHANGED <<found, polls, victims>>
    /\ KeepOngoing

RestartInit == /\ Init
               /\ mgr = "idle" /\ found = NoDir /\ polls = 0
               /\ victims = {} /\ ongoing = {}

LockStep == Next /\ KeepOngoing /\ UNCHANGED mvars

RestartNext == \/ LockStep
               \/ BeginRestart
               \/ Look
               \/ Decide
               \/ \E p \in Launchers : Kill(p)
               \/ Spawn

RestartSpec == RestartInit /\ [][RestartNext]_allVars

-----------------------------------------------------------------------------
RestartTypeOK ==
    /\ TypeOK
    /\ mgr \in {"idle", "look", "judge", "stop"}
    /\ found \in Dirs
    /\ polls \in 0..MaxPolls + 1
    /\ victims \subseteq Launchers
    /\ ongoing \subseteq Procs

(* What the wait buys (issue #1901): a synchronisation that was running    *)
(* when the user asked for the restart is over before anything is killed.  *)
OngoingSyncSurvives == mgr = "stop" => ongoing = {}

(* What the comment on the wait claims: a restart never interrupts a       *)
(* synchronisation.  The wait is a look at a lock it does not take, so a   *)
(* synchronisation may begin between the look and the kill.                *)
RestartNeverInterruptsSync ==
    [][ \A p \in victims : InSync(p) => p \in victims' ]_allVars
=============================================================================
