---------------------------- MODULE ProviderSync ----------------------------
(***************************************************************************)
(* One synchronisation of the session history to the current provider      *)
(* (provider_sync.rs, run_provider_sync_with_target_in_home), repeated by  *)
(* launch after launch, with the user switching providers, the desktop app *)
(* writing to its sessions, I/O errors and crashes in between.  The lock   *)
(* is ProviderSyncLock, used here through what it promises: one            *)
(* synchronisation at a time.                                              *)
(*                                                                         *)
(* A rollout file is its session_meta provider and the number of events    *)
(* that follow it; a database is the provider in its rows.                 *)
(***************************************************************************)
EXTENDS Naturals, FiniteSets, Functions

CONSTANTS Rollouts, Dbs, Providers,
          NoProvider,     \* the provider of a file without session_meta
          NoRollout,
          Keep,           \* BACKUP_KEEP_COUNT
          MaxStamp,       \* bound: local times a backup can be named after
          ClockGoesBack,  \* local time repeats an hour, or is set back
          MaxEnv          \* bound: faults, crashes, switches, app actions

ASSUME SyncAssumption ==
    /\ NoProvider \notin Providers /\ NoRollout \notin Rollouts
    /\ Keep \in Nat \ {0} /\ MaxEnv \in Nat /\ MaxStamp \in Nat \ {0}
    /\ ClockGoesBack \in BOOLEAN

VARIABLES
    cfg,      \* model_provider of config.toml
    app,      \* is the desktop app running
    rollout,  \* the rollout files
    db,       \* the provider in each database
    gstate,   \* is .codex-global-state.json normalised, and its .bak
    backups,  \* managed backups by name: the providers they recorded
    clock,    \* the local time of the last backup
    \* the process that synchronises
    stage, target, plan, todo, cur, applied, skipped, mine, result,
    \* history and bounds
    said,     \* events the app has written to each session
    torn,     \* rollouts an interrupted rewrite left empty
    env

disk == <<rollout, db, gstate, backups, clock>>
world == <<cfg, app, said, env>>
run == <<target, plan, todo, cur, applied, skipped, mine, result>>
syncVars == <<disk, world, stage, run, torn>>

Text(p, n) == [prov |-> p, body |-> n]
EmptyText == Text(NoProvider, 0)
Nothing == [f \in {} |-> EmptyText]
NoName == <<>>

(* Backup directories are named by second and suffix, and ordered by name. *)
Names == (0..MaxStamp) \X (0..(Keep - 1))
Newer(a, b) == a[1] > b[1] \/ (a[1] = b[1] /\ a[2] > b[2])

Spend == env < MaxEnv /\ env' = env + 1

Return(r) == /\ stage' = "idle"
             /\ result' = r
             /\ plan' = Nothing /\ todo' = {} /\ cur' = NoRollout
             /\ applied' = {} /\ mine' = NoName

-----------------------------------------------------------------------------
(* Slip: the target of the first run is used again.                        *)
BeginCachedTarget ==
    /\ stage = "idle"
    /\ ~app
    /\ stage' = "collect"
    /\ result' = "none"
    /\ skipped' = {}
    /\ UNCHANGED <<disk, world, torn, target, plan, todo, cur, applied, mine>>

(* The target is read from the live config; the app must not be running;   *)
(* the lock is taken.  A running app skips the synchronisation.            *)
Begin ==
    /\ stage = "idle"
    /\ ~app
    /\ stage' = "collect"
    /\ target' = cfg
    /\ result' = "none"
    /\ skipped' = {}
    /\ UNCHANGED <<disk, world, torn, plan, todo, cur, applied, mine>>

(* collect_session_changes: the rollouts that can be read and name another *)
(* provider; one without session_meta is passed over.                      *)
Stale(locked) == {f \in Rollouts \ locked : rollout[f].prov \notin {target, NoProvider}}

(* count_sqlite_updates_for_paths and the count of catalog repairs.        *)
DbsUpToDate == \A d \in Dbs : db[d] = target

(* Rollouts, databases and global state are compared with the target.  The *)
(* app may have come up meanwhile and hold a file locked.  Nothing to      *)
(* write: the target is validated again and the run ends.                  *)
Collect ==
    /\ stage = "collect"
    /\ \E locked \in SUBSET {f \in Rollouts : app} :
          /\ skipped' = locked
          /\ IF Stale(locked) = {} /\ DbsUpToDate /\ gstate[1]
             THEN Return(IF cfg = target THEN "Synced" ELSE "Skipped")
             ELSE /\ stage' = "validate"
                  /\ plan' = Restrict(rollout, Stale(locked))
                  /\ UNCHANGED <<todo, cur, applied, mine, result>>
    /\ UNCHANGED <<disk, world, torn, target>>

(* Slip: the rollouts are rewritten with no backup made before.            *)
ValidateThenApply ==
    /\ stage = "validate"
    /\ IF cfg = target
       THEN stage' = "apply" /\ todo' = DOMAIN plan
            /\ UNCHANGED <<plan, cur, applied, mine, result>>
       ELSE Return("Skipped")
    /\ UNCHANGED <<disk, world, torn, target, skipped>>

(* revalidate_provider_sync_target_snapshot, right before the first write. *)
Validate ==
    /\ stage = "validate"
    /\ IF cfg = target
       THEN stage' = "backup" /\ UNCHANGED <<plan, todo, cur, applied, mine, result>>
       ELSE Return("Skipped")
    /\ UNCHANGED <<disk, world, torn, target, skipped>>

(* create_backup: the first free suffix of the current second.  No second  *)
(* is long enough for more than Keep synchronisations.                     *)
Backup ==
    /\ stage = "backup"
    /\ \E s \in 0..MaxStamp :
          /\ s \in {clock, clock + 1} \/ (ClockGoesBack /\ s < clock)
          /\ clock' = s
          /\ \E k \in 0..(Keep - 1) :
                /\ <<s, k>> \notin DOMAIN backups
                /\ \A j \in 0..(k - 1) : <<s, j>> \in DOMAIN backups
                /\ mine' = <<s, k>>
                /\ backups' = [n \in DOMAIN backups \cup {<<s, k>>} |->
                      IF n = <<s, k>>
                      THEN [meta |-> [f \in DOMAIN plan |-> plan[f].prov],
                            db |-> db, gstate |-> gstate]
                      ELSE backups[n]]
    /\ stage' = "apply"
    /\ todo' = DOMAIN plan
    /\ UNCHANGED <<world, torn, rollout, db, gstate, target, plan, cur,
                   applied, skipped, result>>

(* replace_session_text_if_unchanged, up to set_len(0).  A file that is    *)
(* not as it was collected, or that is locked, is skipped.                 *)
OpenRollout(f) ==
    /\ stage = "apply"
    /\ f \in todo
    /\ todo' = todo \ {f}
    /\ \/ /\ rollout[f] = plan[f]
          /\ rollout' = [rollout EXCEPT ![f] = EmptyText]
          /\ stage' = "write" /\ cur' = f
          /\ UNCHANGED skipped
       \/ /\ rollout[f] # plan[f] \/ app
          /\ skipped' = skipped \cup {f}
          /\ UNCHANGED <<stage, cur, rollout>>
    /\ UNCHANGED <<world, torn, db, gstate, backups, clock, target, plan,
                   applied, mine, result>>

(* ... and from write_all on.                                              *)
WriteRollout ==
    /\ stage = "write"
    /\ rollout' = [rollout EXCEPT ![cur] = Text(target, plan[cur].body)]
    /\ applied' = applied \cup {cur}
    /\ stage' = "apply" /\ cur' = NoRollout
    /\ UNCHANGED <<world, torn, db, gstate, backups, clock, target, plan,
                   todo, skipped, mine, result>>

RolloutsDone ==
    /\ stage = "apply"
    /\ todo = {}
    /\ stage' = "dbs"
    /\ UNCHANGED <<disk, world, torn, run>>

(* apply_sqlite_update and the repair of the catalog rows, as one          *)
(* transaction per database.                                               *)
UpdateDb(d) ==
    /\ stage = "dbs"
    /\ db[d] # target
    /\ db' = [db EXCEPT ![d] = target]
    /\ UNCHANGED <<rollout, gstate, backups, clock, world, torn, stage, run>>

(* Slip: the databases that are left are taken for done.                   *)
DbsDoneEarly ==
    /\ stage = "dbs"
    /\ stage' = "gstate"
    /\ UNCHANGED <<disk, world, torn, run>>

DbsDone ==
    /\ stage = "dbs"
    /\ DbsUpToDate
    /\ stage' = "gstate"
    /\ UNCHANGED <<disk, world, torn, run>>

(* apply_global_state_update: the file, then its copy.                     *)
WriteGlobalState ==
    /\ stage = "gstate"
    /\ IF gstate[1]
       THEN stage' = "prune" /\ UNCHANGED gstate
       ELSE stage' = "gbak" /\ gstate' = <<TRUE, gstate[2]>>
    /\ UNCHANGED <<rollout, db, backups, clock, world, torn, run>>

WriteGlobalBak ==
    /\ stage = "gbak"
    /\ gstate' = <<TRUE, TRUE>>
    /\ stage' = "prune"
    /\ UNCHANGED <<rollout, db, backups, clock, world, torn, run>>

(* Slip: the names are sorted the other way.                               *)
KeptOldest == {n \in DOMAIN backups :
                 Cardinality({m \in DOMAIN backups : Newer(n, m)}) < Keep}

(* prune_backups keeps the first Keep names; then the run is complete.     *)
Kept == {n \in DOMAIN backups :
            Cardinality({m \in DOMAIN backups : Newer(m, n)}) < Keep}

Prune ==
    /\ stage = "prune"
    /\ backups' = Restrict(backups, Kept)
    /\ Return("Synced")
    /\ UNCHANGED <<rollout, db, gstate, clock, world, torn, target, skipped>>

(* Slip: the text is given back whatever the file holds by now.            *)
RestoreBlindly(f) ==
    /\ stage = "restore"
    /\ f \in applied
    /\ rollout' = [rollout EXCEPT ![f] = EmptyText]
    /\ stage' = "rewrite" /\ cur' = f
    /\ applied' = applied \ {f}
    /\ UNCHANGED <<world, torn, db, gstate, backups, clock, target, plan,
                   todo, skipped, mine, result>>

(* restore_session_changes gives an applied rollout its text back if       *)
(* nobody changed it since.                                                *)
Restore(f) ==
    /\ stage = "restore"
    /\ f \in applied
    /\ IF rollout[f] = Text(target, plan[f].body)
       THEN /\ rollout' = [rollout EXCEPT ![f] = EmptyText]
            /\ stage' = "rewrite" /\ cur' = f
       ELSE UNCHANGED <<rollout, stage, cur>>
    /\ applied' = applied \ {f}
    /\ UNCHANGED <<world, torn, db, gstate, backups, clock, target, plan,
                   todo, skipped, mine, result>>

(* Slip: the rollout is written with the text of the change, not the       *)
(* original.                                                               *)
RewriteTarget ==
    /\ stage = "rewrite"
    /\ rollout' = [rollout EXCEPT ![cur] = Text(target, plan[cur].body)]
    /\ stage' = "restore" /\ cur' = NoRollout
    /\ UNCHANGED <<world, torn, db, gstate, backups, clock, target, plan,
                   todo, applied, skipped, mine, result>>

RewriteRollout ==
    /\ stage = "rewrite"
    /\ rollout' = [rollout EXCEPT ![cur] = plan[cur]]
    /\ stage' = "restore" /\ cur' = NoRollout
    /\ UNCHANGED <<world, torn, db, gstate, backups, clock, target, plan,
                   todo, applied, skipped, mine, result>>

Restored ==
    /\ stage = "restore"
    /\ applied = {}
    /\ Return("Skipped")
    /\ UNCHANGED <<disk, world, torn, target, skipped>>

-----------------------------------------------------------------------------
(* An I/O or SQLite error.  From the first database on, the rollouts are   *)
(* restored; an error before that, or inside the restore, ends the run     *)
(* where it is, with the file that was being written left empty.           *)
Fail ==
    /\ stage # "idle"
    /\ Spend
    /\ torn' = torn \cup ({cur} \ {NoRollout})
    /\ IF stage \in {"dbs", "gstate", "gbak", "prune"}
       THEN stage' = "restore" /\ UNCHANGED <<plan, todo, cur, applied, mine, result>>
       ELSE Return("Skipped")
    /\ UNCHANGED <<disk, cfg, app, said, target, skipped>>

(* The process dies; what it knew is gone.                                 *)
Dies ==
    /\ stage # "idle"
    /\ Spend
    /\ torn' = torn \cup ({cur} \ {NoRollout})
    /\ Return("none")
    /\ target' = cfg
    /\ skipped' = {}
    /\ UNCHANGED <<disk, cfg, app, said>>

SwitchProvider ==
    /\ Spend
    /\ \E p \in Providers \ {cfg} : cfg' = p
    /\ UNCHANGED <<disk, app, said, stage, run, torn>>

StartApp ==
    /\ ~app
    /\ Spend
    /\ app' = TRUE
    /\ UNCHANGED <<disk, cfg, said, stage, run, torn>>

StopApp ==
    /\ app
    /\ app' = FALSE
    /\ UNCHANGED <<disk, cfg, said, env, stage, run, torn>>

(* The app appends an event.  A rollout under rewrite is opened without    *)
(* sharing, so the app cannot write to it.                                 *)
AppWrites(f) ==
    /\ app
    /\ f # cur
    /\ f \notin torn
    /\ Spend
    /\ rollout' = [rollout EXCEPT ![f].body = @ + 1]
    /\ said' = [said EXCEPT ![f] = @ + 1]
    /\ UNCHANGED <<db, gstate, backups, clock, cfg, app, stage, run, torn>>

-----------------------------------------------------------------------------
SyncInit ==
    /\ cfg \in Providers
    /\ app = FALSE
    /\ \E p \in Providers : /\ rollout = [f \in Rollouts |-> Text(p, 1)]
                            /\ db = [d \in Dbs |-> p]
    /\ gstate = <<FALSE, FALSE>>
    /\ backups = [n \in {} |-> EmptyText]
    /\ clock = 1
    /\ stage = "idle" /\ target = cfg /\ plan = Nothing /\ todo = {}
    /\ cur = NoRollout /\ applied = {} /\ skipped = {} /\ mine = NoName
    /\ result = "none"
    /\ said = [f \in Rollouts |-> 1]
    /\ torn = {}
    /\ env = 0

SyncStep == \/ Begin \/ Collect \/ Validate \/ Backup
            \/ \E f \in Rollouts : OpenRollout(f) \/ Restore(f)
            \/ WriteRollout \/ RolloutsDone
            \/ \E d \in Dbs : UpdateDb(d)
            \/ DbsDone \/ WriteGlobalState \/ WriteGlobalBak \/ Prune
            \/ RewriteRollout \/ Restored

SyncNext == \/ SyncStep
        \/ Fail \/ Dies
        \/ SwitchProvider \/ StartApp \/ StopApp
        \/ \E f \in Rollouts : AppWrites(f)

SyncSpec == SyncInit /\ [][SyncNext]_syncVars

(* A run that began goes on, the program is launched again, and the user   *)
(* quits the app before that, as the skip message asks.                    *)
SyncLiveSpec == SyncSpec /\ WF_syncVars(SyncStep) /\ SF_syncVars(Begin) /\ WF_syncVars(StopApp)

-----------------------------------------------------------------------------
SyncTypeOK ==
    /\ cfg \in Providers /\ target \in Providers /\ app \in BOOLEAN
    /\ rollout \in [Rollouts -> [prov : Providers \cup {NoProvider}, body : Nat]]
    /\ db \in [Dbs -> Providers]
    /\ gstate \in BOOLEAN \X BOOLEAN
    /\ DOMAIN backups \subseteq Names /\ clock \in 0..MaxStamp
    /\ stage \in {"idle", "collect", "validate", "backup", "apply", "write",
               "dbs", "gstate", "gbak", "prune", "restore", "rewrite"}
    /\ DOMAIN plan \subseteq Rollouts /\ todo \subseteq DOMAIN plan
    /\ applied \subseteq DOMAIN plan /\ skipped \subseteq Rollouts
    /\ cur \in DOMAIN plan \cup {NoRollout}
    /\ mine \in Names \cup {NoName}
    /\ result \in {"none", "Synced", "Skipped"}
    /\ said \in [Rollouts -> Nat] /\ torn \subseteq Rollouts /\ env \in 0..MaxEnv

(* No event the app wrote to a session is ever lost to a rewrite or to a   *)
(* restore; only a file whose rewrite was cut short is, and it is empty.   *)
EventsKept ==
    /\ SyncTypeOK
    /\ \A f \in Rollouts : \/ rollout[f] = EmptyText /\ f \in torn \cup {cur}
                           \/ rollout[f].body = said[f]

(* "Provider sync complete" means what it says: every session the result   *)
(* does not report as skipped, and every database, is at the target --     *)
(* also when the app came up or the user switched provider in the middle.  *)
CompletesUniform ==
    stage # "idle" /\ result' = "Synced" =>
       /\ \A f \in Rollouts : \/ rollout'[f].prov \in {target, NoProvider}
                              \/ f \in skipped'
       /\ \A d \in Dbs : db'[d] = target
       /\ gstate'[1]

(* ... after every synchronisation.                                        *)
SyncedMeansUniform == [][CompletesUniform]_syncVars

(* An error after the rollouts are written takes them back, all but those  *)
(* the app has written to since.                                           *)
EndsRestored ==
    stage = "restore" /\ applied = {} /\ result' = "Skipped" /\ env' = env =>
       \A f \in DOMAIN plan : \/ rollout[f].prov = plan[f].prov
                              \/ rollout[f].body > plan[f].body

(* ... whichever later step failed.                                        *)
LaterFailureRestores == [][EndsRestored]_syncVars

(* What was on disk before the first write is in this run's backup, for as *)
(* long as the run may still fail or die.                                  *)
BackedUp ==
    stage \in {"apply", "write", "dbs", "gstate", "gbak", "prune", "restore", "rewrite"} =>
       /\ mine \in DOMAIN backups
       /\ \A f \in applied \cup ({cur} \ {NoRollout}) :
             /\ f \in DOMAIN backups[mine].meta
             /\ backups[mine].meta[f] = plan[f].prov
             /\ plan[f].prov # target
       /\ \A d \in Dbs : db[d] \in {backups[mine].db[d], target}

(* The rotation of backups keeps the newest: a run never removes its own.  *)
PrunesOthers == stage = "prune" /\ result' = "Synced" => mine \in DOMAIN backups'

(* ... as long as the local time does not go back.                         *)
OwnBackupKept == [][PrunesOthers]_syncVars

(* Whatever failed, died or was skipped on the way: once the user leaves   *)
(* the provider alone and quits the app, launching again brings every      *)
(* session that has its text and every database to the current provider.   *)
Converges ==
    <>[]( /\ \A f \in Rollouts \ torn : rollout[f].prov = cfg
          /\ \A d \in Dbs : db[d] = cfg
          /\ gstate[1] )

(* What the plan and the tests say of a failure: the rollouts are put back *)
(* when the run is reported as skipped.  The code restores only from the   *)
(* databases on; an error on a later rollout leaves earlier ones rewritten.*)
SkippedRestoresRollouts ==
    [][ stage # "idle" /\ result' = "Skipped" =>
          \A f \in DOMAIN plan \ torn' : \/ rollout'[f].prov = plan[f].prov
                                         \/ rollout'[f].body > plan[f].body ]_syncVars
=============================================================================
