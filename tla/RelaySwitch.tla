---------------------------- MODULE RelaySwitch ----------------------------
(***************************************************************************)
(* Switching provider: the manager changes settings.json, auth.json and    *)
(* config.toml one after the other, saves what the user changed in the     *)
(* files before, and takes everything back when a step fails. The restart  *)
(* with "sync the active relay" writes the two live files the same way.    *)
(* Around it: imports of providers, launchers that save settings, users    *)
(* who edit config.toml, a manager that is killed.                         *)
(***************************************************************************)
EXTENDS RelayProfileConfig

CONSTANTS
  Ids,            \* the ids of profiles that can exist
  Imports,        \* those a link offers for import
  Default,        \* the official profile of the default settings
  Kind,           \* the kind of each
  MaxCommands,    \* bound: switches and restarts
  MaxErrors,      \* bound: I/O errors
  MaxEdits,       \* bound: edits of config.toml
  MaxOutside      \* bound: imports, saves by launchers and deaths of the manager

ASSUME ConstantsAssumption ==
  /\ Imports \subseteq Ids /\ Default \in Ids \ Imports
  /\ Ids \cap {None, Proxy, NoAuthToken} = {}
  /\ Kind \in [Ids -> Kinds] /\ (\A p \in Imports : Kind[p] # "official")
  /\ Kind[Default] = "official"
  /\ {MaxCommands, MaxErrors, MaxEdits, MaxOutside} \subseteq Nat

VARIABLES
  settings,   \* settings.json: the ids there are, the active one, the profiles
  config,     \* config.toml
  auth,       \* auth.json
  form,       \* the settings the manager's window shows and sends
  cmd,        \* the command of the manager under way, and what it holds
  copy,       \* settings a launcher has read and is about to write back
  before,     \* history: the files when the command began
  clean,      \* history: nothing from outside broke in so far
  latest,     \* history: the last edit made of each profile's config.toml
  overwritten,\* history: the profiles whose last edit a command may have discarded
  budget      \* commands, errors, edits, outside events left

vars == <<settings, config, auth, form, cmd, copy, before, clean, latest, overwritten, budget>>
history == <<before, clean, latest, overwritten>>
files == <<settings, config, auth>>
LiveFiles == [config |-> config, auth |-> auth]

Owners == Ids
Edits == 0..MaxEdits

\* normalize_settings_config_sections, as far as profiles are concerned.
Normal(s) == [s EXCEPT !.prof = [p \in Ids |-> IF p \in s.ids THEN Normalized(Kind[p], @[p]) ELSE @[p]]]

\* BackendSettings::default, which takes the place of settings that cannot be
\* read: a single profile, official and blank.
Defaults == Normal([ids |-> {Default}, active |-> Default, prof |-> [p \in Ids |-> NewProfile(p)]])

\* What a command holds: the settings it works with, those and the files it
\* would give back, whether it could read those settings, the files to write and
\* those they replace.
NoFiles == [config |-> NoConfig, auth |-> NoAuth]
Idle == [pc |-> "idle", what |-> "switch", prev |-> Default, set |-> Defaults,
         orig |-> Defaults, read |-> TRUE, snap |-> NoFiles, write |-> NoFiles, old |-> NoFiles]
Running == cmd.pc # "idle"
Step(pc) == cmd.pc = pc
Active(s) == s.prof[s.active]

\* The live files are what an application of the active profile writes.
Live(s, c, a) ==
  LET k == Kind[s.active]
      d == ConfigFor(k, Active(s), c)
  IN /\ <<c.active, c.base, c.token>> = <<d.active, d.base, d.token>>
     /\ IF k = "official" THEN a.key = None ELSE a.key = AuthFor(k, Active(s), a).key

Spend(what) == budget[what] > 0 /\ budget' = [budget EXCEPT ![what] = @ - 1]

\* An event from outside, with a failed read of settings.json (1) or without (0).
SpendOutside(failed) ==
  /\ budget.outside > 0 /\ failed <= budget.errors
  /\ budget' = [budget EXCEPT !.outside = @ - 1, !.errors = @ - failed]

-----------------------------------------------------------------------------
\* Profiles as they are stored, one of them official or mixed and in use with a
\* ChatGPT login.
Init ==
  LET s == Normal([ids |-> Ids \ Imports, active |-> Default,
                   prof |-> [p \in Ids |-> NewProfile(p)]])
  IN /\ \E p \in s.ids : Kind[p] \notin Pure /\ settings = [s EXCEPT !.active = p]
     /\ auth = [key |-> None, login |-> TRUE]
     /\ config = ConfigFor(Kind[settings.active], Active(settings), NoConfig)
     /\ form = settings
     /\ cmd = Idle
     /\ copy = {}
     /\ before = <<>>
     /\ clean = TRUE
     /\ latest = [p \in Ids |-> 0]
     /\ overwritten = {}
     /\ budget = [commands |-> MaxCommands, errors |-> MaxErrors, edits |-> MaxEdits, outside |-> MaxOutside]

\* backfill_profile_before_switch: what the user changed in the live files goes
\* into the profile being left.
BackfilledBefore(s, prev) ==
  IF prev = s.active THEN s
  ELSE [s EXCEPT !.prof[prev] = Backfilled(Kind[prev], @, config, auth)]

\* switchRelayProfile in the window, which backfills the settings it sends.
Choose(next) ==
  /\ ~Running /\ Spend("commands")
  /\ next \in form.ids
  /\ cmd' = [Idle EXCEPT !.pc = "capture", !.prev = form.active,
               !.set = BackfilledBefore([form EXCEPT !.active = next], form.active)]
  /\ before' = <<settings, config, auth>>
  /\ UNCHANGED <<files, form, copy, clean, latest, overwritten>>

\* Slip: the profile being left is saved as the window knows it.
CaptureOnly ==
  /\ Step("capture")
  /\ cmd' = [cmd EXCEPT !.pc = "save", !.set.prof[cmd.prev] = form.prof[cmd.prev],
               !.orig = Normal(settings), !.snap = LiveFiles]
  /\ UNCHANGED <<files, form, copy, history, budget>>

\* switch_relay_profile_in_home up to the save: the settings and the files to
\* give back, and the profile being left once more.
Captured(orig, read) ==
  /\ Step("capture")
  /\ cmd' = [cmd EXCEPT !.pc = "save", !.set = BackfilledBefore(@, cmd.prev),
               !.orig = orig, !.read = read, !.snap = LiveFiles]
  /\ UNCHANGED <<files, form, copy, history>>

Capture == Captured(Normal(settings), TRUE) /\ UNCHANGED budget

\* store.load().unwrap_or_default(): settings that cannot be read do not stop the
\* switch; the default ones are what it would give back.
CaptureUnread == Captured(Defaults, FALSE) /\ Spend("errors")

\* store.save.
Save ==
  /\ Step("save")
  /\ settings' = Normal(cmd.set)
  /\ cmd' = [cmd EXCEPT !.pc = "load"]
  /\ UNCHANGED <<config, auth, form, copy, history, budget>>

\* store.load, and for a restart the load it begins with.
Load ==
  /\ Step("load")
  /\ cmd' = [cmd EXCEPT !.pc = "apply", !.set = Normal(settings)]
  /\ UNCHANGED <<files, form, copy, history, budget>>

\* restart_codex_plus with sync_active_relay: the settings are read, launchers
\* and Codex stopped, the live files kept to give back.
BeginRestart ==
  /\ ~Running /\ Spend("commands")
  /\ cmd' = [Idle EXCEPT !.pc = "apply", !.what = "restart", !.prev = settings.active,
               !.set = Normal(settings), !.snap = LiveFiles]
  /\ before' = <<settings, config, auth>>
  /\ UNCHANGED <<files, form, copy, clean, latest, overwritten>>

\* apply_selected_relay_profile and sync_active_relay_to_home up to the write,
\* where c is what was read of config.toml.
Applied(c) ==
  /\ Step("apply")
  /\ LET k == Kind[cmd.set.active]
         p == Active(cmd.set)
     IN cmd' = IF Valid(k, p)
                 THEN [cmd EXCEPT !.pc = "auth", !.old = LiveFiles,
                        !.write = [config |-> ConfigFor(k, p, c), auth |-> AuthFor(k, p, auth)]]
                 ELSE [cmd EXCEPT !.pc = "undo"]
  /\ UNCHANGED <<files, form, copy, history>>

Apply == Applied(config) /\ UNCHANGED budget

\* clear_relay_config_to_home_with_auth: for the official login a config.toml
\* that cannot be read counts as empty.
ApplyUnread == Kind[cmd.set.active] = "official" /\ Applied(NoConfig) /\ Spend("errors")

\* write_codex_live_atomic: auth.json first.
WriteAuth ==
  /\ Step("auth")
  /\ auth' = cmd.write.auth
  /\ cmd' = [cmd EXCEPT !.pc = "config"]
  /\ UNCHANGED <<settings, config, form, copy, history, budget>>

WriteConfig ==
  /\ Step("config")
  /\ config' = cmd.write.config
  /\ cmd' = [cmd EXCEPT !.pc = "check"]
  /\ UNCHANGED <<settings, auth, form, copy, history, budget>>

\* The status after the write, which only a relay with its own key must pass;
\* for a restart the start of the launcher.
Check ==
  /\ Step("check")
  /\ cmd' = [cmd EXCEPT !.pc = IF cmd.what = "switch" /\ Kind[cmd.set.active] \in Pure
                                    /\ ~Configured(config, auth)
                               THEN "undo" ELSE "done"]
  /\ UNCHANGED <<files, form, copy, history, budget>>

\* Errors after the write: the launcher cannot be started, or the files cannot be
\* read for the status a relay with its own key must show.
StartFails == Step("check") /\ cmd.what = "restart"
StatusUnread == Step("check") /\ cmd.what = "switch" /\ Kind[cmd.set.active] \in Pure

\* Slip: an error of the write is returned like one before it.
ErrorReturns ==
  /\ cmd.pc \in {"capture", "save", "load", "apply", "auth", "config"} \/ StartFails \/ StatusUnread
  /\ Spend("errors")
  /\ cmd' = [cmd EXCEPT !.pc = IF cmd.pc \in {"capture", "save", "load", "auth", "config"}
                                 THEN "failed" ELSE "undo"]
  /\ clean' = (clean /\ ~Step("load"))
  /\ UNCHANGED <<settings, config, auth, form, copy, before, latest, overwritten>>

\* An I/O error. While config.toml is written it puts both files back; a switch
\* that cannot read its settings back returns without undoing anything.
Error ==
  /\ cmd.pc \in {"capture", "save", "load", "apply", "auth", "config"} \/ StartFails \/ StatusUnread
  /\ Spend("errors")
  /\ auth' = IF Step("config") THEN cmd.old.auth ELSE auth
  /\ config' = IF Step("config") THEN cmd.old.config ELSE config
  /\ cmd' = [cmd EXCEPT !.pc = IF cmd.pc \in {"capture", "save", "load"} THEN "failed" ELSE "undo"]
  /\ clean' = (clean /\ ~Step("load"))
  /\ UNCHANGED <<settings, form, copy, before, latest, overwritten>>

\* Slip: the settings keep what was saved.
UndoSettingsNot ==
  /\ Step("undo")
  /\ cmd' = [cmd EXCEPT !.pc = "undoconfig"]
  /\ UNCHANGED <<files, form, copy, history, budget>>

\* The undo of a switch: the settings, then the live files even when the
\* settings could not be restored. Settings that could not be read at the
\* beginning are replaced by the default ones.
UndoSettings ==
  /\ Step("undo")
  /\ cmd' = [cmd EXCEPT !.pc = "undoconfig"]
  /\ settings' = IF cmd.what = "switch" THEN Normal(cmd.orig) ELSE settings
  /\ clean' = (clean /\ cmd.read)
  /\ UNCHANGED <<config, auth, form, copy, before, latest, overwritten, budget>>

UndoConfig ==
  /\ Step("undoconfig")
  /\ cmd' = [cmd EXCEPT !.pc = "undoauth"]
  /\ config' = cmd.snap.config
  /\ UNCHANGED <<settings, auth, form, copy, history, budget>>

UndoAuth ==
  /\ Step("undoauth")
  /\ cmd' = [cmd EXCEPT !.pc = "failed"]
  /\ auth' = cmd.snap.auth
  /\ UNCHANGED <<settings, config, form, copy, history, budget>>

\* An I/O error in the undo: of the settings, and of a live file, after which
\* the other one is not tried.
UndoError ==
  /\ cmd.pc \in {"undo", "undoconfig", "undoauth"} /\ Spend("errors")
  /\ (cmd.pc = "undo" => cmd.what = "switch")
  /\ cmd' = [cmd EXCEPT !.pc = IF cmd.pc = "undo" THEN "undoconfig" ELSE "failed"]
  /\ clean' = FALSE
  /\ UNCHANGED <<files, form, copy, before, latest, overwritten>>

\* The answer. A restart, and a switch to the profile that is active already,
\* wrote the profile over the edits of config.toml made since its last use.
Answered(shown) ==
  /\ cmd.pc \in {"done", "failed"}
  /\ cmd' = Idle /\ before' = <<>> /\ form' = shown
  /\ overwritten' = IF Step("done") /\ cmd.prev = cmd.set.active
                      THEN overwritten \cup {cmd.prev} ELSE overwritten
  /\ UNCHANGED <<files, copy, latest>>

\* The window shows the settings that are stored now. A restart changes none.
Finish ==
  /\ Answered(IF cmd.what = "restart" THEN form
              ELSE IF Step("done") THEN cmd.set ELSE Normal(settings))
  /\ UNCHANGED <<clean, budget>>

\* After a failure, settings that cannot be read are shown as the default ones,
\* and the next switch saves what is shown.
FinishUnread ==
  /\ cmd.what = "switch" /\ Step("failed") /\ Spend("errors")
  /\ Answered(Defaults)
  /\ clean' = FALSE

-----------------------------------------------------------------------------
\* import_provider_with_store, after the user confirmed: the new profile is
\* made the active one, and no live file is written. It is not serialised with
\* the commands above. When the settings cannot be read it starts from the
\* default ones.
Import(p) ==
  /\ \E failed \in {0, 1} :
       LET s == IF failed = 0 THEN Normal(settings) ELSE Defaults
       IN /\ p \in Imports \ s.ids /\ SpendOutside(failed)
          /\ settings' = Normal([ids |-> s.ids \cup {p}, active |-> p,
                                 prof |-> [s.prof EXCEPT ![p] = NewProfile(p)]])
  /\ form' = settings'
  /\ clean' = FALSE
  /\ UNCHANGED <<config, auth, cmd, copy, before, latest, overwritten>>

\* SettingsStore::update in a launcher: the page changes a setting, the file is
\* read and written back as a whole. The setting itself is not modelled.
LauncherReads ==
  /\ copy = {} /\ Spend("outside")
  /\ copy' = {settings}
  /\ UNCHANGED <<files, form, cmd, history>>

LauncherWrites(s) ==
  /\ s \in copy
  /\ settings' = s
  /\ copy' = {}
  /\ clean' = (clean /\ Normal(s) = Normal(settings))
  /\ UNCHANGED <<config, auth, form, cmd, before, latest, overwritten, budget>>

\* The user edits config.toml, or Codex does. While a command runs it may be
\* written over; whose edit it is depends on the moment.
Edit ==
  /\ Spend("edits")
  /\ config' = [config EXCEPT !.edit = MaxEdits - budget'.edits]
  /\ IF Running
       THEN overwritten' = overwritten \cup {cmd.prev, cmd.set.active} /\ UNCHANGED latest
       ELSE /\ latest' = [latest EXCEPT ![settings.active] = config'.edit]
            /\ overwritten' = overwritten \ {settings.active}
  /\ UNCHANGED <<settings, auth, form, cmd, copy, before, clean>>

\* The manager is killed and opened again, and shows the settings it reads, the
\* default ones when it cannot.
Reopen ==
  /\ cmd' = Idle /\ before' = <<>>
  /\ \E failed \in {0, 1} :
       /\ SpendOutside(failed)
       /\ form' = IF failed = 0 THEN Normal(settings) ELSE Defaults
       /\ clean' = (clean /\ ~Running /\ failed = 0)
  /\ UNCHANGED <<files, copy, latest, overwritten>>

Next ==
  \/ \E p \in Ids : Choose(p) \/ Import(p)
  \/ Capture \/ CaptureUnread \/ Save \/ Load \/ BeginRestart \/ Apply \/ ApplyUnread \/ WriteAuth \/ WriteConfig \/ Check
  \/ Error \/ UndoSettings \/ UndoConfig \/ UndoAuth \/ UndoError \/ Finish \/ FinishUnread
  \/ LauncherReads \/ (\E s \in copy : LauncherWrites(s)) \/ Edit \/ Reopen

Spec == Init /\ [][Next]_vars

-----------------------------------------------------------------------------
\* The types of the files and of the manager's state.
SettingsType == [ids: SUBSET Ids, active: Ids, prof: [Ids -> Profiles(Owners, Edits)]]
TypeOK ==
  /\ {settings, form} \cup copy \subseteq SettingsType
  /\ settings.active \in settings.ids
  /\ config \in Configs(Owners, Edits) /\ auth \in Auths(Owners)
  /\ clean \in BOOLEAN /\ latest \in [Ids -> Edits]

\* Unless something breaks in from outside, every profile keeps its own
\* endpoint, whatever is backfilled into it from the live files, and however
\* often it is normalised.
EndpointsStayApart ==
  clean => \A p \in settings.ids : Kind[p] # "official" => settings.prof[p].up = p

\* No profile is ever given another one's key, not even when the live files
\* belong to another provider than the settings say.
KeysStayHome ==
  \A p \in settings.ids :
    {settings.prof[p].key, settings.prof[p].auth.key, settings.prof[p].config.token}
      \subseteq {p, None, NoAuthToken}

\* The ChatGPT login is somewhere after any number of switches to relays that
\* replace auth.json: in the file or in the profile that had it.
LoginSurvives ==
  clean => auth.login \/ \E p \in settings.ids : settings.prof[p].auth.login
             \/ (Running /\ before[3].login)

\* Profiles share two live files and still do not mix: endpoints, keys and the
\* ChatGPT login stay with the profile they belong to.
ProfilesStayApart == TypeOK /\ EndpointsStayApart /\ KeysStayHome /\ LoginSurvives

\* The last edit of a relay's config.toml is in the file while the relay is
\* active and in its profile afterwards, through any switches, failures and undos.
\* The code discards edits in two cases, which are exempt: those made before a
\* restart or a renewed choice of the active profile writes the profile over the
\* file, and those made while a command runs.
EditsSurvive ==
  clean /\ ~Running =>
    \A p \in settings.ids \ overwritten :
      Kind[p] # "official" =>
        latest[p] = IF p = settings.active THEN config.edit ELSE settings.prof[p].config.edit

\* A command that reports a failure leaves the profiles, the choice among them
\* and the provider in both live files as they were, unless its undo failed too or
\* wrote the default settings in place of some it could not read.
Provider(c) == <<c.active, c.base, c.token>>
FailureRestores ==
  [][(Finish \/ FinishUnread) /\ Step("failed") /\ clean =>
       /\ settings = before[1]
       /\ Provider(config) = Provider(before[2])
       /\ auth = before[3]]_vars

\* A restart that reports success leaves the live files of the active profile,
\* whatever state imports, deaths and failed undos had left behind.
RestartRepairs ==
  [][Finish /\ Step("done") /\ cmd.what = "restart" /\ settings = cmd.set
       => Live(settings, config, auth)]_vars

\* What a command reports is what it did: a failure left everything as it was,
\* a restart left the live files of the active profile.
ReportsAreTrue == FailureRestores /\ RestartRepairs

\* Seen between commands, a switch is one step: Transaction is implemented as
\* long as nothing breaks in from outside.
Transaction == INSTANCE SwitchTransaction WITH
  active  <- IF cmd = Idle THEN settings.active ELSE before[1].active,
  matched <- IF cmd = Idle THEN Live(settings, config, auth)
                           ELSE Live(before[1], before[2], before[3]),
  sound   <- clean
ImplementsTransaction == Transaction!Spec

\* The test switch_rolls_back_active_settings_when_live_write_fails: a switch that
\* fails gives the settings back. Not those it could not read.
SettingsRolledBack ==
  [][UndoSettings /\ cmd.what = "switch" /\ clean => settings' = before[1]]_vars

\* Nobody's requests are sent back to the proxy they came from: the address the
\* proxy forwards to is never its own.
UpstreamIsNotTheProxy == \A p \in settings.ids : settings.prof[p].up # Proxy
=============================================================================
