# A TLA+ model of JanCode (Codex++)

JanCode starts the Codex desktop app, injects its own user interface into it
over the Chrome DevTools protocol, puts a proxy between the app and the user's
model providers, and keeps the app's session history consistent when the user
changes provider. It is a Rust workspace: `crates/codex-plus-core` (proxy,
bridge, launcher, settings), `crates/codex-plus-data` (session history) and the
programs in `apps/` (a silent launcher, a manager with a window, a server that
relays between phones and desktops).

This directory holds specifications of the parts where several actors meet, the
TLC configurations that check small instances of them, and TLAPS proofs of the
properties that carry the rest. Paths below are relative to the repository.

## Inventory

| component | state | operations | what is hard |
|---|---|---|---|
| provider-sync lock (`codex-plus-data/src/provider_sync.rs`) | an OS file lock, the directory `tmp/provider-sync.lock` with `owner.json` | acquire, isolate a stale lock, release, inspect | separate system calls, processes that die anywhere, reused pids, older launchers that know only the directory |
| manager restart (`commands.rs`, `watcher.rs`) | none of its own | wait until no synchronisation runs, kill launchers, spawn one | looks at a lock it does not hold |
| provider-sync engine (`provider_sync.rs`) | rollout files, SQLite databases, global state, backups | one synchronisation, restore, prune | the app writes at the same time, errors and crashes between steps, the user switches provider |
| relay rotation (`relay_rotation.rs`) | one global selector behind a mutex | select, peek, record outcome, fallbacks | requests minutes long share the selector while settings change |
| proxy request loop (`protocol_proxy.rs`) | a request's list of candidates | try, fail over, give up | outcomes recorded against whatever selector there is by then |
| bridge (`bridge.rs`) | the page's callbacks, a generation per target, a CDP session per installation | install, receive a call, settle a promise, close | several sessions of one page at once, answers out of order, reloads |
| Chat/Responses converters (`protocol_proxy.rs`, `models.rs`) | per-stream parser state; the history comes with each request | convert a history, convert one chunk of a stream, end the stream | tags, names and ids cut by the chunks, pieces late or twice, calls without answers |
| mobile relay (`codex-plus-mobile-relay`) | rooms of peers, counters | register, forward, unregister | reconnects racing clean-up, read errors that skip it |
| launcher and watchdog (`launcher.rs`, `codex-plus-launcher`) | guard, helper port, the app's process and debug port | take over, launch, inject, reinject, leave | a launcher taken for stale, an app that restarts, a page that is busy |
| settings and relay switch (`settings.rs`, `relay_config.rs`, `relay_switch.rs`, `provider_import.rs`) | `settings.json`, `config.toml`, `auth.json` | save, apply, undo, import, restart | several files changed one after the other, several writers |
| session storage (`storage.rs`, `backup.rs`) | SQLite rows, rollouts, the session index, undo backups | delete, undo | partial failure over several stores, the app writing meanwhile |
| WeChat connection (`connect/`) | the loop, a saved cursor, threads, a child process | poll, ask, answer, stop | repeated messages, timeouts, a child that dies, late notifications |
| vision proxy (`vision.rs`) | a cache of descriptions, permits, background tasks | analyse, replace images, cut to the room | batches in any order, several requests, budgets |

The rest (skins, skills, plugins, account services, platform code, user
interface) is sequential file handling or presentation. `PROJECT.json` lists
every component with its status.

How they interact: the launcher acquires the lock and runs the engine before it
starts the app; the manager runs the engine after a switch of provider and
restarts launchers; the page calls routes through the bridge; the app sends its
requests to the proxy, which asks the rotation for a relay, lets the vision
proxy replace images, converts the history and then the answer. The manager's
relay switch writes the files the app and the proxy read; a launcher saves
settings of its own into one of them. Launcher and manager both delete sessions.
The phone reaches the desktop through the mobile relay, WeChat through the
manager.

What is composed: the restart with the lock itself; the engine with the lock's
promise (`SyncMutex`: one synchronisation at a time); the rotation with the
request loop; the two converters with each other, so that what a stream produced
is the history of the next turn; the switch with imports, launchers and the
restart around it. The bridge and the launcher meet in one variable only
(`page.bridge`, whose bridge the page has), so each is checked against that and
not against the other's steps. Where components share a proof module the names of
their specifications are their own: `BridgeSpec` and `RotationSpec` beside the
launcher's, `SyncSpec` beside the lock's, `TalkSpec` for the conversation.

## Modules

| module | models | checked by |
|---|---|---|
| `SyncMutex` | the abstract lock: a holder, or none | implemented by `ProviderSyncLock` |
| `ProviderSyncLock` | the lifecycle lock, one action per system call | `lock` |
| `ProviderSyncRestart` | `restart_codex_plus` beside the lock (extends it) | `restart` |
| `ProviderSync` | one synchronisation, repeated | `sync` |
| `RelayRotation` | selector and request loop | `rotation` |
| `BridgeSession` | page, sessions and generations | `bridge` |
| `ChatHistory` | a Responses history made into Chat messages, as functions | through `ProxyConversation` |
| `ChatStream` | a Chat stream made into Responses events, and the app that reads them | through `ProxyConversation` |
| `ProxyConversation` | both, turn after turn | `conversation` |
| `MobileRelay` | connections, rooms, channels | `relay` |
| `RelayProfileConfig` | what a profile and the live files make of each other, as functions | through `RelaySwitch` |
| `SwitchTransaction` | the abstract switch: completely or not at all | implemented by `RelaySwitch` |
| `RelaySwitch` | the switch, the restart, the import and those around them | `switch` |
| `LauncherLifecycle` | launchers around one app | `launcher` |
| `SessionStorage` | delete and undo of one session | `storage` |
| `WeixinConnect` | the WeChat loop, its commands, the app-server child | `weixin` |
| `VisionAnalysis` | images of a conversation replaced by descriptions | `vision` |
| `MC*` | constants and symmetry of the instances | |
| `*Proofs` | theorems about the module they are named after; `LauncherProofs` is about `LauncherLifecycle`, `BridgeSession` and `RelayRotation`, `ProviderSyncProofs` about the engine, the lock and the restart | TLAPS |

### ProviderSyncLock

`os` is the file lock, `dir` what is at the lock path: is it there, its owner,
its age in the three classes the code tells apart. `pc` says where each process
is: `TryLock` is `acquire_lock_inner` up to the file lock, `CreateDir` and
`WriteOwner`/`WriteOwnerFails` the two halves of `create_lock`, `ReadOwner`,
`InspectOwner`, `Judge` and `Rename` the steps of `isolate_stale_lock`,
`CreateDirAgain` the second `create_lock`, `Release`, `RemoveDir` and `Unlock`
what the guard does when it is released or dropped. `Verdicts` is
`classify_lock`, with the choice between "held" and "stale" left open where the
process table may be unreadable. `Crash` and `Start` kill a process at any step
and let its pid come back with a new birth time. `Legacy*` are older launchers,
modelled from the comments on the compatibility directory.

Two things are assumed and named. An older launcher's directory does not
outlive the grace period while its owner file is being written or removed (the
guard of `Age`; the comment on `LOCK_INTERRUPTED_GRACE_SECS` says it takes
milliseconds). And `LegacyReplaced` says whether an older launcher may follow
another inside the look at the process table; the run `lock` and some proofs
exclude it (see Disagreements for what happens without the exclusion).

### ProviderSyncRestart

`mgr` follows `restart_codex_plus`: `Look` and `Decide` are one round of
`wait_for_idle_provider_sync`, `Kill` stops the enumerated launchers one at a
time, `Spawn` starts a silent one. `ongoing` is history: the synchronisations
that ran when the restart began and still run.

### ProviderSync

A rollout is its `session_meta` provider and the number of events behind it; a
database is the provider of its rows (the repair of catalog rows is part of
the same step, `UpdateDb`). `Begin` to `Prune` follow
`run_provider_sync_with_target_in_home`: read the target, collect, validate the
target again, back up, rewrite each rollout, update databases and global state,
prune. The rewrite of a file is two steps (`OpenRollout` truncates,
`WriteRollout` writes); a file whose rewrite was cut short is empty in the
model, which stands for every partial text. `Restore`/`RewriteRollout` are
`restore_session_changes`. `Fail` is an error at any step and goes where the
code goes: into the restore from the databases on, out of the run before.
The app is modelled with the exclusive open of Windows: it cannot append to a
file while that file is open for its rewrite.

### RelayRotation

`selector` is `GLOBAL_SELECTOR`. A request reads the settings (`Arrive`), asks
for a relay (`SelectRegular`, `SelectMember`, `PeekMember`), tries the candidates
(`Send`, `GiveUp`) and tells the selector how each went (`Record`). Each step
that holds the selector's mutex is atomic; anything may happen in between. The
strategies are the operators `NextRequest`, `NextWeighted`, `ForConversation` and
the failover index in `Choice`. `picks`, `home`, `mixed` and `solo` are history.
`Proper` says of an aggregate what the manager lets it be: each profile is a
member at most once (`toggleMember`, `App.tsx:8492`), with any weight, which the
code clamps. The routes of a model are the targets of the patterns it matches, in
the order of their priority; where they lead to no member they are skipped. A model
route of a relay that is no aggregate is refused if it leads to the relay itself or
to one that speaks Chat Completions.

### BridgeSession

One session per installation. `Connect`, `AddBinding`, `AddScript`,
`EvaluateScript` and `Publish` are the steps of `install_bridge` at which
something changes for somebody else; `Enqueue`, `Finish` and `CloseSession`
are the message loop; `Settle` is the evaluation of the settling script in the page. A
message holds the request id, which the code sends, and the call it stands for,
which it does not: the difference is what `PromiseGetsItsOwnResult` is about.

### ChatHistory, ChatStream and ProxyConversation

`ChatHistory` is the conversion of a request. `Take` is one round of the loop of
`append_responses_item_to_chat` and its helpers over the items (calls collected
and flushed, reasoning handed on, outputs placed), and
`ChatMessages` passes the result through the corrections that follow: the
pairing of calls and outputs, images moved out of tool outputs, system messages
collapsed into the head, reasoning put where a relay demands it. An item is its
kind, its call's id, its role and its position, which stands for its text.

`ChatStream` is the other direction. `conv` is `ChatSseState`; the operators named
like its functions take a state and give a state with the events written in
`out`. `Chunk` lets the relay send any chunk of a set; `DoneMarker`, `ErrorEvent`,
`Eof` and `Broken` are the ends a stream can have. The app rebuilds its items from
the events, so that the properties speak of what the app ends up with. Tags are cut
in two halves so that a tag may be split between chunks. A chunk says of a list of
calls also whether it is there at all (`called`), because an empty one ends the
reasoning like any other; an id may be absent, empty (`Blank`) or given. Of a relay it
is assumed that a chunk speaks of a call once (`StreamAssumption`), and that it numbers
its calls from 0 on, keeps the id and the name it gave one and does not follow an id
with an empty one (`KeepsItsWord`; Observations says what happens otherwise). The loops of the
code over the calls of a chunk, over finished items and over a history (`TakeTools`,
`FinalizeTools`, `OutputItems`, `TakeAll`) are recursive functions, and what is sifted
is joined from pieces (`Within`, `Without`). `Vocabulary` are the words that are
followed from the chunks to the app; reasoning that comes beside the text has other
words (`TalkAssumption`), so that the two are told apart in what was sent.

`ProxyConversation` lets the app write any history, lets a turn be answered, and
adds what was received, with the outputs of its calls, to the history. `draft`
is the conversion of that history so far; it is a function of `items` kept as a
variable so that each history is converted one item at a time.
`StreamAgreesWithWhole` compares what the app has from a stream with what the
conversion of the whole answer (`chat_completion_to_response`) would have given it: reasoning,
text up to leading white space, the calls with their ids, names and arguments, and
the status of the response. It does not compare the order of the items, and it
exempts what the two conversions are known to treat differently, by name (`Comparable`).

### MobileRelay

A connection has a task that reads (`conn[c].pc`), and a writer that empties its
channel (`writing`, `channel`). `Register`, `Reject`, `Receive` (which looks up the
receiver under the mutex), `Send` (without it), `Unregister` and `ReadError` are
the reader's steps, `WriteOut` and `WriteError` the writer's. A message is its sender and a number;
`routes` and `got` are history. A read error leaves by `?` without
unregistering, and a replaced connection still forwards until its close arrives:
both are in the model as they are in the code.

### RelayProfileConfig, RelaySwitch and SwitchTransaction

`RelayProfileConfig` holds `relay_config.rs` as functions over a reduced
`config.toml` (endpoint, bearer token, the user's own edit) and `auth.json` (key,
login). Owners name values: an endpoint `p` is profile p's own. The kinds of profile
(`Kinds`) are those with rules of their own: a key of its own with the Responses or
the Chat protocol or with routes to other relays for some models, no key at all, the
official login with a relay's key mixed in, and the official login alone. `RelaySwitch`
has the steps of `switch_relay_profile` (`Choose` to `Check`), each with its I/O
error, and the undo in its three writes (`UndoSettings`, `UndoConfig`,
`UndoAuth`), which can fail too. Settings that cannot be read do not stop a command
(`unwrap_or_default`): `CaptureUnread`, `FinishUnread` and the failing reads of `Import`
and `Reopen` go on with `Defaults`, and an undo then writes those. An official login
also takes a `config.toml` it cannot read for an empty one (`ApplyUnread`). The
restart's application of the active profile goes through the same actions.
`Import`, `LauncherReads`/`LauncherWrites`, `Edit` and `Reopen` come from outside.

`before`, `latest`, `overwritten` and `clean` are history. `latest` is the last edit of
each profile's `config.toml`, and changes with an edit and with nothing else.
`overwritten` are the profiles whose last edit a command may have discarded, which the
code does in two cases: a restart, or choosing the active profile again, writes the
profile over what the user changed in the file since its last use; and an edit made
while a command runs may be written over by it. An edit of such a profile between
commands takes it out again. `clean` is false from the moment something happened that
the code does not guard against: an import, a lost update, a death in the middle of a
command, a failed undo, an undo that wrote the default settings because the real ones
could not be read, a window that shows them. What is promised only without that
says so by it.

`SwitchTransaction` is what a switch promises: the provider and the live files
change together or not at all. It is implemented under the mapping that shows
the files as they were until the command is over.

### LauncherLifecycle

`me[l].pc` follows a launcher through `main.rs` and `launch_and_inject`: guard,
judgement of the holder, kill, preparations, helper, app, injection, and
`wait_for_codex_exit`. The helper's port is chosen as the platform does: on a Mac, and
for the protocol proxy everywhere, a busy port is waited for and given up in the end;
on Windows without the proxy another one is taken. On a Mac the app is opened in
three steps with awaits between them: does it run (`LaunchCodex`), has it a debug port
(`FindPort`), then it is asked to quit (`QuitApp`). The watchdog is a process of its
own inside a launcher (`watch`), with one round in three steps (`Tick`, `Probe`,
`Reinject`), because the page and the app change in between. What `Probe` asks is the
page's heartbeat and not whose bridge it has: `page.beat` says that a call got through
within the 5 or 15 seconds of `bridge.rs`; it may be lost with the bridge in place
(a page that slept) and outlive the bridge for a while (`BeatFades`). `page.sound` is
history: the heartbeat was never lost since the injection. A visitor (`visitor`) is a
launcher that found another one serving and only opens the app. `Outside` is the app,
its page, the user and the system.

### SessionStorage

`Delete(a)` goes through the databases in order: backup, transaction, rollout,
indexes, and merges the candidates' results; `Undo(a)` checks every backup and
then restores each in its own steps. Any call may fail (`Fails`), any process may
die (`Crash`), the app may write (`AppWrites`). Rows and the rollout are versions:
1 is what was there first, what the app writes has a higher number. `at` is
history: when an undo was checked, if it was alone then (`Undisturbed`).

### WeixinConnect

`loop[r]` is one call of `run_weixin_connect`, with what it holds in memory
(`mem`), its batch, and its app-server child with the notifications still in its
pipe. A message is its position in `Inbox`; the gateway may repeat the last
`Overlap` of them. `Start`, `Stop`, `ShowStop` and `Restart` are the commands of the
window and the death of the manager. `replies` and `handled` are history.

### VisionAnalysis

A conversation is the sequence of its messages, each the sequence of its images.
`req[r]` is what `vision.rs` makes of one request, `job` the analyses that are
under way for it and in its background: batches that start when a permit is
free, end in any order, fail, or are given up when the time limit strikes.
`cache` is the shared cache. A description remembers which images its batch held
(`of`), so that a description told for another image is seen. The cut of the
texts to the room (`Cut`) is the function the code applies from the newest
message backwards.

## Runs, bounds and results

Each run takes between seconds and three and a half minutes with two workers.
Deadlock is checked for the lock, the restart and the engine; the others stop
when their bounded requests, calls, starts or faults are used up.

| run | bounds | states | shows |
|---|---|---|---|
| `lock` | 2 processes, 1 older launcher, 3 ids, 2 incarnations | 18,540 | mutual exclusion, only orphans are reclaimed, `SyncMutex` is implemented, the lock is never wedged |
| `restart` | 2 launchers, 2 polls | 88,872 | what ran when the restart began is over before the kill |
| `sync` | 2 rollouts, 1 database, 2 providers, 3 environment events, backups kept: 2 | 839,494 | events kept, backup before the first write, success means uniform, late failures are taken back, convergence |
| `rotation` | 3 requests in 2 slots, 3 members, 1 conversation, 1 edit | 1,698,024 | fair shares, conversations keep their member, only and all own members are tried, failover stays with the server |
| `bridge` | 2 installations, 2 calls, 2 faults | 46,787 | handled once, generations advance, calls are answered |
| `conversation` | 4 chunks, 2 tool slots, 4 items, answers to histories of 1 item | 469,966 | calls stay paired with their outputs, nothing of a history is lost or told twice, the stream is well formed and says what the whole answer would |
| `relay` | 3 connections, 1 room, 2 tokens | 123,057 | slots and counters agree with the connections, messages reach the partner in order, the replaced leave |
| `switch` | 5 profiles of 5 kinds, 2 commands, 2 errors, 1 edit, 1 outside event | 766,973 | profiles do not mix, edits survive, reports are true, `SwitchTransaction` is implemented |
| `launcher` | 2 launchers, 2 starts, 2 attempts, 2 outside events | 179,826 | one serves and has its helper, a working app is left alone, a lost page is served again, launchers end |
| `storage` | 2 processes, 2 databases, 2 operations, 1 write, 2 faults | 2,591,965 | what is removed is backed up, reports are true, an undo nobody disturbs overwrites nothing |
| `weixin` | 2 contacts, 2 runs, 1 remembered message, 1 fault, 1 cut | 272,806 | contacts stay apart, messages are handled once by one run, a stopped run stops |
| `vision` | 2 requests, 4 images in up to 4 messages, batches of 2, window 2, depth 3 | 358,338 | descriptions stay with their images, within budget and room, the newest round is told |

Why these bounds are enough. Lock: a hazard needs a process that judges, one
that holds and one that left a directory behind; the third is a dead
incarnation, so two processes, one older launcher and two incarnations contain
them all, and the proofs below remove the bound. Engine: the shortest failure
of each kind takes one event (an error, a crash, a switch, a write); three
allow every pair and one more in between. Backups: with two kept, the third run
prunes. Rotation: a shared index goes wrong with two requests in flight; the
third sees the damage, and the proofs remove the bounds. Bridge: a handover has two generations; a mixed-up
answer needs two calls. Conversation: a tag is cut in two and text before and
after it makes four chunks; a call, its output, a message between them and one
after make four items. Relay: a partner, a peer and its replacement; proofs
remove the bound for the registry. Switch: there and back, or there and a restart;
an error and an error of its undo, or of the read before; profiles of five kinds, one
of them imported (a relay without a key has a run of its own under Disagreements);
the proofs remove the bounds.
Launcher: a serving one and a second that judges it; the second outside event
finds what the first left behind; the proof removes the bounds for the service.
Storage: merging needs two databases, a conflict two operations, and an error
during the undo of a failed deletion two faults; the proofs remove the bounds.
WeChat: a turn's rest is another contact's answer with two
contacts; a run that is left meets its successor. Vision: three images in one
message are two batches; four messages reach beyond the window and the depth.
Where states are enumerated up to symmetry, no liveness property is checked in
the same run.

Some properties are conjunctions of parts that are named and commented where
they are defined (`RegistryConsistent`, `ReportsAreTrue`, `VisionSound`, ...): a
run checks the whole.

Fairness. `lock`: a process keeps taking its steps, an error that need not
happen does not happen for ever (strong fairness of the file lock, the owner
file, a readable process table and the rename), dead processes are started
again (the program is launched again), time passes. Nothing is assumed of
crashes; the bound on incarnations makes them finitely many. `sync`: a run that
began goes on, the user quits the app from time to time and launches again.
`bridge`: the polled session handles its messages, handlers end, the browser
delivers, an installation under way proceeds because its commands have
timeouts. Nothing is assumed of calls, reloads or lost sockets, nor of the
moment a superseded session notices that it is. `relay`: forwarding and writing
go on (weak fairness: a task of the runtime that can run does), and a peer that
is sent a close hangs up although it may have messages to read first (strong
fairness, since a websocket answers a close and a dead one gives an error). `launcher`: the threads of a live
process run, an app that starts opens its port, a busy page answers in the
end, and the heartbeat of a page without a bridge gets old, because time passes; no
heartbeat has to return, no app has to quit and no user has to do anything. `weixin`: a run goes on,
because its polls, its requests and its turns have time limits. `conversation`,
`rotation`, `restart`, `switch`, `storage` and `vision` assume none. In `vision` it
is the code's limit of 120 seconds that keeps a request from waiting for
permits for ever; the model has that limit as an action and no property about it.

### Disagreements

Where the program does other than one of its documents or comments says, the
modules state the claim as a definition that no run lists, because it does not
hold. Each can be reproduced by adding it to the cfg named, with the constants
changed as given. All need an unlucky moment or a particular configuration.

| claim | reproduced by | what happens |
|---|---|---|
| `MutualExclusion` | `lock.cfg`, `LegacyReplaced = TRUE` | an older launcher's lock is taken after a verdict about its predecessor's |
| `RestartNeverInterruptsSync` | `restart.cfg` | a synchronisation that began after the look is killed |
| `SkippedRestoresRollouts` | `sync.cfg` | an error on the second rollout leaves the first one rewritten by a run reported as skipped |
| `OwnBackupKept` | `sync.cfg`, `ClockGoesBack = TRUE` | local time goes back and the newest backup is pruned |
| `UnavailableMemberHarmless` | `rotation.cfg` | a member without a key refuses requests that others could serve |
| `ConversationNeverStrays` | `rotation.cfg`, `MaxRequests = 4` | an old request ends and a conversation changes its member |
| `PromiseGetsItsOwnResult` | `bridge.cfg` | after a reload a late answer settles another call's promise |
| `StreamedTextIsTheText` | `conversation.cfg` | white space behind the closing tag of inline reasoning is dropped from a whole answer (`strip_think_answer_separator`) and told by a stream in which it comes with a later chunk than the tag |
| `SettingsRolledBack` | `switch.cfg` | a switch that fails gives the settings back (the test `switch_rolls_back_active_settings_when_live_write_fails`); when they could not be read before, it writes the default settings over all profiles (`relay_switch.rs:30`, `:52`) |
| `UpstreamIsNotTheProxy` | `switch.cfg` with `Ids <- MCNoAuthIds`, `Imports = {}`, `Default = "o"`, `Kind <- MCNoAuthKind`, `MaxCommands = 2`, the other bounds 0 | a relay without a key is given the proxy's own address as its upstream; `relay_config.rs:3027` writes it, `protocol_proxy.rs:966` takes it for the relay's |
| `DegradedKeepsTrying` | `launcher.cfg` | a launch that gave up on the page starts no watchdog (`launcher.rs:459`); the page is not served when it comes |
| `OfferedUndoWorks` | `storage.cfg` | the row is gone, the rollout could not be removed; the deletion is a failure with a token for undoing it, and the undo refuses because the rollout is there |
| `ContactsApart` | `weixin.cfg`, `LateEnd = TRUE` | notifications are not matched to a thread or a turn (`app_server.rs:247`): what ends late ends the next contact's turn, though each contact is said to have a session of its own (`App.tsx:4106`) |
| `AnsweredOnce` | `weixin.cfg`, `Inbox <- MCLongInbox`, `Overlap = History = 3` | a message passed over by a stop is marked late; as the newest mark it pushes out one that is still in the gateway's window (`session_store.rs:38`), and that message is answered again though no run was cut for it. Needs a window of more than 256 messages |
| `StatusSettles` | `weixin.cfg` | the run ends before the stop command writes "stopping" (`commands.rs:1383`), which then stays |

### Observations

Behaviour met while modelling that no property judges, for the reader of the
code; the models contain it unless the list under "Left out" says otherwise.

- Switch: an import makes a profile active without writing the live files; a
  failed read-back after the save returns without undoing (`relay_switch.rs:41`);
  a kill between the save and the live writes leaves them apart until the next
  restart; a launcher that saves a setting may undo a switch made since it read.
  Settings that cannot be read count as the default ones in the switch
  (`relay_switch.rs:30`), in the answer to a failure (`commands.rs:4445`), in the
  import (`provider_import.rs:118`) and when the window opens; each may end in a
  save that loses the profiles. A restart, and choosing the active profile
  again, discard what the user changed in `config.toml` since its last use; a
  command discards what is changed there while it runs.
- Launcher: one that has not opened its app yet looks stale and is killed
  (`main.rs:138`); on a Mac an app that is still starting has no debug port yet and is
  made to quit; a probe without an answer forgets earlier failures; a page that
  slept is injected again although its bridge is intact; a launch ends after a skipped
  synchronisation. A launch that fails before it has reached the page leaves the app
  open and takes its helper down (`keep_launched_on_error`), so that an app whose
  `config.toml` names the helper finds none until the next launch.
- Storage: a deletion is reported though another database failed; an undo over
  several backups is not atomic; a rollout restored may replace one that came
  since the check, from the app or from another process that undid and was done
  by then (four operations; only the rows are looked at again); failures of the index are ignored; what the app wrote between
  backup and removal is gone.
- Stream: a truncated stream is reported as completed; reasoning may arrive after
  the text of a finished item; chunks are still handled after an error event. An empty
  `tool_calls` list in a chunk ends inline thinking and closes the reasoning item
  (`protocol_proxy.rs:1640`), and what is thought after it is lost. An empty id in a
  later piece of a call replaces the one it had (`protocol_proxy.rs:1879`, where
  only the name is looked at): a relay that repeats empty ids gets a call without an
  id into the history. A call without a name is "unknown_tool" in a stream and has an
  empty name in a whole answer; empty arguments stay empty in a stream and become `{}`.
- Relay: a read error leaves the slot occupied and the connection counted until
  the peer reconnects; a replaced sender forwards until its close arrives; the
  channels have no bound.
- WeChat: the cursor is saved before the messages behind it are handled; a stop in
  the middle of a reply leaves the message unmarked; a state file that cannot be
  read counts as none.
- Vision: the text of a batch is cached and told for each of its images; a cut text
  with its mark is longer than the room it was cut for, so that
  `vision.rs:1169` removes the message it had just cut, also the current round's; images
  beyond the depth are removed without a word, and failed earlier rounds are
  skipped; the analysis is repeated for every candidate of a failover.

### Slips

Operators commented "Slip" are plausible mistakes in the code (a dropped guard,
an index that does not wrap, a missing reset). `PROJECT.json` pairs each
property of a run with one; putting it in place of the definition makes TLC
report that property.

## What is proved

For every value of the constants: any number of processes, ids, incarnations,
installations, calls, connections, rooms, launchers, databases, members and their
weights, requests, faults.

`ProviderSyncProofs`, the lock and the restart beside it
- `TypeCorrect`, `OsLockHeld`: type correctness, and that whoever is past the
  first step of an acquisition owns the file lock.
- `ClaimsInvariant`: the inductive invariant `IInv`. A peer has a *claim* from its
  mkdir until the directory is gone. There is one claim, and the directory is the
  claimant's. Mutual exclusion alone is not inductive, because what a process
  renames was judged earlier: `Judging` and `Decided` carry over what the reader
  saw (a young directory without owner, or the owner file of the very
  incarnation that holds it), and neither is judged stale.
- `MutexHolds`, `OwnerStays`, `OnlyOrphansReclaimed` follow from it. All four
  assume `~LegacyReplaced`; the first line of Disagreements shows that they must.
- `LockImplementsMutex`: among processes of the current protocol the lock
  implements `SyncMutex`. It needs no assumption about older launchers.
- `RestartTypeCorrect`: the state's shape, and that no manager polls past its
  bound.
- `WaitProtectsOngoing`: `OngoingSyncSurvives`. A synchronisation that the manager
  found at work has its directory or its file lock until it ends, so the wait
  cannot come to an end before; the argument uses the lock's invariant and so
  assumes `~LegacyReplaced` too.

`ProviderSyncProofs`, the engine
- `ShapeHolds`: type correctness, and what every later argument uses: a plan holds
  no text of the target or without provider (so an emptied file is never in one),
  and a rollout is under way exactly while it is being written.
- `EventsHold`: `EventsKept`. It is inductive with one more fact, that the text about
  to be written to the rollout under way has all its events (`Events`).
- `SyncedIsUniform`: `SyncedMeansUniform`. Up to the end of a run without error a
  rollout is at the target, left to write or reported as skipped (`Uniform`), and
  `Progress` says what each point of the run has behind it.
- `FailureRestores`: `LaterFailureRestores`. `Planned` follows each rollout of the plan:
  written, and then at the target with all its events, or at its own provider, or
  grown. It is why a rollout the restore leaves alone has grown.
- `BackupHolds`: `BackedUp`, with the whole plan in the backup (`Backed`).
- `OwnBackupHolds`: `OwnBackupKept`, assuming `~ClockGoesBack`: no name is later than
  the clock (`Dated`), so the newer ones are suffixes of the run's own second, and
  there are fewer than `Keep` of those. Disagreements shows that the assumption is
  needed.

`LauncherProofs`, the bridge
- `BridgeIsTyped`: type correctness.
- `CallsInvariant`: `HandledOnce` strengthened by what makes it inductive: only
  calls that were made are in an inbox, a call outside a handover is received by
  one running session only, and what a superseded session has received it does
  not take any more.
- `RequestsHandledOnce`, `GenerationsAdvance` follow.

`MobileRelayProofs`
- `RegistryHolds`: `RegistryConsistent`. The invariant is its four parts and that the
  numbers of connections are those given out (`Numbered`), without which "the
  latest holds the slot" is not inductive. The counts are handled as
  cardinalities of sets that gain or lose one element.
- `MessagesAreDelivered`: `DeliveredToPartner`. A receiver is a partner because the slots
  belong (`RoutingInv`). For the order the invariant (`Flows`) looks at what was written
  and what is in the channel as one stream: it holds only what was routed to it, each
  message behind those of its sender (`Behind`), without a gap (`Gapless`); as long as
  the writer runs it holds everything but what is in hand (`Complete`), and what is in
  hand is its sender's newest. A writer that stops leaves a beginning of its stream.

`LauncherProofs`, the launcher
- `ServiceHeld`: `ServiceHolds`. At most one launcher serves because whoever serves
  holds the guard (`GuardHeld`), which a kill gives back and an error path too; the
  helper is there from the moment it was started for as long as its launcher serves
  (`HelperServes`). `BeforeApp` says that a launcher becomes a visitor only on the
  way to the app, past the step that starts the helper.
- `WorkingAppIsLeft`: `WorkingAppLeftAlone`. The first half is an invariant of each
  watchdog (`Attends`): what it saw of the app is no older than what its launcher
  opened, so that "another app" is never said of that one, and a failed probe that
  calls for an injection found a page without a heartbeat. Such a page is not sound
  (`SoundBeats`), and only another injection makes it so, by this launcher after
  the probe, or by another one, whose bridge it then has (`Sound`). The second half
  is a case distinction: an app that is open is closed on the error path of a
  launcher that has injected its page, or by one that found no debug port.

`SessionStorageProofs`
- `RemovalsBackedUp`: `RemovedIsBackedUp`. What a process removes it has backed up,
  but the version it finds may have changed since. The invariant says of which
  versions that is harmless: the first version of a row, once the database is in
  any backup, is in a backup (`RowKept`, `FileKept`), because nothing but a backup
  that has it brings it back. With it goes that every token names a backup and
  that a process at work has one of its own database (`Placed`).
- `UndosOverwriteNothing`: `UndoOverwritesNothing`. The property is about an undo that
  was alone at its check and during whose passes nobody began anything or wrote. The
  invariant (`AloneInUndo`) turns that history into a fact of the present: as long
  as the count of operations and writes is the one noted at the check, the others
  are idle, and until the undo has restored a file none is in the way of a backup
  still to come. With an undo that is alone only when it restores, the property is
  false (Observations).
- `ReportsHold`: `ReportsAreTrue`. The invariant (`Story`) follows the first deletion
  and its undo: whatever a row, a job, the file or a reference lacks against what
  was there before is in a backup, and the token of that backup is among those the
  deletion has gathered so far (`DeletionStands`), that its result offers
  (`OfferStands`) or that the undo has still to restore (`UndoStands`); when none is
  left, everything is back. A failure's own token names a row that still stands, so
  that its undo refuses. `Swept` says the same of a deletion without a fault: the
  databases behind it are empty, and after one success so are the references. The
  types are an invariant of their own (`Bounded`).

`WeixinConnectProofs`
- `ContactsStayApart`: `ContactsApart`, assuming `~LateEnd`. The invariant says what
  the child still has to write for the turn that is read (`Reading`): nothing, if
  the answer has been taken or there is none, else the answer before anything that
  could end the turn; and that a thread held in the state file, in a run's memory
  or by a reply belongs to one contact (`Apart`). Disagreements shows that the
  assumption is needed.
- `OneRunHolds`: `OneRun`, with no assumption about the child: a run that exists is
  the one the commands know of (`Single`).
- `MessagesAreHandled`: `MessagesHandled`, whatever the child does. The invariant
  (`Handling`) has three parts. `Marks`: no mark is twice or beyond the cursor, and
  none is `Overlap` or more behind one made later. `Counts`: while a run is at work, a
  message it may still answer has been answered no more often than runs were cut
  before (`Allowed`); a run that is being stopped has its own cut for that. `Skips`:
  until a cut, what is before the cursor is not for Codex, handled or in the batch.
  It assumes that the window of the gateway fits twice into what is remembered
  (`WindowFits`: the code remembers 512): the invariant is false without, and so is
  `AnsweredOnce`, as Disagreements shows.

`LauncherProofs`, the rotation
- `RotationIsTyped`, `FailsOverThoroughly`: `FailoverIsThorough`. The invariant (`Standing`)
  has the types and what each request in flight stands on (`RequestStands`): what it has
  tried and what is left are members of its own aggregate it can use, each once, and
  together they are all of those. It holds because the fallbacks are the members met on
  the way round the circle (`FallbacksAround`), the unusable ones sifted out
  (`AvailableInSifts`), whatever the strategy chose first.
- `ConversationsAreKept`: `ConversationKeepsMember`. Until the settings are mixed, every
  request in flight has read what is on the disk (`Quiet`), so that no request resets the
  selector, and the selector's assignments are the homes (`Remembered`).
- `TurnsAreShared`: `FairShare`. The turns of a cycle are laid out one member after the
  other (`Laid`, `TurnsLaid`: `weighted_schedule`, and the circle as the case of equal
  weights), and the picks since the selector was made are the cycles so far and what the
  position in this one has passed (`Dealt`), whichever request took the turn. That the
  number of cycles is within the bound of the property is `Counted`: no request takes two.
- `FailoverSettles`: `FailoverFollowsServer`. For a request that has the selector to itself
  the candidates left are the members from the failover index on (`Settled`, `Aligned`):
  each failure takes one from the list and moves the index by one, in two places of the
  code that know nothing of each other.
- All five assume `RotationAssumption` only. What the schedule and the sifting compute is
  proved by induction over the length of their lists, for which they are written as
  recursive functions; `Induction` is the principle, for a set of numbers.

`RelaySwitchProofs`
- `FilesStaySound`: the half of the invariant that holds whatever breaks in
  (`FileInv`): what the store, the window and the import's copies hold are whole
  profiles with keys of their own (`Usable`; the default settings too), a command's
  step fits what it has read, and what it is about to write is the configuration of the active relay (`WriteInv`).
- `KeysAreKept` and `RestartsRepair` need no more: no profile is given another's key,
  and a restart that reports success leaves the live files of the active relay.
- `UndisturbedStaysSo`: the half for as long as nothing has broken in (`CleanInv`). It
  follows one command through its steps: the store and the window agree (`StoreInv`,
  `FormInv`), the saved profiles are what a second normalisation would make of them
  (`AllCanonical`), the live files belong to the active profile (`LiveInv`), and what
  a command keeps for its undo is what was there before it (`BeforeInv`), if it could
  read it. A profile's last edit is in the file or in the profile (`EditsKept`) unless
  it is `overwritten`; within a command that is carried as long as the profile it
  leaves or the one it goes to is not (`Quiet`).
- `ProfilesAreKeptApart`, `EditsAreKept`, `ReportsHold`, `SwitchesAreTransactions`:
  `ProfilesStayApart`, `EditsSurvive`, `ReportsAreTrue`, `ImplementsTransaction`. They
  assume that every relay has a key (`NeedsKeys`): the upstream of one without becomes
  the proxy's address (`UpstreamIsNotTheProxy` in Disagreements), and no profile is then what a
  second normalisation would make of it.

`VisionAnalysisProofs`
- `VisionStands`: the inductive invariant (`VisionInvariant`). Beside the types it says
  what each request stands on. A description in the cache or told belongs to its image,
  and so will those of the batches under way, because a batch is known by its place
  and its images are the ones the request waits for (`FoundDescribes`, `Under`). The
  descriptions told for earlier rounds and those awaited are within what has been
  counted, and that is within the cap. The newest images are still to come, under
  analysis or told (`NewestCovered`). What is said fits (`Fits`).
- `VisionIsSound`: `VisionSound` follows. The budget is about sums over all messages, and
  the cut about sums from a message on; both are recursive functions of the model, of
  which is proved first that they are functions and then, by induction over the length
  of their sequences, what one changed message does to the sum (`TotalChanges`).
  `Within` and `At` keep only what is in the conversation, `Recalled` adds no more than
  it is given, and `Results` gives each image the text of its own batch.

`ProxyConversationProofs`
- `TalkStands`: the inductive invariant (`TalkInv`), in two halves.

  The stream (`StreamInv`, over `Streaming`). `StreamSound` is not inductive: what the
  app will be given depends on what the converter remembers and has not told yet.
  While the relay speaks, the converter and an app that has read all of its events
  agree item by item (`Honest`): what is under way stands at its place, with what was
  shown of it (`Seen`), and what is finished was given once, as it was collected
  (`Given`). The words told, and those held back because they may begin with a tag,
  are together the words sent (`Telling`); this needs that nothing is told before the
  leading block is decided (`Undecided`). After the end the answer is settled
  (`HasEnded`). There is a lemma for each operator that writes (`PushDeltaHonest`,
  `FinalizeItemHonest`, `GivesCall`, `TakeChunkTells`, ...); the parts of a text around
  its tags keep its words (`WordsClosed`, `WordsOpened`, `WordsTrimmed`).

  The history (`Folding`). The calls of a message to which outputs can still be added,
  and the calls not flushed yet, are among those the items leave open (`Loose`,
  `OpenCalls`).
- `CallsStayPaired`: `CallsAnswered`. From a loose draft the passes make messages that are
  settled (`ChatMessagesSettled`): the pairing gives each call its answers at once or
  takes it away, and moving images, filling in reasoning and collapsing what the
  system said leave a call with its answers (`SpreadSettled`, `RestSettled`): none of them
  puts a message between two of a run of tool messages.
- `StreamIsSound`: `StreamSound`. The finished items are as many as the places given out, so
  that the output has them all, in the order of the places (`PlacesGiven`), each as the
  app was shown it.
- They assume `StreamAssumption` and `TalkAssumption` only.

The assumptions are the named ASSUMEs of the modules; TLC evaluates them in the
runs.

Only model-checked:
- the liveness properties (`NeverWedged`, `Converges`, `CallsAreAnswered`,
  `ReplacedLeaves`, `PageServedAgain`, `LaunchersEnd`, `StopEnds`), because TLAPS as used
  here has no fairness reasoning;
- `HistoryWhole`, which counts how often each item is told in all messages together
  and compares their order: the multiset and the order of a whole history would have
  to be carried through each of the five passes;
- `StreamAgreesWithWhole`, which compares two parsers of one text: for it the invariant
  would have to follow the tokens, white space and tags included, where it follows
  the words.

## Left out

- Contents: messages, bodies, SQL, TOML, paths and wording.
- The engine: the clean-up of the session index, encrypted-content warnings,
  the manager's inspection of backups, modification times.
- The rotation: health and statistics shown in the manager; streaming of the
  answer after its first bytes. An aggregate as the target of a model route, which
  is refused like the relay itself.
- The bridge: targets other than the one modelled. Generations are kept per
  target and do not meet.
- The converters: tool declarations, patch tools, usage numbers, re-encoding of
  images; audio, images and model listings, which are single requests.
- The switch: the layout of TOML, the model catalogue, MCP and plugin sections,
  the environment variables. Aggregate profiles: leaving one sets its mode again
  (`relay_config.rs:2734`), its files are those of the proxy (`:2784`, `:2833`, `:2934`),
  and the window edits its members (`App.tsx:10918`). The session identity "openai"
  (`:2855`): the name at the root of `config.toml` differs, endpoint and token are
  where they are for any other. Routes to other relays on profiles other than those
  with the Responses protocol and a key. An error of the window's own backfill,
  after which it sends the settings as they are, and the saves of its other forms.
- The launcher: what the helper serves, package activation on Windows, the
  app's arguments. The ages of a heartbeat are two classes, fresh and old.
- Storage: moving a thread to another workspace and the listings. Only rows and
  the rollout have versions: of the lines of the index and of the sidebar it is told
  whether they are there.
- WeChat: the login by QR code, the parts of a long reply, the notice that tells a
  contact of an error (`connect/mod.rs:227`, sent once, its own error ignored). A
  message is too old or not when it is sent; the code looks at its age when it is
  picked (`:175`), so that one that waits behind a slow turn for long enough is
  passed over without a mark.
- Vision: building and parsing the second model's requests, retries inside one
  call, the plain removal of images, the settings' test call. The lookups of one
  message's images are one step.
- Unix: file locks are advisory there, and an app that appends between the
  comparison and the truncation of a rollout loses the event
  (`provider_sync.rs:3274`). The model takes Windows.
- Skills: `skills.rs` serialises its changes per manager instance and makes an
  instance per command (`commands.rs:3746`), so that two commands could meet, and a
  crash in an update can leave neither the old copy nor the new one in place. No
  user interface reaches these commands, so nothing is modelled.
- The other components marked `not_modelled` in `PROJECT.json` keep no state that
  several actors share: they parse, format, draw, or call the system.

## Plan

1. Done: lock, restart, engine, rotation, bridge; converters, mobile relay, relay
   switch, launcher, session storage, WeChat, vision; the proofs above.
2. Next proofs: `StreamAgreesWithWhole`, with an invariant that says where the first
   closing tag of what was sent is; then `HistoryWhole`.
3. Next models: moving a thread between workspaces; the recovery of
   remote-control sessions; the switch composed with the engine.
