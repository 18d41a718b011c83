# A TLA+ model of the inverter desktop

This directory holds TLA+ specifications of the parts of the inverter desktop
application whose correctness depends on the order of events: who may run
plugin workers, how their processes are supervised and spoken to, how packages,
settings and the encrypted configuration survive failures and crashes, what the
dashboard shows of devices and entities that report in any order, what becomes
of a command, and which transport shows the installation. The modules are
translated from `src-tauri/src`, for the transport from `src/composables`, and
for the Home Assistant worker from `desktop-plugins/home-assistant`;
`PROJECT.json` maps every definition to the lines it models.

## The system

The application is a Tauri desktop program (Rust core, Vue front end) that
shows an inverter installation over MQTT or an HTTP gateway. Integrations
(Home Assistant, Frigate, Kerberos, Ring) are separate worker processes that
the core installs, starts, supervises and talks to over stdin/stdout.

| Part | State it keeps | Operations | What makes it correct |
|---|---|---|---|
| Unlock session (`auth.rs`) | `SESSION` (time of the last unlock, 15 minutes), the access policy in the configuration | login, biometric login, logout, expiry, status, revocation by a policy change | a session is only ever valid under the policy it was granted for |
| Session transitions (`plugins/bridge.rs`, `plugins/application.rs`) | the session gate, the declarations, the closing flag, the exit gate | `authentication_changed`, `recover_session`, `watch_session_expiry`, managed commands, exit | workers are authorized only while the program is unlocked; closing is final |
| Worker host (`plugins/runtime.rs`, `plugins/generation.rs`) | `Authority` (enabled, epoch), registry of entries, per entry: stop and done channels, snapshot, generation lease, process | register, supervise (spawn, handshake, run, reap, restart), revoke, resume, stop, remove, stop_all, shutdown | one process per plugin, bounded processes and restarts, nothing of a locked session is shown or leased |
| Action requests (`plugins/runtime.rs`, `plugins/protocol.rs`) | control queue, pending requests, writer queue, deadlines, credits | request, submit, first byte, reply, cancel, expire | no request is written for another generation, no first byte after a revocation, a generation that ends answers its callers |
| State emitter (`mqtt/lifecycle.rs`) | the active flag, the last emission, one pending snapshot, one scheduled flush | emit, flush, stop | nothing is delivered after stop; a burst ends with its newest snapshot |
| Package store (`plugins/installer.rs`) | `state.json`, content directories, staging litter, owned workers, lease file | install, enable, rollback, disable, remove, settings, restore, close, recovery | an inventory always refers to complete content; a failed update takes itself back; no crash loses a package |
| Application service (`plugins/application.rs`, `plugins/reconciliation.rs`, `plugins/management.rs`, `plugins/groups.rs`) | desired declarations, statuses, package reviews, the metadata cache | configure, reconcile, review and install, switch on and off, groups | the latest intent wins; what is listed is the inventory |
| Plugin settings (`plugins/settings.rs`, `plugins/settings_store.rs`, `plugins/migration.rs`) | one encrypted record per plugin, an open editor, namespaces of a backup | open, save, seed, back up, restore, retain, delete | no save is lost or overwritten; a secret stays a secret |
| Notification, video and media queues (`plugins/runtime.rs`, `plugins/media.rs`) | bounded queues, deduplication and rate windows, leases | present, take, acknowledge, open, close | limits, no delivery to a revoked lease |
| MQTT client (`mqtt.rs`, `mqtt/cerbo.rs`) | connection, devices by service and instance, merged state, notification slots, raw alarms, shutdown flag | connect, messages, expiry, dismiss, publish, stop | a stopped client emits nothing; a tile shows what the live device said; a banner is shown exactly while its slot asks for it |
| Gateway client (`gateway.rs`, `gateway/notifications.rs`) | last snapshot, visible banners, override status | poll, fail, stop | a control is offered only on the latest answer |
| Control commands (`inverter_control.rs`, `gateway_actions.rs`, `lib.rs`) | attempts with their request id and deadline | check, write once, confirm | a command is written at most once and reported as it went |
| Home Assistant worker (`desktop-plugins/home-assistant`) | connection, observations, discovered cards, grants, requests in flight | session, events, reads, discovery, actions | what is shown is current; a service call goes out only on an untouched grant and is answered truly |
| Transport attempts (`useConnection.ts`, `transportSession.ts`, `connectionPolicy.ts`) | the token of the current attempt, source and connected, four timers, the command in flight | connect, fail over, probe and switch back, wake, reconnect | one transport at a time; what is shown comes from the client that runs; MQTT is used when it can be |
| Configuration store (`config_store.rs`, `config_store/macos_key.rs`, `config_backup.rs`, `auth_password.rs`) | `config.json`, the installation key and its cache, the password verifier | find or make the key, load, convert, save, import | what is sealed can be opened at the next launch; the password and the owner of a credential stand |

The parts interact through three things. The *authority* of the worker host
(an enabled flag and an epoch) is what every plugin operation checks; only the
session transitions change it. The *entries* of the host are created by the
package store alone, which starts, awaits and removes workers. The
*configuration gate* and the *session gate* order saves and transitions. The
calls go from `auth.rs` and the commands of `lib.rs` to the bridge, from the
bridge to the application service, from there to the package store, and from
the store to the host; workers' answers come back through watch channels.
The front end reaches the clients by three commands (`connect_mqtt`,
`connect_gateway`, `disconnect_inverter`) and the clients reach it by events
that carry the token of the attempt that started them.

What is hard in this code is what happens between those calls: two transitions
that overlap, a session that expires while an update waits for a handshake, a
process that cannot be reaped, a crash between two renames, a second quit while
cleanup runs, a request in the pipe when its worker is replaced, a stop while a
state is being delivered, a failover that meets the answer of the broker it
gave up. `PROJECT.json` lists these hazards, each at its line.

## Modules

### WorkerHost

`WorkerHost.tla` models `runtime.rs` and the lease of `generation.rs`. An
*entry* is one `Arc<WorkerEntry>`; `sup[e]` is the place of its supervisor task,
`phase` the handshake phase inside `run_generation`, `proc` the operating-system
process, `stop` and `done` the watch channels, `reaped` the flag that decides
whether the slot may be reused. The snapshot is `state`, `generation` and
`shown` (it has contributions). A caller's operation (`op`, `at`, `awaited`,
`result`) is a task in `stop`, `remove`, `stop_all`, `wait_revoked` or
`shutdown`.

One action is one critical section, one `select!` branch or one statement after
an await: `Register`, the supervisor's `SuperviseLoop` … `SignalDone`, the
worker's `WorkerExits` and `LateReap`, the authority's `Revoke` and
`ResumeInEpoch`, and the steps of callers. The biased `select!` of
`run_generation` is modelled by any branch that is ready, which includes the
order the bias chooses. `revoke_epoch` stops and revokes all entries in one
step: it holds the authority lock over its whole loop. `watch::Sender::send` does not store
the value once the receiver is gone: `Raised` says so, which is why `stop` of a
returned supervisor stays as it was.

`PluginWorkers.tla` is what the host promises to those who use it: per plugin a worker
that is `none`, `starting`, `running`, `over` or `stuck` under one authority. It is launched only
under the authority and never beside one that is left, removed only when it is over, ended
with all others by one revocation, and revived by nothing but a new launch. `WorkerHost`
implements it (`KeepsContract`) under the mapping of each registered entry to its `Status`: the
snapshot's state while the session is the entry's, otherwise whether its process was reaped. An
entry of an ended epoch may still say `restarting` until its task returns; the one reader to whom
that matters is `was_running` in the package store, and `WasRunning` there allows for it.

### AppSession

`AppSession.tla` models the threads that run commands: login, biometric login,
logout, `save_config` (which may change the policy), commands managed by the
bridge (which may change the declarations), status with recovery, the watcher
and exit. A thread's `pc` names the await or lock it is at, and `owed` counts the
calls of `authentication_changed` it still has to make. The locks are
`cfgGate` (`CONFIG_UPDATE_GATE`), `sessGate` (the bridge's `session_gate`) and
`sessLock` (`SESSION`, held over several steps by `recover_session` only). The
host is reduced to its contract: enabled, epoch, stopped, and `work` for "some
worker is active", which revocation ends and a restore of the current epoch
begins.

`Init` is the state after `install` has made its first transition, which runs in
the application's setup before any command can arrive. A configuration that
cannot be decrypted may become readable (the key store was unlocked), never the
other way.

### PackageStore and PackageInventory

`PackageStore.tla` models `installer.rs`. The disk is the inventory (`inv`),
the complete content directories (`content`), those whose deletion was
interrupted (`broken`) and staging leftovers (`litter`). An operation holds the
operation lock while its `pc` runs through recover, stage, publish, stop, start,
await, write, rename, sync; `op.phase` tells applying from undoing. Any of
those steps may fail, the session may be revoked between any two, a worker may
end by itself, and `Crash` may strike everywhere: it keeps the disk and forgets
the rest. The host is its contract `PluginWorkers`, whose steps `WorkerChanges`, `Revoke` and
`Resume` take as they are (`Host`), so what the store relies on is what the host was shown to do:
a worker is `none`, `starting`, `running`, `over` (ended, and reaped unless its reap still fails) or
`stuck` (could not be reaped; registered and owned until the process ends). A stop and removal, which
the store awaits, is one step.

`PackageInventory.tla` is the promise to the user: the inventory only changes
by one legal change of one plugin, and while a change is undecided it may be
taken back exactly once, to exactly the inventory before it. `PackageStore`
implements it under the mapping `undo <- IF Undecided THEN {op.orig} ELSE {}`
(`RefinesInventory`).

### ActionPath

`ActionPath.tla` models the path of one action request through `runtime.rs`: the
caller's admission (`request`), the bounded control queue, the supervisor that
takes it, the pending table, the writer's queue, the first byte, the worker's
answer, the deadline, the cancellation of a dropped caller and the end of the
generation. `supervise` is reduced to a generation that begins, stops and ends.

- The biased `select!` of the loop is any ready branch, except that rejections
  are always taken before controls: only that order is used by a property.
- `locked` says that the writer holds the authority (and registry) lock between
  its check and its first byte; `revoke_generation` has to wait for it.
- The reader's queue is merged with the worker's answer, and an overflow of the
  rejection channel ends the generation, as in the code.
- A caller that has been answered (by its deadline, say) may still have its request
  written: the code does not promise otherwise.

### MqttClient

`MqttClient.tla` models one client from connect to stop: the reconnect loop and
its event handling (`run_mqtt_loop`), the keepalive tasks, the state emitter of
`mqtt/lifecycle.rs` with its pending slot and its one scheduled flush, the
window's hidden flag and `MqttClient::stop`. The state is the number of the
last message merged into it, which is all that "newest" needs. A task is
dropped only where it awaits, so an abort is seen at the next await. The 500 ms
between two emissions are longer than a task needs to deliver a copy it already
holds (`IntervalEnds`). The clearing of the ESS mode stamp is merged with the
clearing of the slot. `set_window_hidden` is a synchronous command, so its calls
never overlap each other, but they overlap the tasks.

### TransportLink

`TransportLink.tla` composes the front end's attempts with the native commands
and the clients they start. The composable has one owner, so an attempt is
current exactly while it holds the token: a stale flow returns at its next
await without an effect and is dropped at once, and so is a command that still
waits for its turn in `transportOperations`. A token nobody holds stands for a
fresh one, which keeps the space finite without a bound on replacements. The
native slots are `mq` and `gw`; `ghost` is a gateway poller that was stopped while
it applied a batch (an abort takes effect at its next await). Events are a
queue, since Tauri delivers a window's events in order. The state inside an event
is not modelled, only whose it is and whether it reports a connection.

### WorkerNotices and MediaService

`WorkerNotices.tla` models what a worker may put in front of the user: admission of
notifications and media requests under rates, queues and memories, and
`forward_changes` with its coalesced permits, its one signal and a dispatcher
that yields to media. Instants are ages in ticks. The ghosts `since` and
`repeated` remember what was really admitted, independently of the bounded
memories. The assumption `SeenHolds` is the relation of the code's constants
that makes eviction harmless (512 identities for 30 a minute in ten minutes).
The cooldown of media belongs to the grant of a request: 20 to 300 seconds for a clip or a preview
under `http_video`, 15 for a preview of a mapped camera (`Kind`, `Cooldown`). A clip without a
camera is kept under its `Title`. As in `queue_http_video`, each request sweeps the
memory of all cameras with its own cooldown, and `since.swept` remembers which cameras had outlived
that of some request since they were admitted.

`MediaService.tla` models `media.rs` and `media_windows.rs`: the task of each
request, the adapter that owns the native windows, files, range readers, the
revocation of a generation, the drain at shutdown and a crash with the recovery
at the next start. Destroying a window may fail (`stuck`). The bytes that entries reserve are a
set, `Reserved`, whose cardinality is the sum the code computes.

### PluginManagement, PluginSettings and ConfigStore

`PluginManagement.tla` is the application service above the package store: the
declarations on disk (`saved`) and in memory (`desired`), reconciliation from a
clone of them, reviews, selections, groups, statuses and the cached details. A
call of the package manager is one step that commits in the epoch of its
operation or not at all, which is what `PackageStore` shows. A pass ends early where the manager
refuses to restore, and whatever the worker of a plugin does a report may call it failed.

`PluginSettings.tla` is the record of one plugin with the editor's token, merge,
staging and commit, the seeds from an old configuration or from a backup's
namespace, the retained records, backup and restore. Two package versions have
schemas that move a field from ordinary to secret and drop others. A record may be there from the
start: one that an earlier application version left and no handover has marked (`Earlier`,
`Existing`), with values, secrets and cleared ones. `merge_seed` checks server (`SameBinding`) and account
(`SameAccount`), leaves what is there, and completes the list of entities to read once with what the old
configuration read (`MergeReads`); the joined lists are a function, and those for which the limit of
64 entities leaves no room a set, of the constants. `given` is the history of what the user gave each field,
`earlier` of what the earlier record says of those the user has not given since.

`ConfigStore.tla` follows the installation key through the platforms (key file,
key store, an older mobile key), the sealing and atomic replacement of
`config.json`, and the lock's password and stored credentials through loads,
conversions, saves by an editor that never sees them and imports. Two launches
may look for the key at once on every platform, since nothing in the code makes the application
single-instance; `config.json` has one owner. On macOS the key file is published without
replacing another's. On Linux and Windows `migrate_or_create_key` reads, writes and reads back without
exclusion: two launches that both find no key make two, and each may have read back its own before the
other overwrites it. `raced` records that, and `KeyOpensData` ends there: what the first one
has sealed is then lost at the next launch. The documentation speaks of concurrent first launches for
macOS only (`docs/desktop-hardening.md:123`), so this is a limit of the code and no finding.

### VictronState, VictronBanners, GatewaySnapshot and InverterCommands

`VictronState.tla` merges samples of the Cerbo's services and partial snapshots of
the daemon into the tiles, in the order of `process_state_update` and
`apply_cerbo_to_state`: choice of an instance, ownership, grid availability,
loads, fallbacks, expiry, alerts. An optional value is a set of at most one
element. Of tiles that are computed alike one or two stand for the rest. A message on a
topic the Cerbo's services do not have still sweeps lapsed entries and is emitted without
putting the tiles over the snapshot again, so what `ReadingsAreOwn` says of the tiles is said
of the steps that bring news of a device or change a tile, not of every state.

`VictronBanners.tla` has the notification slots, whose fields arrive one by one, the
raw alarms as the fallback, the cell readings that render banners again from a
copy, and a dismissal on another thread. `raced` marks that a copy was taken before
the dismissal it is rendered after.

`GatewaySnapshot.tla` replaces the state by each polled answer or, on a failure,
takes the controls away. `InverterCommands.tla` checks a request against fresh
telemetry, writes it over the transport that was active when it began, and
confirms an override by the controller's echo of the request id; the controller,
its other clients and the links are external.

### HomeAssistantBook and HomeAssistantActions

`HomeAssistantBook.tla` is what the worker knows: a session subscribes, then reads
each configured entity and once all states for discovery, while events arrive.
It includes the pages of entity choices and the host's catalog that puts them
together. `HomeAssistantActions.tla` is what it does: grants published in a
frame, admission, the read before a write, the guarded body of a lock command that
the HTTP transport may own after the command was given up, confirmation, deadline,
authentication failure and exit. The worker is one task with a biased `select!`:
a change of the connection is seen before a completion or a request is handled.
The history of request ids and the backlog of responses are not modelled; the
overload that ends the process is `Exit`.

### Compositions for TLC

`AppSession` is the composition of session, bridge, application service and host;
`TransportLink` of front end, native commands and clients; `PackageStore` of disk
and workers, the latter by the contract that `WorkerHost` implements; `ActionPath` of caller, host, writer and worker. The modules
`MCLinks`, `MCLiveData`, `MCDesktop`, `MCRest` and `MCActionPath` put several
specifications that share no variable into one run: `focus` says which one a
behaviour runs, the others rest in an initial state. Their state spaces add up and
do not multiply. `MediaService`, `WorkerNotices`, `MqttClient` and `TransportLink` appear twice: in `MCDesktop`,
`MCLiveData` and `MCLinks` for their safety, in `MCRest` for their
liveness. Fairness of a part is required of the behaviours that run it, conjunct by conjunct; for
`MCActionPath`, where none of a part's fair actions is enabled in its
initial state, it is required unconditionally, which is the same. `MCWorkerNotices` is `WorkerNotices` alone with
a history variable for the claim of the documentation about cooldowns.

### Proof modules

The theorems about a specification are in a module of its name that ends in `Proofs` and
extends it: `WorkerHostProofs`, `AppSessionProofs`, `ActionPathProofs`,
`TransportLinkProofs` and `PackageStoreProofs`. `MCLinks` extends `MqttClient`, takes
`TransportLink` and `ActionPath` through their proof modules and instantiates `HomeAssistantActions`:
`LinksProofs` proves the theorems about the MQTT client and the Home Assistant commands and carries all
of them over to the composition. `DesktopProofs`
extends `MCDesktop` and `LiveDataProofs` extends `MCLiveData`; they prove the properties of the
parts in place.

## Runs

| Run | Instance | Checks |
|---|---|---|
| `host` | one plugin registered twice, one caller, one restart, one revocation, fair | `OneProcessPerPlugin`, `AuthorityIsCurrent`, `EndingsAreFinal`, `KeepsContract`, `CallersReturn`, `StartupResolves` |
| `session` | two command threads and the watcher, two policies, three commands, fair | `AuthorityFollowsSession`, `LockedWorkEnds` |
| `session_declarations` | one policy, two declarations | violated: `NoPreviousDeclarations` |
| `store` | two plugins, three versions, the first pinned, three operations, fair | `StoreIsSound`, `RefinesInventory`, `OperationsReturn` |
| `links` | a burst of three messages and two shows of the window; both transports, one or none, every call may fail, one save; one request, two processes, two leases; one Home Assistant request on each control, one reconnection, three observations | `StreamIsTrue`, `OneTransport`, `ConnectedIsLive`, `PipesAreClean`, `FirstByteAuthorized`, `AnswersAreTrue`, `WritesAreCurrent`, `RejectionIsTerminal` |
| `action` | two requests, every queue of length one, one deadline each, fair; the Home Assistant requests of `links`, fair | `RequestsLeave`, `RequestsAnswered` |
| `live_data` | seven installations with three samples; two slots and two alarm topics with four messages; one command with three changes of others; the gateway's answers; one configured and two discovered entities; three identities of notices, one of them also a clip or preview, of a camera or under a title, cooldowns of three ticks and of one | `ReadingsAreOwn`, `BannersFollowSlots`, `CommandsAreTrue`, `ControlsAreLive`, `ShownIsCurrent`, `ChoicesAreWhole`, `NoRepeats` |
| `mqtt_show` | two messages, the window shown once | violated: `NewestIsShown` |
| `rest` | both transports, two changes of reachability, one wake-up; a client with two messages, stopped at any point; two identities of notices against queues of one; two media items against one place in every queue, one attempt, one fault; all fair | `ConnectionSettles`; `StoppedTasksEnd`; `NoticesDrain`; `RevokedWindowsClose` |
| `camera_cooldowns` | two cameras, one of them mapped, cooldowns of three ticks and of one | violated: `CamerasAreIndependent` |
| `desktop` | two schemas, four records of an earlier version, two writes; one plugin, two releases; two passwords and hosts, four keys, three commits; two media items against one place in every queue, two faults | `LastSaveStands`, `NoLostUpdate`, `OnceSecretNeverPublic`; `ListIsTrue`, `IntentWins`; `KeyOpensData`, `SecretsStand`; `NothingLeftBehind` |
| `settings_restore` | the same settings, one version with video windows, with a backup restored | violated: `BackupSeedsAgain` |

The type invariants are conjuncts of `StreamIsTrue`, `OneTransport`, `PipesAreClean`,
`StoreIsSound`, `AuthorityFollowsSession` and `BannersFollowSlots`; those of the worker host
and of the four parts of `desktop` are proved.

**Bounds.** The worker host's properties relate at most two entries of a plugin
(the one being reaped and its replacement) and at most two epochs (before and after a
revocation), which is what the instance holds; `MaxRestarts = 1`
reaches both sides of the comparison. Its liveness needs one caller: callers do not
wait for each other. Its safety is proved for any number of plugins, entries and callers. In `AppSession`, three overlapping commands are a login, a change of
policy and a logout or exit, the longest chain in which one transition can
overtake another (a session has to
exist before a save can change the policy under a second login). In `PackageStore`,
three versions with one pinned reach an update, a downgrade to the pinned version
and a rollback; three operations allow install, update that fails and is undone,
and rollback or remove in one behaviour, with a second plugin or a restore pass
in between.
`MaxEpoch = 1` gives one lock of the session at any point, `Resume` unlocks
again. The `u64` epoch and generation counters are unbounded in the code for
any practical purpose; their wrap-around is not modelled. In `ActionPath`, a
request can meet at most the generation it was admitted to and the next one;
queues of length one put every bounded queue at its limit with two requests. In
`MqttClient`, the emitter distinguishes a delivered copy, a pending one and a
newer one, hence at least three messages. In `TransportLink`, the tokens bound who can hold a
different one at the same time (current, recovery interval, probe, command, both slots, ghost,
and each event), so that one is always free: `LinkAssumption` asks for `MaxToken > MaxEvents + 7`,
which 9 in `links` and 10 in `rest` satisfy; one saved configuration and one wake-up overlap a running attempt.
In `VictronState` an installation publishes at most three services at a time, chosen so that
each rule of ownership and fallback meets its rival; three samples give a value, its
replacement and the snapshot or expiry between them. In `VictronBanners` the fields of a slot
need three messages to show it and one more to take it back. In `InverterCommands` the
three changes are those of the controller, another client and a link while one request
runs; requests do not share state except the controller. In `HomeAssistantBook` one place for
two discovered entities and a buffer of one put both limits in reach, and two sessions
let an answer of the first meet the second. In `HomeAssistantActions` five epochs take the
connection from one session through a failure into the next, and three observations let a lock
change and change back while a command is under way; a second request adds only `overloaded`. In `WorkerNotices` three identities overflow a
memory of two as soon as the rate would let them, and a long
cooldown of three ticks, a short one of one and a deduplication time of two let a camera be refused for its cooldown
alone, and be swept out of the memory by a request with the short one. In `MediaService` two items compete for one
place in each queue, and two faults let a window that refuses to go meet a revocation or a crash. In `PluginSettings` two writes are what an editor and a seed, or two
saves, need to overtake each other; the records of an earlier version are one with a list to complete and a
cleared secret, one whose list has no room, one of another account and one of another server. The host's own key
for video windows is left to `settings_restore`: no other property depends on it. In `ConfigStore` four keys are one for each source a key can
come from.

**Deadlock** is not checked where the bounded number of commands, registrations
or operations runs out, or the application has exited or been closed.

**Fairness.** Liveness assumes weak fairness of each supervisor task (tokio
polls a ready task), of the timers that bound a wait (`STARTUP_TIMEOUT`,
`REAP_TIMEOUT`, the backoff), of each command thread's own progress and of the
watcher's tick. It does not assume that a worker ever answers, exits or is
reaped, that a user answers the biometric prompt, or that the session is ever
unlocked. `LockedWorkEnds` says that again and again all commands have returned and no
worker outlives its session, which is stronger than that each of them returns once.
`CallersReturn` leaves out direct calls of `stop_all`: it lists the
entries after it has revoked, so a worker that is registered after a resume in
between would be awaited although nobody stops it. In the application only
`shutdown` calls it, and `stopped` then excludes the resume.

For action requests the supervisor is polled, the writer leaves its `poll_fn` and
a woken caller returns; the worker need not answer. For the MQTT client the
tasks are polled, time passes, a disconnected connection yields an event and
`stop` finishes once begun. For the transport, promises settle, commands return,
timers fire, a client reports what it can reach and its events arrive; nothing
has to become reachable. `rest` also sets `PromptBroker`: a reachable broker
acknowledges before the 15 s watchdog, without which the two transports may
alternate for ever. In `HomeAssistantActions` the worker's task is polled and deadlines pass;
Home Assistant need not answer. In `WorkerNotices` the two forwarding tasks are scheduled;
`NoticesDrain` asks nothing while media keep coming, since the dispatcher yields to them. In
`MediaService` the tasks, the adapter and the window events are scheduled; a window the system
refuses to destroy is exempt.

**The findings.** `session_declarations`: `transition_session` says (`application.rs:960`) "Do not publish
a new authorized epoch with the previous declarations." But
`authentication_changed` loads the declarations at `bridge.rs:1057` before the
transition revokes the running epoch and without `CONFIG_UPDATE_GATE`. A managed
command that changes the declarations in between, still in the running epoch,
is overwritten in memory: the new epoch is resumed with the declarations from
before the change, and stays so until the next transition or configuration
change. `recover_session` does it right: it takes both gates before it loads.

`mqtt_show`: `set_window_hidden(false)` forces an emission with a copy of the
state taken before `emit` is called (`mqtt.rs:1404`), outside the lock that
serializes messages. A message handled in between is delivered first or waits as
the pending snapshot; the forced emission of the older copy discards the pending
one and is delivered last. The window shows the older state until the next
message, against the emitter's promise to keep the latest snapshot
(`lifecycle.rs:171`). `BurstEndsNewest` shows that nothing else breaks it.

`settings_restore`: the editor of a plugin with a video window saves the host's own
preference `_host_video_always_on_top` among the plugin's values (`settings.rs:704`), and the
portable backup carries it into the plugin's namespace (`application.rs:376`). When the plugin is
installed again, `settings_seed` finds a key the package's schema does not declare, and for a
namespace that is an error (`migration.rs:71`): the plugin gets none of its settings back.
`docs/plugin-settings.md` promises that restoring a backup on a clean installation seeds the
settings again (line 37) and that a later reinstall can (line 254).

`camera_cooldowns`: `queue_http_video` prunes the cooldowns of all cameras with the cooldown of the request at
hand (`runtime.rs:329`). One manifest may hold `http_video` with 20 to 300 seconds and a live view whose
previews of mapped cameras have a fixed 15 (`protocol.rs:518`). A preview of one camera, 15 seconds after another was
admitted under `http_video`, makes the host forget the other, whose next clip is admitted long before its
cooldown ends. `docs/plugin-worker-protocol.md` says "Different cameras remain independent" (line 513) and that
`cooldown_seconds` "scopes the configured media policy" (line 462). `NoRepeats` states what does hold: a camera is
admitted again only when it has outlived the cooldown of the request or of one that swept it.

Two comments of `mqtt.rs` are not kept in corners that `BannersFollowSlots` leaves out
(`~raced`, `~seen`); `VictronBanners` states them as `DismissedStaysClear` and
`RawAlarmsSuppressed`, TLC refutes both on the instance of `live_data`, and no run
is kept for them. "MQTT re-emits cannot resurrect the banner" (`mqtt.rs:2813`): a cell reading
that copied the slots just before the dismissal renders the banner after it was cleared.
"Once any platform Notifications/* message arrives, raw Alarms/* banners are suppressed"
(`mqtt.rs:993`): one raised before that message stays, and its later clearing is
suppressed as well.

**A limit of `rest`.** It assumes that `connect_gateway` does not refuse. If the
broker does not answer the probe at startup and the gateway then refuses (an
`http://` URL passes `isIgwConfigured` and fails `validate_base_url`), the error
leaves `connectMqtt` through its catch (`useConnection.ts:524`) with no timer, no
recovery interval and no wake listener. A broker that becomes reachable later is
then not used until the configuration is saved again: with `Failing = {"igw"}` TLC
finds `ConnectionSettles` violated that way. The same refusal in a failover or in a
recovery schedules a reconnect.

## Proofs

The theorems hold for every value of the constants that the assumptions of the modules allow;
TLC evaluates the assumptions on the runs. Every proof follows one pattern: the safety properties
are not inductive, so a stronger invariant (`IInv`, or one for each part of `MCDesktop`) is shown to
hold initially and to be kept by every action, with one lemma for each of its conjuncts and one step
for each action, and the properties follow from it. TLC has checked these invariants on the
instances of the runs, too.

| Module | Assumes | Proves |
|---|---|---|
| `WorkerHostProofs` | `HostAssumption` | `OneProcessPerPlugin`, `AuthorityIsCurrent`, `EndingsAreFinal`, `KeepsContract` |
| `AppSessionProofs` | `SessionAssumption` | `AuthorityFollowsSession` |
| `ActionPathProofs` | `ActionAssumption` | `PipesAreClean`, `FirstByteAuthorized` |
| `TransportLinkProofs` | `LinkAssumption` | `OneTransport`, `ConnectedIsLive` |
| `LinksProofs` | `ClientAssumption`, `LinksAssumption`, the two above | `StreamIsTrue`; `AnswersAreTrue`, `WritesAreCurrent`, `RejectionIsTerminal`; and all, with the same four, of the composition the run `links` checks |
| `PackageStoreProofs` | `StoreAssumption`, `NoneAssumption` | `StoreIsSound`, `RefinesInventory` |
| `DesktopProofs` | `SchemasAreSane`, `EarlierIsSane`, `GroupAssumption`, `MediaAssumption` | `KeyOpensData`, `SecretsStand`; `ListIsTrue`, `IntentWins`; `LastSaveStands`, `NoLostUpdate`, `OnceSecretNeverPublic`; `NothingLeftBehind` |
| `LiveDataProofs` | `CommandAssumption`, `ChoiceAssumption`, `BannerAssumption`, `EntityAssumption`, `NoticesAssumption` | `CommandsAreTrue`; `ControlsAreLive`; `ReadingsAreOwn`; `BannersFollowSlots`; `ShownIsCurrent`, `ChoicesAreWhole`; `NoRepeats` |

The assumptions say that null values are not members of their sets, that the sets of plugins and
requests are finite where the code counts them, and that limits are numbers. Eight say more:
`LinkAssumption` asks for enough tokens (see the bounds; the code draws a new number each time),
`SchemasAreSane` for package schemas that pass the checks of `SettingsSchema::compile`, `EarlierIsSane` for records of an earlier version that pass
`validate_data` and hold no preference for video windows, `GroupAssumption`
for a group of plugins of this installation, `ChoiceAssumption` for at most one chosen instance of each
role, `NoticesAssumption` for the relation `SeenHolds` between the rate, the times and the memory of
notifications (the code's constants satisfy it), and `EntityAssumption` for the way entities are named: finitely many numbers stand for them in
their lexical order, at least one is configured, and discovery leaves the configured ones out
(`Discovery::matches`); `MediaAssumption` says that a download takes at least one byte of the disk.

**Worker host.** `IInv` adds to `TypeOK`:

- `SlotsInv`: a registered entry sits in the slot of its own plugin, and an entry
  that has lost its slot is done and reaped; without it a replacement could
  coexist with a forgotten process;
- `TaskInv`: how far the supervisor is decides whether there is a process and
  what `done` and `reaped` are;
- `EpochInv`: no entry belongs to a later epoch than the authority's, and entries
  of the current epoch exist only while it is enabled (so a resume, which keeps
  the epoch, cannot make an old entry authorized);
- `LeaseInv`: a lease is active only between spawn and revocation, for an
  authorized entry that has not been stopped;
- `RunningInv`: a worker is shown as running only while its supervisor runs an
  authorized generation;
- `CallInv`: what a caller has already made true of the entries it awaits, which
  later steps cannot undo;
- `StatusInv`: what the snapshot of an authorized entry shows at each place of its task, and that it
  shows an end once the task has returned.

In the refinement of `PluginWorkers` a supervisor changes the status of one plugin only (`OneWorker`)
and, by `StatusInv`, never shows as alive what was not (`NoRevival`); `RegisterLaunches`, `RevokeEnds`,
`ResumeResumes` and `ReturnRemoves` are the steps of the authority and of callers. `EpochInv` is what
makes a resume invisible: no registered entry of the current epoch is waiting for one.

**Session.** An enabled host without a session is not by itself wrong, as long as somebody is on the
way to revoke it, and a transition that has read the session before it was closed may yet enable the
host. `AuthorityInv` therefore speaks of a host that is enabled or about to be (`Enabling`) and finds
the thread that revokes after it (`Revoking`). It rests on `LockInv` (the place of a thread decides
which locks it holds and how many transitions it owes, so two transitions do not overlap),
on `GrantInv` (the policy that a password was checked against is in force when the session is granted),
and `EpochInv` and `ExitInv` carry the exit: a transition that lost its epoch to `begin_shutdown`
cannot resume.

**MQTT client.** `NewestInv` says in whose hands the newest snapshot is at each moment of a burst
(the loop's, the pending slot's, the one flush's or the window's), `BurstInv` why two hands never
race in a window that was not shown again, `StopInv` what each step of `stop` has silenced, and
`RangeInv` that there is one sleeper for each scheduled flush.

**Action path.** `AdmittedInv` (nothing is queued that was not admitted), `PipeInv` (what is in the
pipe was admitted in this generation, and a pipe ends before the next generation begins) and `LockedInv`
(between the writer's checks and its first byte nobody revokes) make the two properties
inductive. The bounds on the queues need counting: a pending request has one place in the table,
and the rejections are never more than that.

**Transport.** `FlowInv` orders an attempt's life: its command is to be chosen, queued, running or
done, exactly one of them; `CommandInv` says which clients a running command has already stopped;
`ActiveInv` that an active session's client is the one shown or is being started; `ReportInv` that
nobody else can report under the current token. A fresh token exists because fewer places hold one
than there are tokens (`SevenHolders`).

**Package store.** `PhaseInv` ties the place of an operation to its kind and phase, `ReadInv` the disk to
what it has read and is to commit, `RecordInv` says that its change was legal from its admission,
`ContentInv` that nothing is deleted that is recorded or may be again, `CommitInv` that a
commit still has its epoch. `WorkerInv` is what the user relies on: a worker that runs or is over has the recorded
version with the saved settings, or the one that is about to be recorded (`WantedInv`), and never without
content, lease or owner. In the refinement of `PackageInventory` only the
rename writes the inventory (`RenameStep`: a legal change, or the undo of one); every other step keeps it and at
most decides what was undecided (`QuietSteps`).

**Compositions.** Each step of `MCLinks` and of `MCDesktop` is a step of one part that leaves the
variables of the others alone. So the composition implements every part (`LinkSpec`, `PathSpec`, `HomeSpec`,
`ConfigSpec`, `ManagementSpec`, `SettingsSpec`, `MediaSpec`), and a property of a part is one of the composition.

**Configuration.** `Publishing` (macOS) and `Moving` (Linux and Windows) say what each place of either launch
that searches the key may rely on: as long as no key is published nothing is sealed, and a key that is
about to be published or moved is the one that the document is sealed with. `Moving` holds until two launches
have raced to make a key. `StagedWithKey` and
`StagedSecrets` say the same of a document that is staged and not yet renamed.

**Plugin management.** `TransitionInv` keeps operations of an earlier epoch from committing, `StatusInv`
ties the status shown to intent and inventory, `ReconcileInv` says that a pass works from the declarations as
they are and what it has already switched off, `CommandInv` that a command works on its own intent, and
`CacheInv` when cached details may differ from the inventory.

**Plugin settings.** A staged write is made from the record that is still there (`StagedInv`), and a revision
stands for one state of the data (`RevisionInv`); the latter makes the editor's comparison of revisions
mean that it has seen the last save. `RecordInv` says that a record is marked once the user has given
anything, and that until then a record of an earlier version is as it was found; so a seed meets either an
empty record or an unmarked one, whose values it keeps and whose list it joins once (`SeedEffect`, `Stands`).

**Inverter commands.** The user is told an outcome by whatever answers: the controller's status over MQTT or
the gateway's reply. `WriteInv` says that a request is written in one step, out of a place it never comes back
to; `InboxInv` that each message on its way is the one write of the request it names; `AnswerInv` that a status
which names one of our requests without an error is about that write and its value, in the controller and in
the copy the window has. Ids are random, so another client's is never ours (`CommandAssumption`).

**Gateway.** `Backed` follows what is shown back to an answer: flags and override to a controller, the switches
to a pump that is connected and listed under the instance that was asked for. `GatewayInv` says that the answer
is the latest; a failed poll leaves nothing to act on (`NothingLeft`), and keeping the time-to-go of the state
before touches the batteries only (`OnlyBatteries`).

**Banners.** A message and a dismissal lock the slots several times, and what they do in between interleaves.
`CopyInv` says that, unless a dismissal raced it, a copy about to be rendered is its slot as it is, and `SlotInv`
that meanwhile every other slot is on the screen as it asks to be; `RawInv` is the same of the raw alarms while
no platform message has come. The race itself is recorded in `raced`; `BannersFollowSlots` excludes it.

**Home commands.** `ShownInv` says that a grant the user sees is not newer than the connection, the lock and the
number it names, and older in one of them once something has touched it (`Known`); `CurrentInv` the same of a
request's token and of what an admitted command was checked against. So when a grant still matches, nothing has
touched it: at admission (`Admitted`) and when the transport polls the body (`Permitted`), the only places, with
the toggle's fresh read, that release a call. `HonestInv` says that a command that was answered has no permit,
whoever owns its body.

**Home entities.** `FeedInv`: the last event of an entity on its way says what its state is. `RowInv`: without
one, what a row shows, and what a read that may still be shown was answered with, is the state; `ProbeInv` is
the same of a lock command's own read, as long as nothing else was observed of the lock; `FoundInv` of what discovery
shows, has in its buffer or will take from the bulk read. `SessionInv` says that nothing of a session survives it.
That discovery's limit hides an entity only when it is reached needs the cardinality of what it shows (`Selects`,
`Discovers`).

**Lists of choices.** `SendInv` says that the pages still to be sent are the last ones of the newest list, from the
page after the last the host was given; the arithmetic of the pages is `Paged`, `PageBounds` and `Joined`. That
the entities that exist can be listed in order is `Ordered`.

**Notices.** `Remembers` says that a memory holds every identity whose time runs, at an age no greater than the
real one. A full memory of notifications drops its oldest entry, so the rate has to be part of the invariant:
`Spaced` says that the last `count` entries are of this window and that an entry with `m` times `PerMinute` others
behind those is at least `m` minutes older than the window. With `SeenHolds` this leaves room for whatever the rate
admits (`Room`), and eviction never happens to an entry that is still needed. That a sweep keeps the order, hence the
spacing, is the lemma `Retained` about `VecDeque::retain`. Of cooldowns the invariant says no more than the code
does: the memory holds each camera within the longest one, or a request has swept it whose cooldown it had outlived.

**Tiles.** `ReadingsAreOwn` is a property of steps, and nearly all of it follows from what one message does, in
the code's order: the daemon's snapshot first, then one overlay after the other. What has to hold before is little
(`StateInv`): a phase that systemcalc has declared invalid is blank. That declaration outlives systemcalc's
entry, so no overlay can restore it once the entry has lapsed. The lemmas follow
a tile through the overlay that may still write it (`NoDaemonBleed`, `GridIsHonest`).

**Media.** The slots and the bytes are counted over entries, but what has to be limited is windows, files and
readers. `PhaseOf` ties the step of a request's task to the phases its entry may be in; `FileInv` says who will
remove a file (the entry, or the task between creation and commit, or after the last reader), `ReadInv` that a
read holds the file of an entry that is shown or drained, and `WindowInv` that a window exists only while its task
waits for it to go. What makes this inductive is `AskedInv`: an event that may yet open a window finds a task that
still waits, or an entry that is retired and refuses it (`WindowActive`), even if the request was closed while
the event was in the channel. The limits are then a matter of subsets (`LimitInv`, `PresentIsRegistered`).

**What TLC alone shows.** Liveness under fairness (`CallersReturn`, `StartupResolves`, `LockedWorkEnds`,
`OperationsReturn`, `RequestsLeave`, `RequestsAnswered`, `ConnectionSettles`, `StoppedTasksEnd`,
`NoticesDrain`, `RevokedWindowsClose`) and ENABLED are beyond the prover. So is induction over
data: what a recursive computation returns for every input. Every safety invariant
and every action property of a passing run is proved.

## What is not modelled

- *Worker host*: `HostInner::drop`, panics of a supervisor, the dashboard's
  contents beyond "shown".
- *Session*: password derivation; the second `begin_shutdown` of
  `RunEvent::Exit`, which repeats what the exit gate did.
- *Package store*: creation of a new store, `remove_retained_data`, read-only
  inspections, quotas, corruption of installed bytes, settings beyond present or
  absent. Metadata operations reach the disk in the order of the code
  (`docs/plugin-packages.md` promises nothing for a power loss).
- *MQTT and gateway*: energy history and tariffs, the wording of alerts, tiles
  that are computed like one that is modelled.
- *Plugin settings and management*: the validation of single values, the contents of the
  legacy plan and how two lists of entities are joined (constants), several plugins in one reconciliation, downloads.
- *Configuration*: fields other than the lock, the server and its credential; what becomes of data after two
  launches on Linux or Windows have made two keys.
- *Media*: players, HTTP ranges and what a download contains.
- *Cryptography, archives, JSON frames, TLS, HTTP, windows and the tray*: pure
  functions or I/O; a package, frame or response is accepted or refused.
- *Home Assistant worker*: its configuration parser, its notifications, weather and
  appliance cards (presentation of observations).
- *Frigate, Kerberos and Ring workers*: to the host a worker is a process that may
  answer, fail, hang or exit at any time; their own loops are not modelled.
- *Vendored code, build scripts, smoke tests and views*.

## Plan

In this order:

1. `AppSession` on `PluginWorkers` for the authority contract it assumes, as `PackageStore` is.
2. The session loops of the camera workers (`desktop-plugins/frigate`).
