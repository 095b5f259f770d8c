# Synbad: a TLA+ verification project

Synbad is a daemon (`synbadd`), a GUI and a set of libraries that share one
keyboard and mouse between machines by supervising a Deskflow "Core" process.
Machines find each other by mDNS, are paired by their users, and then keep their
screen layout in step and exchange audio. This directory models the parts where
order, failure and restarts matter, checks them with TLC and proves the most
important properties with TLAPS. Paths below are relative to `src/crates/`.

## 1. The system

| Part | Where | Module | What is hard about it |
|---|---|---|---|
| Core supervision | `synbadd/src/supervisor/{mod,core_proc,requests}.rs` | `CoreSupervisor` | resolution, exit reports and log lines arrive late; the 2 s wait of `stop_core` can time out; the daemon can die anywhere |
| Config edit funnel | `synbadd/src/supervisor/config_edit.rs` | `ConfigSync`, `CoreSupervisor` | two files saved one after the other, best effort; the file is also edited by people |
| Versioned config | `synbad-sync/src/versioned.rs` | `VersionedConfig` | concurrent edits, equal counters |
| Sync sessions | `synbadd/src/sync.rs`, `synbad-sync` | `ConfigSync` | state moves while a session waits; abandoned merges stay queued |
| Pairing and trust | `synbadd/src/pairing.rs`, `synbad-discovery/src/{pairing,trust}.rs` | `Pairing` | two users, crossed sessions, a timeout, trust saved on one side only |
| Encrypted frames | `synbad-crypto/src/cipher.rs` | `CipherStream` | a read that is cancelled halfway and resumed |
| Audio | `synbadd/src/audio.rs`, `supervisor/`, `synbad-audio` | `AudioLinks` | five kinds of task, lossy bounded channels, trust checked long before it is used, drivers aborted in the middle of a report |
| IPC and GUI | `synbad-ipc`, `synbad-gui/src/{ipc_thread,app}` | `GuiSession` | three connections, lagging subscribers, an edit buffer beside remote changes |
| Core binary cache | `synbadd/src/binaries.rs` | `CoreCache` | a cache trusted on sight; an extraction thread nobody can cancel |
| Updates | `synbad-update`, `synbad-gui/src/{update,single_instance}.rs` | `Updater` | two to four files replaced one after the other, or a bundle by two renames; a relaunch that races for a socket |

The supervisor is a single task around a `tokio::select!` loop. Every handler
runs to completion before the next one, so a handler is one action; everything
else (child processes, tasks, timers, users, the file system, the death of the
daemon) interleaves between handlers. A handler of the supervisor that awaits
keeps the loop waiting, and stays one action. The other tasks (dials, sessions,
resolution, install, the audio bridge) have a step for each stretch between two
awaits at which they can see something change, and so has the start of a daemon
between its read of the config and its watch. `PROJECT.json` lists every component
with its status, every definition with its source lines, and the hazards with the
properties that cover them.

How the parts meet: `CoreSupervisor` and `ConfigSync` are two views of one
supervisor, its Core and its config. They share the funnel: a config that
`ConfigSync` accepts is a `ChangeConfig` of `CoreSupervisor`, a rejected merge is
its `RollbackAdoptsEdit`. `Pairing` fills the trust store on which `ConfigSync`
relies and which `AudioLinks` consults. `CoreCache` is the resolution that
`CoreSupervisor` has in flight. `GuiSession` takes the daemon as what its
requests and events show of it. `Pairing` is composed with `CipherStream`, and
`ConfigSync` with `VersionedConfig`; the others are checked side by side, because
their products are out of TLC's reach.

## 2. Modules

| Module | Contents |
|---|---|
| `Backoff` | restart delays: doubling, caps, circuit breaker, saturating counter |
| `CoreSlot` | abstract: one slot for a Core, `off`, `pending` or `filled` |
| `CoreSupervisor` | the life of the Core under one supervisor, across daemon restarts |
| `VersionedConfig` | stamps, local edit, merge, head; pure operators |
| `ConfigSync` | machines that edit, sync, fail, crash and restart |
| `CipherStream` | frames of a header and a body, counters, a reader that keeps its progress |
| `Pairing` | both ends of pairing sessions, the users, the trust stores |
| `AudioLinks` | supervisor, dial tasks, bridge and session drivers of one machine |
| `GuiSession` | window, reader and command thread, the subscriber's connection, the daemon |
| `CoreCache` | download, check, extract, move into place |
| `Updater` | update dialog, install, relaunch, single-instance socket |
| `MCCoreSupervisor`, `MCConfigSync`, `MCPairing` | instances for TLC |
| `CoreSupervisorProofs`, `ConfigSyncSteps`, `ConfigSyncProofs`, `PairingProofs`, `AudioLinksProofs`, `GuiSessionProofs`, `CoreCacheProofs`, `UpdaterProofs` | theorems |

### CoreSupervisor

The 17 variables carry the names of the fields of `Supervisor`, plus `up`, the
marker file `user_stopped`, `procs` (what the kernel and the exit channel know
of each process), `launched` (what the current child was started with) and
`core_log` (lines waiting in the log channel).

* `RequestStart/Stop/Restart`, `ChangeConfig`, `RollbackAdoptsEdit`: the IPC
  requests and config changes, with the whole of `start_core`, `stop_core` and
  `restart_core` inside.
* `RestartDue`, `CoreStalled`, `HandleLogLine`, `HandleExit`, `IgnoreExit`,
  `SpawnChild`, `ResolutionFailed`, `ResolutionUnwanted`: arms of the loop.
* `CorePrints`, `CoreExits`, `HealthyWindowPasses`, `DaemonStops`,
  `DaemonCrashes`, `Launch`: the environment. `DaemonStops` is the end of the loop
  by a Shutdown or a signal, with its `stop_core`. `DaemonCrashes` runs no code of
  the daemon. With `ParentDeathSignal` (Linux, `PR_SET_PDEATHSIG`) the kernel stops
  its Cores; without it (macOS, Windows) they live on as `orphan`s.

Time is abstract: an armed timer may fire at any moment, and only the armed
delay is kept. A config is `[role, core, layout, ports]`, which is what
`core_inputs_differ` and `resolve_core` tell apart. Log lines are the kinds
`log_parse` recognises. The kernel does not reuse a pid while a report or a line
of its previous owner is queued.

### ConfigSync

Per machine: `config` and `versioned` of the supervisor, the two files `toml` and
`sidecar`, a pending watcher event, the peers it sees, and for each peer the
session, the confirmed head and the backoff. `SetConfig`, `HandleConfigChanged`,
`HandleMerge` (inside `ReceiveState`, `FinishSession` and `MergeOrphan`),
`ReconcileSyncSessions`, `PeerFound` and `PeerLost` are the handlers. A start has two
steps: `LoadConfig` reads the file, `Launch` watches it, reads the sidecar and runs
on what was read.
`SendState`, `ReceiveState`, `FinishSession` and `FailSession` are the steps of a
session; other handlers run between them. A session that fails or is aborted may
leave its `Merge` request in a supervisor's queue (`orphans`).
`CrashBetweenSaves` is a daemon death after the TOML and before the sidecar.

`breaches` is a history variable. It records the ways a value and its stamp
can come apart: `rollback` (a merge was rejected), `unstamped_edit` (the file
changed while the daemon was down, or it died before stamping),
`stamps_lost` (it restarted from an old sidecar). It also records `save_failed`
(neither file was written), `kept_invalid` (a rejected merge stayed in
memory because the file did not load) and `unwatched_edit` (the file was saved
between the two steps of a start). Properties that need their absence say so.

Assumed: frames arrive intact or the session fails (encryption and signatures);
the head hash is injective; machines are paired throughout.

### Pairing and CipherStream

A session has two ends, `initiator` and `responder`. Each is a task whose `pc`
follows `run_session_inner`: connect, the two handshake messages, the exchange of
`PairHello`, the proposal to the user, the `select!` between the user's verdict
and the peer's `Confirm` (`proposed`, and `early` when the Confirm came first),
the wait for the Confirm (`awaiting`), the check of the signature (`verify`), and
the save. `stream` holds what travels towards each end, as headers and bodies
with the counters that seal them; `ReadHeader` is a read that the `select!`
cancelled between the two, and `Recv` the one that resumes. `pairing_confirm` is
the supervisor's table; `verdict` what a click put into the oneshot channel;
`trust` and `trust_file` the store in memory and on disk, which a failed save
can leave apart in both directions. `accepted` is a history variable. A machine
may be answered by the wrong one, or by itself, at a stale address (`Answers`).
Faults: broken connections, timeouts, daemon restarts, a replaced listener,
saves that fail before or after the rename. A send fails too, the one of the
user's own Confirm included: by a fault, or because the peer's task is over.

### AudioLinks

`audio_live`, `audio_inflight` and `audio_backoff` are the supervisor's books;
`dials`, `vetted` and `outcomes` the dial tasks, those of them that have passed
their trust check, and their result channel; `accepted` the inbound connections
about to be handed over; `commands` and `events` the two channels of the bridge;
`sessions` its drivers with their phase. `Tick`, `HandleAudioEvent`,
`HandleAudioDialOutcome`, the config and trust requests and the teardown are
handlers of the supervisor. `dialled` are the peers with the greater machine id,
which this machine dials; `audible` those that advertise an audio port.

The bridge handles one command at a time and awaits inside: `TakeCommand` and `Reap`
set down what is to be closed and started (`closing`, `starting`), `CloseNext`
closes one session, `StartSession` starts one, and `Deliver` puts one message of
`outbox` on the event channel when there is room. Trust, routing and the channels
can change between any two of these. `try_send` loses what a full channel cannot
take. `BridgeDies` and `ListenerDies` are tasks that end; the tick replaces them.
`ghosts` records the peers whose aborted driver still reported.

### GuiSession

The daemon is reduced to what the window mirrors: config, Core state, trusted
peers, proposals. `sub` is the subscribed connection and the snapshot on the
other one, `thread` the place of `event_loop`, `commands`, `reply` and `updates`
the channels of the threads, `view` the application with its edit buffer
(`config`, `dirty`, `pending`). A subscriber that lags is cut off
(`Broadcast`). One pass of the window's update is a `Drain` for each update that
waits, which merges or parks a remote config, then a `Frame`: when five seconds are
over, or a pairing has just completed, it reconciles and pushes monitors and new
peers by itself. The threads run on between the drains (`window = "draining"`); the
user clicks once the widgets are drawn (`window = "open"`). The audio tab
(`EditAudio`) writes the buffer's audio section and sends it at once, without the
dirty flag; the other edits wait for Apply.

### CoreCache and Updater

`CoreCache` keeps the files of `<tag>` and `<tag>.partial`, the stage of the
resolution and its extraction thread, and the thread a shut-down daemon leaves
behind (`linger`). There is one action between any two awaits of
`ensure_upstream_core`, and one per file written. `ensure_macos_core` takes the same
steps without the release query; a patched Core beside the executable needs no
resolution, and the look that `lipo` takes at the architectures is reduced to the
presence of the files. `remove_dir_all` may leave files behind, since its errors are
ignored. The cache may start with what an older build left, which extracted
straight into `<tag>`.

`Updater` keeps the version of each installed file, the dialog, its worker with the
moves of its plan (the patched Core of macOS, then the daemon, the running binary
last), each GUI process on its way through `single_instance::acquire`, and the
socket. The install is in place or through the elevated helper, on Linux, macOS or
Windows; each move may fail. On Windows the running binary is renamed aside first.
A GUI that runs from a macOS bundle has the bundle replaced as a whole, by two
renames with an attempt to undo the first (`AppAside`, `AppReplace`, `InstallFails`).

## 3. Runs

| Run | Question | Bounds |
|---|---|---|
| `core_lifecycle` | Does the bookkeeping stay consistent, and does it implement `CoreSlot`? | 3 pids, so that a child, its predecessor and that one's predecessor coexist; 3 configs (two roles, one daemon-only change); 2 queued lines; small delays that reach every cap |
| `core_recovery` | Is every failed, silent or killed Core replaced? Does it run the arguments of the current config, and is a delay within its role's cap? | 2 pids, 2 roles, 1 queued line; caps of 2 and 1 below 3 failures, so that a delay can be wrong for its role; no parent-death signal |
| `sync_interleavings` | Are stamps unique and monotone, and is "confirmed" true, while both dial each other? | 2 machines, 1 field with 3 values of which one is invalid on one machine; 1 abandoned merge |
| `sync_faults` | The same, and files and clocks, with crashes, failed saves and a file edited by hand | 2 machines, one of them faulty; 3 values; one-way discovery; no session loss but that of a crash |
| `sync_convergence` | Do the machines agree in the end? | 2 machines, 1 field, sessions fail at any step any number of times |
| `sync_rollback` | Refutes that every change converges | 2 machines, 2 fields, no fault |
| `pairing_crossed` | Does trust need both users, do the codes agree, does the `select!` lose nothing? | 2 machines, 2 sessions that may cross, an address the wrong machine may answer; restarts and saves that report an error after the rename; 1 slot per machine, so that the limit of 64 is met; symmetry of the sessions |
| `pairing_faults` | Does every session end and leave the table? | 1 session, every fault |
| `audio` | Do the books match the bridge? Are revoked peers silenced, edits delivered, wanted peers heard? | 1 peer, on either side of the machine id; 1 queued command, so that the channel is full at once; 2 events; 2 edits and 1 fault (2 faults pass too, in 744,033 states) |
| `gui` | Does the window end up showing the truth? Is no layout pushed that rests on defaults? Does it reconnect? | 1 peer, every channel of capacity 1, 1 click, 1 change made elsewhere, 1 fault |
| `core_cache` | Is a cached Core always whole, and is one resolved in the end? | 2 files, Linux, macOS and a platform without an asset, every leftover of an older build, every fault, 4 mishaps |
| `update` | Do the binaries on disk always fit together, and does a relaunch take over? | 3 systems, bundle or files, writable or not, with and without a daemon in the release; 3 GUI processes, every fault, 2 failures |

`MaxClock` bounds the edits of `ConfigSync`: none starts on a clock that high,
and no save fails on one. Two machines that both edit at clock 1 already produce
equal counters, ties, and merges in both orders. One field is enough for the
stamps: a merge treats each field on its own (`MergeField`, proved for any set of
fields), and fields meet only in validation, which `sync_rollback` explores with
two. `MaxOrphans` bounds the abandoned merges, `LogCap` the queued lines.
`Faults`, `Faulty` and `Discovers` choose which failures a run explores.

One audio peer is enough: the supervisor's books, the dial tasks and the drivers
are keyed by peer and peers meet only in the two channels, which are full with one
command or with the events of one peer. In `gui` a channel of capacity 1
is the hard case: the daemon cuts the subscriber off at the second unread event.
Faults are counted per behaviour in `AudioLinks`, `GuiSession`, `CoreCache` and
`Updater`; after the last one the environment is kind, which is what their
liveness properties need, and everything before it is covered.

What the properties say:

* **`ExactlyOnePending`**: while sharing is wanted there is exactly one of child,
  resolution and armed timer; so it is never stranded and never doubled.
* **`StateIsHonest`, `OwnChildAccountedFor`, `NoLeakedCore`,
  `UnreadyCoreIsWatched`, `PeersOnlyWhileRunning`**: what is shown, owned, killed
  and watched agrees with the processes that exist, late reports included. After
  a crash of the daemon `NoLeakedCore` needs the parent-death signal.
* **`LaunchedFromLiveConfig`**: a slow resolution never launches old arguments
  (unless a rollback adopts an unapplied edit, see section 6). It says nothing of
  the binary, which can be stale.
* **`RetryDelayWithinBudget`**: below the circuit breaker a delay is at most the
  cap of the role in force when it is pending, whatever the role was when the
  failures happened. **`LaunchHonoursIntent`**, and the recovery properties **`FailureIsRetried`, `SilentCoreIsReplaced`,
  `KilledCoreIsReplaced`**.
* **`StampDeterminesValue`**: equal stamps mean equal values on every copy
  anywhere. This is what makes last-writer-wins deterministic. The run shows that
  `rollback`, `unstamped_edit` and `stamps_lost` are the only ways to break it.
* **`ClockDominates`, `StampsNeverRegress`, `ConfirmedMeansDelivered`**: a new
  edit beats everything seen; nothing seen is forgotten; a peer is left alone
  only when it has every stamp or a newer one and, while values follow stamps,
  every value or a newer one.
* **`DriftIsNoticed`, `RunsValidConfig`**: the file and the running config differ
  only while an event is pending, unless a merge could not be saved or a start
  missed an edit between its load and its watch; the running config always
  validates.
* **`Converges`**: machines that stay up and visible end with the same shared
  config, if no breach happened.
* **`TrustNeedsBothUsers`**: trust, in memory or on disk, means that both users
  accepted in one and the same session. It may still be one-sided: the machine
  that sends its Confirm last can fail to save.
* **`CodesAgree`**: the two ends of a session show one code, two sessions never
  the same one. **`FailuresAreReal`**: no session fails for a lost frame, a
  misplaced message or a refused good signature. **`NoVainWait`**: nobody waits
  for a Confirm it has already read. **`SessionsEnd`**.
* **`InflightIsReal`, `LiveIsBacked`**: a peer marked as dialled or live is, or a
  message that says otherwise is queued. **`RevokedIsSilenced`**: a peer whose trust
  stays revoked ends without a session and gets no other, although dials, hand-offs
  and starts check trust before they await. **`BridgeFollowsConfig`**: what lossy
  channels drop is made up for. **`AudioComesUp`**: a session that stays wanted comes
  up, again and again if need be.
* **`SettledViewIsTrue`, `SettledConfigIsTrue`**: when nothing is on its way, the
  window agrees with the daemon, the audio section included. **`NoBlindPush`**: the
  window's own pushes are built on a config it received. It does not say that this
  config is the newest: a push can cross a change that is still queued for the
  window. **`Reconnects`**.
* **`CachedCoreIsWhole`**: what is trusted on sight was checked and fully
  written, unless a thread of a previous daemon was still writing or an older build
  left a truncated file. **`CoreIsResolved`**: no leftover and no failed removal
  wedges the cache, on a platform that the release has an asset for.
* **`InstallStaysUsable`**: a new GUI never stands beside an old daemon that the
  release replaces, nor beside an old patched Core; the GUI's file is absent only
  during a swap, or after one that failed or was cut off, on Windows or of a bundle;
  done is reported only when it is. **`RelaunchTakesOver`**: while the old process is
  on its way out, a new one ends up with a window that its user has, or has quit. It
  does not say that there is only one window.

## 4. Fairness

`CoreSupervisor!FairSpec`: weak fairness of the loop's arms (`select!` polls ready
arms in random order, so one that stays ready is taken), of timers, of the
resolution (the HTTP client has timeouts) and of the end of a killed process.
Nothing is assumed of the user, of a Core nobody killed or of the daemon.

`ConfigSync!FairSpec`: weak fairness of the 5 s reconcile, of the watcher event, of
expiring backoffs and of queued merges; strong fairness of the three steps of a
session. The last says that a network on which sessions are retried for ever
lets one through. Nothing is assumed of users, crashes or discovery: `Converges`
has "from some point on all are up and visible" as its premise.

`Pairing!FairSpec`: weak fairness of a connection attempt, which has a timeout, of
each end's steps (its task runs, and `SESSION_TIMEOUT` fires when the user or the
peer does not answer) and of the supervisor's tick. Nothing is assumed of users.

`AudioLinks!FairSpec`: weak fairness of the supervisor's arms, of the bridge's
loop, of its reap timer, of expiring backoffs and of a driver's report. Strong
fairness of a tick that finds room in the command channel and the trust mutex free:
the bridge empties the channel again and again, nobody holds the mutex across a wait,
and the tick recurs on a period of its own. Strong fairness of a negotiation that
connects and of a dial that goes on, its hand-off included: a teardown may cut either
short, but not for ever once edits and faults are over, and a full channel serves
those who wait for it in order.

`GuiSession!FairSpec`: weak fairness of the two threads, of the window's drains and
frames (egui repaints at least every five seconds) and of a started daemon's boot;
strong fairness of the attempt that spawns a daemon, since `event_loop` comes back
to it while none answers.

`CoreCache` and `Updater` assume weak fairness of the resolver's steps, and of the
exit of the old process and the start of the new one.

## 5. Proofs

All theorems hold for every value of the constants that meets the named
assumptions (`BackoffAssumption`, `CoreAssumption`, `NoLaunchAssumption`,
`RankAssumption`, `FieldsAssumption`, `SyncAssumption`, `PairingAssumption`,
`AudioAssumption`, `GuiAssumption`, the three `NoneAssumption`s,
`CacheAssumption`, `UpdaterAssumption`): any number of machines, fields, values, sessions, audio
peers, processes and files, any size of a channel, and no bound on clocks other
than the constant itself.

**CoreSupervisor.** `IInv` is the inductive invariant: `TypeOK`, the three
bookkeeping invariants together (`ExactlyOnePending`, `StateIsHonest`,
`OwnChildAccountedFor`), `NoLeakedCore`, `UnreadyCoreIsWatched`,
`PeersOnlyWhileRunning`, `RetryDelayWithinBudget` and `FilesFollowConfig`. None of
the bookkeeping three is inductive alone: `start_core` decides by `state` and
`child_kill`, so that nothing is started twice needs `StateIsHonest`, and that
needs `OwnChildAccountedFor` for the exit report. There is one lemma per conjunct,
with one step per action. From `IInv` follow `TypeCorrect`, `NeverStranded`,
`StateHonest`, `ChildAccountedFor`, `NoLeak`, `Watched`, `PeersHonest`,
`DelayWithinBudget`, `FilesLive` (when `EditMayRace` is false), `IntentHonoured`
(when the marker can be written) and `Refinement`: each step of the supervisor is
a step of `CoreSlot` or a stutter.

**VersionedConfig** (the first part of `ConfigSyncSteps`). `StampOrder` (strict total order), `MergeCoversBoth`,
`MergeIdempotent`, `MergeCommutes`, `MergeAssociates` and `LocalEditWins`. Together:
states may be exchanged in any order, any number of times, through any peers, and
the shared fields of the result are the same. `MergeCommutes` needs that equal
stamps mean equal values, which is `StampDeterminesValue`.

**ConfigSync.** `ConfigSyncSteps` first accounts for every copy of a versioned
config anywhere (machines, sessions, abandoned merges). Lemma `Accounting`: with
each step either nobody's state changes and every copy was there before, or one
machine adopts one new copy, by an edit or by a merge of copies already there,
or one machine restarts. The invariants of `ConfigSyncProofs` are then proved for these
three kinds of step instead of for every action:

* `TypeInv`: `TypeOK`, and every copy's clock is at least its stamps. Gives
  `SyncTypeCorrect`.
* `ClockInv` adds, while no machine restarted from an old sidecar, that no stamp
  of a machine anywhere is ahead of its clock, that a sidecar is never ahead of
  its machine, and that one with current stamps has a clock that covers the
  machine's stamps everywhere. Gives `ClocksDominate`. Without the last part a
  restart could reuse a counter.
* `ValueInv` adds that any two copies agree wherever their stamps are equal. It
  needs `ClockInv`: an edit takes a stamp that no copy can have. Gives
  `StampsName`.
* `StampsOnlyGrow` is an action property: `TypeInv` and the three kinds of step
  are enough.
* `DeliveryInv`: the stamps a session has sent, the peer covers once it replied;
  those that are confirmed, the peer covers. With `ValueInv`, which turns equal
  stamps into equal values, it gives `ConfirmationIsSound`.
* `FileInv` relates file, config, watcher and what a start has read. Gives
  `ConfigAlwaysValid` and `DriftAlwaysNoticed`.

**Pairing.** `PairingInv` is `PairingType`, `SessionInv` for each session and
`TrustNeedsBothUsers`. `SessionInv` says what may travel towards an end (the other
end's Hello, and a Confirm that says yes only if the other user did) and what the
place of a task implies about the users (an end that verifies has both
acceptances). Trust alone is not inductive, because the acceptance of the other
user reaches the end that saves only through the wire. Gives `TrustIsMutual` and
`CodesAlwaysAgree`.

`FlowInv` adds to it, for each end of each session, that what is left to read is
the rest of the two messages its peer sends, in order and sealed with consecutive
counters, a half-read frame included (`StreamInv`); that the counters of both ends
fit the places of the two tasks; that a Confirm kept for later carries the signature
that verifies (`OutcomeInv`); and that a session in `pairing_confirm` has not been
answered (`TableInv`), so that no verdict is taken twice. Gives
`FailuresAlwaysReal`: no dropped read loses a byte, so no frame, message or
signature is ever wrong; and `ConfirmsNeverLost`: by the counters, a Confirm that
was sent and is awaited is still to be read.

**AudioLinks.** `AudioInv`: `AudioType`; `InflightIsReal`; and `Backed`: while the
bridge runs, for a peer that has no session and is not a ghost, every event that
raises it, in the channel or in the bridge's hands, is followed by one that takes it
down, and while it is held to be live such an event is waiting. `LiveIsBacked` alone is not inductive: a status still queued could
raise a peer whose session is already gone. Gives `DialsAreReal` and
`BeliefsAreBacked`.

**GuiSession.** `ViewInv` has one argument for each part of the view, over the
stream that the subscriber's queue and the update channel form. An element of the
stream either writes that part or does not; the last write is what the daemon
holds, and where there is none the view holds it already (`LinkInv`, `StateInv`,
`TrustInv` and `DialogInv` for each peer, `ConfigInv`). A lag, a crash or a lost
stream ends in the notice that resets the view and in new snapshots, so the
argument is only made while the subscription is open and from the snapshot of that
part on. `ConfigInv` waits until no config event and no `SetConfig` is queued, and
says that a banner stands only over unsaved edits. `SeedInv` is the order of the
bootstrap: until the daemon's config is in the buffer or in the banner the window
does not know that it is connected, and in the channel the config stays ahead of
that notice; `reconcile` needs a connection and no banner. It uses that `None` is
no config. `ViewAlwaysCatchesUp` is this invariant; from it follow
`SettledViewAlwaysTrue`, `SettledConfigAlwaysTrue` and `NoPushIsBlind`.
None of the three is inductive: each speaks of empty channels, or of the command
alone.

**CoreCache.** `CacheInv`: `CacheTypeOK`; an archive in extraction was checked
(`CheckedBytes`); and, while no two writers overlapped, at most one thread writes
(`OneWriter`), what it has finished in staging is whole (`StagingGrows`), and
`<tag>` lacks a file or is whole, unless an older build left it cut
(`DestIsClean`). Gives `CacheIsSound`.

**Updater.** `UpdateInv`: `UpdaterTypeOK`; what is left of a plan says which files
are already new (`PlanIsOrdered`); done is reported by the worker and shown by the
dialog only after the last move (`DoneIsDone`, `ModalAgrees`); and the files fit
together (`FilesAreUsable`). Gives `UpdateIsSafe`.

Only model-checked: the temporal properties that need fairness, because `ENABLED`
and fairness are out of TLAPS's reach (`FailureIsRetried`, `SilentCoreIsReplaced`,
`KilledCoreIsReplaced`, `Converges`, `SessionsEnd`, `RevokedIsSilenced`,
`BridgeFollowsConfig`, `AudioComesUp`, `Reconnects`, `CoreIsResolved`,
`RelaunchTakesOver`), and the refuted statements. Every invariant and every action
property that a run checks is also a theorem.

## 6. Known disagreements

Between what the code does and what the code or a document says. The first is the
run `sync_rollback`; those marked with a config have a counterexample in the next
section.

* A rejected merge restores the values and keeps the stamps. One user removes a
  screen while another links it; the machines then differ for good, although
  `CONFIG-SYNC.md` says that every change converges (`config_edit.rs:139`).
* A change of `binaries.core` during a resolution launches the old binary,
  although a comment says it spawns from the live config (`CoreStaleBinary.cfg`).
* A crash of the daemon leaves its Core running on macOS and Windows, although a
  comment says that an orphaned server cannot keep the port; the parent-death signal
  is requested on Linux only (`CoreOrphan.cfg`; `core_proc.rs:115`).
* `stop_core` does not wait for a child whose kill handle the watchdog or a
  forced reconnect has taken (`CorePortRace.cfg`).
* When the marker of an earlier Stop cannot be removed, the next launch leaves
  sharing off (`CoreMarkerFailure.cfg`).
* A rejected merge can adopt a just-saved edit without restarting the Core
  (`CoreRollback.cfg`).
* The start of the daemon reads the config before it watches it: a file saved in
  between is neither run nor noticed until its next change (`SyncUnwatched.cfg`;
  `supervisor/mod.rs:265-289`).
* A driver that was aborted can report its status after `SessionClosed`; the peer
  then counts as live and is not dialled again (`AudioGhost.cfg`;
  `synbad-audio/src/session.rs:134`).
* A daemon that shuts down leaves its extraction thread running; a new daemon that
  stages at the same time can move an unfinished directory into place, although a
  comment says that only complete ones are moved (`CoreCacheOverlap.cfg`).
* A cache that an older build's crash left with every file present and one cut short
  is still trusted on sight, which a comment describes as the past ("was reused
  forever"; `CoreCacheLegacy.cfg`, `binaries.rs:225`).
* A swap of the running binary on Windows, or of a macOS bundle, that fails between
  its two renames leaves no GUI where one was, although `Plan` promises that the
  current binary still works (`UpdateAside.cfg`). A release without the daemon is
  installed beside the old one and reported as done (`UpdateHalf.cfg`).
* Quitting while the spawned daemon is not listening yet leaves it running
  (`GuiQuit.cfg`).
* Revert with nothing to load marks the buffer clean while it still holds the
  edits (`GuiRevert.cfg`). A refused `SetConfig` has the same effect.
* The layout editor deletes a screen while it still holds the rectangles of the
  frame: they are one more than the screens and shifted, so that links are derived
  from the wrong ones and the drawing loop indexes past the end
  (`synbad-gui/src/layout_editor.rs:139-164`). Not modelled: it is one call on one
  thread.
* The circuit breaker makes a client wait 60 to 300 s after repeated fast
  failures, although its backoff is capped at 10 s so that it "notices the server
  coming back within seconds" (`CoreClientCooldown.cfg`).

## 7. Counterexamples kept beside the runs

These configs check one statement each, and TLC refutes it. Run, for example,
`tlc -config GuiQuit.cfg GuiSession`.

| Config | Module | Refuted |
|---|---|---|
| `CoreStaleBinary.cfg` | `MCCoreSupervisor` | `SpawnsLiveBinary` |
| `CorePortRace.cfg` | `MCCoreSupervisor` | `ReleasedChildIsGone` |
| `CoreMarkerFailure.cfg` | `MCCoreSupervisor` | `MarkerFailureStillStarts` |
| `CoreRollback.cfg` | `MCCoreSupervisor` | `EveryEditReachesCore` |
| `CoreOrphan.cfg` | `MCCoreSupervisor` | `NoOrphanBesideDaemon` |
| `CoreClientCooldown.cfg` | `MCCoreSupervisor` | `ClientRetriesSoon` |
| `SyncUnwatched.cfg` | `MCConfigSync` | `EveryEditIsNoticed` |
| `AudioGhost.cfg` | `AudioLinks` | `ClosedIsRedialled` |
| `CoreCacheOverlap.cfg` | `CoreCache` | `MovedOnlyWhenWritten` |
| `CoreCacheLegacy.cfg` | `CoreCache` | `TruncatedIsNotReused` |
| `UpdateAside.cfg` | `Updater` | `CurrentBinarySurvives` |
| `UpdateHalf.cfg` | `Updater` | `NoHalfUpgrade` |
| `GuiQuit.cfg` | `GuiSession` | `NoDaemonLingers` |
| `GuiRevert.cfg` | `GuiSession` | `DirtyTracksDivergence` |

## 8. Not modelled

* Rendering, tray, the enumeration of monitors and the geometry of the layout
  editor: sequential code without state that outlives a frame.
* Audio samples, codecs, devices and the SDP exchange: data, not control.
* Cryptography: a body opens only with the key and counter it was sealed with, and
  a signature only verifies over what was signed.
* mDNS and the choice of interfaces: a library; peers appear, vanish and may be
  stale.
* Parsing and writing of the config, of generated Core files and of log prefixes:
  conversions without interleaving. What their results distinguish is kept.
* The architectures that `lipo` reports of a macOS Core, and a patched Core that lies
  beside the executable and needs no resolution.
* The clean-up of files that an install renamed aside.
* Logging and the daemon's entry point: no state of their own.
* The 64-session cap of the sync listener, the frame limit, and trust revoked
  during a sync session. `ConfigSync` assumes that the machines stay paired.
* More than two machines in TLC's runs of `ConfigSync` and `Pairing`; the theorems
  are for any number.
* Reuse of a pid while a report of its previous owner is queued, for which
  `handle_child_exit` has no defence, and a sidecar damaged by hand.
