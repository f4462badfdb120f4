# A TLA+ verification project for MiSTer MagiK

MiSTer MagiK is a launcher for the MiSTer FPGA computer: a Rust program on the
board's ARM core that draws its own user interface, hands pictures to the FPGA
through a small *vertical-blank latch*, catalogues games and starts cores
through `Main_MiSTer`; an agent beside it installs new builds. This directory holds TLA+
models of its core, TLC configurations that check them on small instances, and
proofs checked by TLAPS for all values of the constants. Paths below are relative
to the repository.

Contents: 1 the system, 2 the modules, 3 the runs, 4 bounds, 5 fairness,
6 proofs, 7 assumptions of the models, 8 disagreements with the code's own
words, 9 not modelled, 10 plan.

## 1. The system: inventory

*M* marks the components with a model, whole or in part (section 9 says which parts).

| component (where) | state it keeps | operations | talks to | hard behaviour | what makes it correct |
|---|---|---|---|---|---|
| *M* Two-slot latch state (`mister/platform/runtime/src/framebuffer/latch_state.rs`) | next slot, per slot: layers with version and scroll offset, publications; a damage ledger | `plan_next`, `mark_post_success`, `mark_attempt_failed`, `sync_hardware`, `invalidate_all` | presenter, damage ledger | a slot is always one or two frames behind; every skipped, refused or lost frame changes what it lacks | never claims that a slot holds what it does not |
| *M* Damage ledger (`framebuffer/damage.rs`) | per slot: bounded list of rectangles owed | `record_damage`, `plan`, `mark_presented`, `invalidate_*` | latch state | damage is recorded for both slots, paid by one; overflow | no damage is lost in either slot |
| *M* Hidden-slot presenter (`apps/mister/src/ui_runner/launcher_present/latch.rs`) | latch state, sequence, grants, mirrors of published pixels, `hidden_active_verified` | cached frame, external hidden frames, discard, status synchronisation, mode ends | frame loop, FPGA, mapped slots | status is read before and again under the UIO lock; failure half way | posts whole and right pictures only, never into a shown or queued slot |
| *M* Orchestrator and recovery (`launcher_present/orchestrator.rs`) | live or frozen presenter, retry budget and deadline, restart request | present, record a failure, begin a retry, take the restart request | presenter, frame loop | a bounded retry budget, a one-shot process-wide flag | a frozen display recovers or is escalated |
| *M* FPGA latch (`mister/platform/fpga/menu-vblank-latch/*.sv`) | active, pending and accepted identities, receiver, receipt | SET stream, blank, legacy write, reads | ARM over UIO, scaler, Main | words in any state of health, blank at any time, Main's writes | at most one pending, never the slot on screen, a receipt that does not lie |
| *M* Post and confirmation (`framebuffer/full_frame_latch.rs`) | read budget, deadlines | lock, check, SET, receipt, post-status, completion wait | UIO transport, latch | receipt lost, sequences that repeat, Main in between | "confirmed" means this frame |
| *M* UIO transport (`mister/platform/runtime/src/fpga.rs`) | the wire, transaction ids | `set_vblank_latch_once`, reads | latch | lost, doubled, damaged words | a damaged stream is never accepted |
| *M* Frame loop (`ui_runner/launcher_loop.rs`, `launcher_loop/frame_loop.rs`) | damage of the frame, layer updates, pending full copy, restart request | render, shield, submit, preempt, wait, retry, restart | everything above, input | input may interrupt between any two phases | whatever was rendered reaches the screen |
| *M* Work arbitration and UI motion (`crates/catalog/src/{work_coordinator,ui_motion,cooperative_work}.rs`) | foreground count, deferred units, fairness pass | `acquire`, `cooperate`, `release`, motion leases | all background threads | condition variables, timeouts | background yields, but not for ever |
| Full-screen transitions, composition (`apps/mister/src/launcher_runtime/*`) | transition chart with owner and generation, composition of layers | begin, capture, release, presented | frame loop | late completions of an older generation | one owner; layers retire with a complete frame |
| *M* Lifecycle, startup reveal (`launcher_runtime/lifecycle.rs`) | lifecycle and reveal charts | events of catalog, launch, recovery | frame loop, catalog session | late answers after recovery | revealed once ready, never stuck |
| *M* Catalog publication and lease (`crates/catalog/src/{catalog_lease,shard_registry,...}.rs`) | mutation lease, two manifest slots, artifacts, commits, watch packs, staged refresh state | acquire, plan, collect, copy, sync, stage, commit, publish, discard, prune | builders, readers, file system | death and loss of power between any two system calls; a reader one commit behind | one commit point; a manifest never names what is not durable |
| Preview workers (`crates/catalog/src/preview_worker.rs`) | latest-request mailbox, caches, generations | publish, take, answer | preview state | late answers | the shown preview belongs to the selection |
| *M* Catalog worker and session (`ui_runner/{catalog_worker,launcher_catalog_session}.rs`) | the child and its protocol, reaper and watchdog; three channels; refresh and staleness flags | load, reconcile, build, retry, refresh; ready, failed, done | lifecycle, reveal, frame loop | a child that stalls, fails or dies; messages put off and overtaken | one builder at a time; every refresh ends; the catalog on screen stays playable |
| *M* Launch handoff (`ui_runner/launch_handoff_session.rs`, `runtime/src/main_command.rs`) | launch worker, process-wide flag | begin, completion, recovery of a stale flag, handoff | Main, lifecycle | catalog events and dialogs while a launch is under way | a launch is held until it ends in the game or in a dialog |
| User state, controller registry (`crates/catalog/src/user_state.rs`, `crates/controller-registry`) | SQLite rows, JSON files | favourites, recents, mappings | UI, handoff | partial writes | summaries agree with rows |
| Input hub and repeat (`apps/mister/src/input_hub.rs`, `crates/magik-core`) | mailbox, observation counter, repeat gates | publish, drain, wait | reader thread, frame loop | lost wake-ups, proxy loss | no press is lost or stuck |
| *M* Agent: publication, installation (`magik/agent`) | `app-install.json` and backups; stage directory with `transaction.json`; `launcher.env` | upload, managed start, finish, recover; publish, finish, restore; reboot | file system, Main, operator, host | failure, death or loss of power between two renames; the two deliveries in any order | old or new set, never a mixture; the operator's lines survive |
| Framebuffer stream (`crates/framebuffer-stream`) | key and delta frames | encode, decode | remote viewer | slow consumers | a delta only on its key |
| Kernel plug-ins, scanning and media, rendering, desktop and host tools | see section 9 | | | | |

How the core interacts. Each iteration of the frame loop retries a frozen
presenter if it is time, hands a restart request over, updates layers and
renders the damaged base, and submits the frame. The presenter asks the latch
state for a *plan* (which slot, what to restore from the base, which layers to
redraw), copies exactly that, and posts the slot: a locked status check, the SET
stream, a receipt, up to three status reads, and a wait for the flip, which
input may cut short. Main_MiSTer can take the output at any moment with a legacy
framebuffer write. Every failure drops the presenter; a retry builds a new one.

Beside the loop a child process loads, reconciles or builds the catalog. It
holds a lease on the SD card, writes artifacts, refresh state and a manifest, and
tells the loop through a protocol whose reader sorts the messages into three
channels. The loop takes them one at a time, moves the lifecycle chart, lets the
reveal chart decide when the first picture is shown, and answers the user: browse,
refresh, launch, answer a dialog. A launch hands the machine to Main and ends the
process. The agent, another process, replaces the application, the manifest that
binds it to Main, and whole platforms, each with a way back until the new files
have proved themselves.

## 2. The modules

| module | what it is |
|---|---|
| `LatchDisplay` | the abstract promise to a viewer: only whole frames are shown or queued |
| `LatchDevice` | the latch as its clients may see it: `Accept`, `Flip`, `Takeover` |
| `SlotLedger` | latch state and damage ledger as functions of a ledger value |
| `LatchSlots` | frame loop, presenter, ledger, slot memory and device composed |
| `MCLatchSlots` | layouts for TLC and the sub-systems of the counterexample runs |
| `LatchPost` | one post word by word; refines `LatchDevice` |
| `LatchRecovery` | retry and escalation of a frozen display |
| `MCLatchRecovery` | the real retry delays |
| `WorkArbitration` | motion signal, work coordinator and parked checkpoints with their mutexes |
| `CatalogRegister` | the abstract promise of the catalog: one commit point, and power takes back at most one commit |
| `CatalogPublication` | builds and refreshes of the catalog on the card; refines `CatalogRegister` |
| `MCCatalog` | bound on interruptions, symmetry |
| `TrialSwitch` | the abstract promise of a delivery: a set on trial beside the proven one |
| `InstalledFiles` | the files of an installation, losing power, the program that runs from them |
| `AppInstallation` | upload, managed start, finish and recovery of an application |
| `PlatformPublication` | publication, finish and restore of a platform or a local Main |
| `DeviceDelivery` | both on one device, with failures, deaths, reboots; refines `TrialSwitch` |
| `MCDelivery` | bound on faults, symmetry, when launcher and operator act |
| `LauncherLifecycle` | the lifecycle and reveal charts as functions |
| `CatalogWorker` | a catalog job: child, protocol reader, reaper, watchdog, scheduler |
| `LauncherSession` | the launcher process: session, lifecycle, reveal, user, launch |
| `LatchSlotsProofs`, `LatchRecoveryProofs`, `LatchPostProofs`, `WorkArbitrationProofs`, `CatalogPublicationProofs`, `LauncherSessionProofs`, `DeviceDeliveryProofs`, `DeliveryTrialProofs` | theorems |

```
 LatchDisplay  <--refined by--  LatchSlots  --uses-->  LatchDevice
                                    |  extends             ^ refined by
                                SlotLedger             LatchPost
              LatchRecovery: when LatchSlots' Freeze and Reopen happen

 CatalogRegister  <--refined by--  CatalogPublication   what a builder does to the card
                                        : registry = none, broken, behind, current
 LauncherSession  --extends-->  CatalogWorker, LauncherLifecycle

 TrialSwitch  <--refined by--  DeviceDelivery  --extends-->  AppInstallation, PlatformPublication
                                                                  |  extend
                                                             InstalledFiles
```

**SlotLedger.** A rectangle is a set of *cells*, the regions the properties tell
apart. Versions of a layer and generations of a publication only grow and are
only compared with those wanted now, so a slot's copy is `"now"` or `"old"`;
`AgeVersion` and `AgePublication` are the growth. `RecordDamage` may always
overflow to the full frame. `Redraw`, `RestoreCells`, `RequiresFull`, `DiffSafe`
are `plan_for_slot`.

**LatchSlots.** Slot memory `mem[s][c]` holds what a pixel is *relative to what
the launcher wants now*: `Base`, `<<role, offset>>`, `Direct` (a frame drawn
straight into the slot) or `Stale`, and content changes turn pixels stale in the
step that makes them so. `pc` is where the loop stands. Actions and code:

| action | code |
|---|---|
| `RenderBase`, `LayerContent`, `ListScroll`, `LayerShow`, `LayerHide` | rendering and the layer updates of an iteration |
| `Submit`, `Suppress` | shielding of base damage under a publication, the reveal gate, a frozen display |
| `PreemptRaster`, `YieldAfterTake` | newer input before publication; early returns after the obligation was taken |
| `PlanNext`, `PlanFails` | status, synchronisation, `plan_next` |
| `Compose(sparse)`, `ComposeFails` | base copies, layer copies, the mirror and its sparse copy |
| `PostConfirmed`, `PostRefused`, `PostLost` | the post and its three outcomes: `PostLost` was accepted, its answer was not heard |
| `AwaitDone`, `AwaitFails`, `AwaitInterrupted` | the confirmation wait |
| `Reopen` | a successful retry |
| `DirectRender`, `DirectPost`, `DirectDiscard`, `DirectModeEnds` | external hidden frames |
| `Flip`, `Takeover` | the blank; Main's legacy write, enabled in every state |

**LatchPost.** `core` is the latch's registers; `Word` is its receiver, and
`SendWord(fate)` sends one word that is delivered, lost, doubled or damaged. The
CRC is ideal: it matches exactly when every word stands where it was sent.
`mine` is history: where this post's own frame is. Main, other readers and the
death of the presenter may act between any two steps; only the words of one SET
are kept together by the UIO lock.

**LatchRecovery.** One frame is *retry, restart request, present*; `due` counts
ticks to the next retry; `claimed` is the process-wide flag in `launcher.rs`;
`MainRestarts` is a new process.

**WorkArbitration.** The frame loop stores the motion signal (an atomic, outside
any mutex) and, when motion ends, wakes first the parked scopes and then the
coordinator's waiters. A background thread asks (`Cooperate`, `Checkpoint`),
takes its mutex (`YieldToMotion`, `Park`), tests (`Recheck`), and only then waits
(`FallAsleep`); these are separate steps because the signal may change between
them. `SliceEnds` is a timeout at any moment. Prefetchers yield to motion and to
foreground leases (the preview prefetch thread), streams only to leases (the
framebuffer stream), scopes only to motion (catalog building). `yieldStart` is
the coordinator's shared `motion_yield_started`, `began[t]` a thread's own copy.

**CatalogPublication.** `lease` is the holder of the mutation lease, `job[p]` where
a process stands and the manifest it prepares. The card is `artifact` per
system and generation, the manifest slots `slot`, `commits`, `packs` and
`staged`; `unsynced` are the artifacts touched since the last `syncfs`, `former`
the two slots as the card holds them. A manifest carries the refresh state it was
committed with. Contents are told apart by generation only.

| action | code |
|---|---|
| `Acquire`, `Ends` | the lease, its release |
| `Plan` | what changed: systems to write, empty, keep or drop; the next generation (`prepare_snapshot_selection`) |
| `Collect`, `Collected` | `garbage_collect_unreferenced`: everything that neither slot refers to |
| `CopyStarts`, `CopyEnds`, `CopyFails`, `SyncArtifacts` | the artifacts, one at a time, then `syncfs` |
| `WritePack`, `Stage`, `WriteCommit` | watch pack, staged refresh manifest, committed refresh state |
| `Publish`, `Replace` | the rename over the older slot; a refresh that only renews its own state replaces the newest |
| `Settle` | the sync of the directory: the commit is firm |
| `Discard`, `Discarded` | the artifacts of no slot, after the commit |
| `PruneCommit`, `PrunePack` | `cleanup_refresh_history` |
| `PowerLoss` | unsynced artifacts become absent, torn or whole; an unsynced rename is undone or not; every process is gone |

**DeviceDelivery.** `files` is the Dev directory by name, `unsynced[e]` all the
files the name `e` may hold after a loss of power, `main` the installed Main
(standing for every other component of a platform), `running` and `launcher` what
runs. `job` is the one mutation the agent serves, as a position and the names still
to do; between two steps of it the agent may die. A manifest is the pair of
builds that it binds. `settings` is history: what the operator last wrote.

| action | code |
|---|---|
| `Upload`, `SavePreparing`, `BackupStarts`, `BackupEnds`, `SavePrepared`, `PublishApp`, `PublishManifest` | `publish_app`, receipt first, manifest last |
| `InstallFails`, `BackupFails` | its two error paths: restore, or remove what was created |
| `StartRunning`, `StartManaged`, `Arm`, `Launch`, `Verified`, `StartFails` | `start_managed_magik` and its rollback of the managed block |
| `SaveReady`, `Drop`, `Dropped`, `NotFinished`, `FinishWithoutReceipt` | `finish_app_install`, `cleanup_backups` |
| `Recover`, `RecoverVerified`, `RecoverReady`, `RecoverOutstanding`, `RecoverNothing`, `RecoverLegacyPair`, `RecoverLegacyRest`, `Unmanage`, `Resumes` | `recover_app_install` by what it finds |
| `CopyBack`, `CopiedBack`, `SaveRestored`, `RemoveReceipt` | `InstallFiles::restore` |
| `Publish`, `Disarm`, `SaveEntry`, `ReplaceEntry`, `AwaitReboot`, `ReloadHealthy` | `Agent::publish`, `replace`, activation |
| `PublishFails`, `RevertEntry`, `RevertFails`, `Reverted`, `RestoreStage`, `FinishStage`, `Discard` | the journal run backwards, the explicit controls |
| `Reboot`, `AgentDies`, `PowerLoss`, `Environment` | between any two steps; the launcher becomes ready or is started again, the operator edits |

**LauncherSession.** The child (`CatalogWorker`) leads the registry from `"none"`,
`"broken"` or `"behind"` to `"current"` and says so; `Reap` and `Watchdog` are the
threads beside it. `stage` is the process itself; what the scheduler knows of it is
`job`, which ends when a terminal message is received, and `handle`
(`catalog_child_control`), which it keeps as long as it has not seen the process reaped
(`KeepsHandle`). `TryRecv` is the order in which `CatalogWorkerReceiver` hands messages
out; `answer` is a terminal message received and not yet handled
(`deferred_catalog_events`). `life`, `dialog` and `reveal` are the charts.

| action | code |
|---|---|
| `ReceiveTerminal`, `ReceiveDisconnected` | `poll_catalog`: the job ends with a terminal message, or with channels closed behind a message that was missed |
| `LoadFailed`, `PersistenceFailed`, `Done`, `SeedReady`, `RegistryReady` | a message of the job is handled, with the whole effect it has on session, lifecycle and reveal (`BuildFinished`, `UseCatalog`) |
| `DeferReady`, `DeferredReady` | a Ready put off while the list scrolls, and taken when it rests |
| `StartDeferred`, `HoldWork`, `AllowWork` | the first build, after the first frame, once input and transitions let background work go on |
| `RefreshDatabase`, `Choose`, `StartWorker` | every other start of a job: refused while a process may exist; a process that cannot be spawned is a failed job without a handle |
| `TickReveal`, `ShardArrives`, `PreviewSettles`, `PresentFirstFrame`, `Deadline` | the first picture, cold, warm or returning from a game |
| `RefreshDatabase`, `ConfirmDialog`, `CancelDialog` | Settings' refresh and the recovery dialog |
| `LaunchGame`, `LaunchSucceeds`, `LaunchFails`, `RecoverTransport`, `HandoffEnds`, `AcknowledgeFailure` | a launch |
| `GamesChange` | games come and go on the card |

## 3. The runs

| run | question | result |
|---|---|---|
| `landscape` | preview published, cached list; every interleaving of everything in `LatchSlots` | passes, about 651 000 states |
| `portrait` | the list published and scrolling between two offsets, with sparse copies | passes, about 436 000 states |
| `post` | the word protocol with faults, three words, sequences 1..3, three transaction ids | passes, about 16 000 states |
| `recovery` | four retries after 250 ms, 1 s, 5 s, 60 s; safety and liveness | passes, 862 states |
| `arbitration` | a prefetcher, a stream, a scope, a foreground thread; safety and liveness | passes, about 26 000 states |
| `catalog` | two builders, two systems, one interruption; loss of power between any two steps | passes, about 225 000 states |
| `delivery` | uploads, starts, recoveries and publications in any order, one fault | passes, about 1 458 000 states |
| `launcher` | the launcher process from all that startup may find; safety and liveness | passes, about 249 000 states |
| `yield` | is the full-copy obligation retained, as a test says? | violated, section 8 |
| `unsynced_commit` | does a build leave the previous catalog, as a doc says, when one dies before its sync? | violated, section 8 |
| `unreconciled` | does a later delivery reconcile an interrupted one, as a doc says? | violated, section 8 |
| `refresh` | does the registry remain launchable during an update, as a doc says? | violated, section 8 |

The properties:

* `BaseCoherent` - outside its debt and the layers it holds, a slot shows the
  current base: no damage is lost between the slots by any history of skipped,
  refused, lost, interrupted or direct frames.
* `LayerCoherent` - a slot credited with a layer's current content shows exactly
  it, at the recorded scroll offset.
* `PostedPicture` - a posted cached frame is, cell for cell, the picture wanted,
  although only the planned regions were written.
* `MirrorHonest` - the sparse list copy is only taken when the RAM mirror equals
  the slot.
* `WholeFrames` - `LatchSlots` refines `LatchDisplay`: nothing is ever written
  into a slot that is shown or queued.
* `AcceptedIsActive` - the assertion of the latch itself.
* `ConfirmedIsMine` - a post past its receipt has *its own* frame queued or
  shown, unless Main took the output, although each new presenter starts again
  at sequence 1 and words go wrong.
* `CompletionSound` - the wait compares sequence numbers only, and still ends
  only when this post's slot is on screen.
* `ImplementsDevice` - the protocol refines the device `LatchSlots` uses.
* `FrozenIsCovered`, `RequestNotSwallowed`, `RecoversOrEscalates` - a frozen
  display always has a retry scheduled or a restart on its way, the one-shot flag
  swallows no request, and the display does not stay frozen unless the restart
  command was handed over (which may itself be lost: `command = "lost"` is final
  in the code too; see the hazard at `frame_loop.rs:1095`).
* `NoLostWakeup` - once the end of motion is published, no unit waits for it or is
  about to, whatever it had tested before.
* `NotStarved` - a unit that asks is let go although motion and foreground work
  may last for ever.
* `CatalogIntact` - the artifacts the selected manifest refers to, active and
  previous, are whole at every moment, after every death and loss of power.
* `RefreshKept` - so is the refresh state of *both* slots: file, binding and watch
  packs, although each commit prunes the history of the ones before.
* `RetryNotRefused` - what a dead builder left never makes the next one refuse: no
  target exists, no pack name is in use, the commit point accepts.
* `ReaderServed` - a reader that opened its manifest one commit ago can still open
  every system that is still in the catalog, while the collector runs.
* `OneCommitPoint` - refinement of `CatalogRegister`.
* `ManifestBinds` - between deliveries the manifest names the application and the
  Main that are installed.
* `BackupsWhole` - as long as any receipt that a loss of power may leave asks for a
  restoration, what it restores is there, whole and matching.
* `SettingsKept` - deployment, rollback and recovery never touch the operator's
  lines, also those written in the meantime.
* `InstallStartsClean` - an upload begins with nothing left to reconcile.
* `MainResumed` - a request answered with an error leaves Main suspended only behind
  an application or a platform published as a whole.
* `OneSetOrTheOther` - refinement of `TrialSwitch`: the previous set is what a
  recovery leads to until the new one, whole and matching, takes over in one step.
* `LaunchIsHeld` - whatever the catalog job reports during a launch, the lifecycle
  stays in it, its worker runs exactly then, and the flag holds to the handoff.
* `StaleIsPlayable` - a dialog that offers to continue has a catalog to continue with.
* `BuildersNeverOverlap` - no catalog process is started beside one not yet reaped,
  although a job ends with a message or a closed channel, before or after its process.
* `InputNeverBlack`, `RevealComes` - the picture comes, and is never taken away again.
* `RefreshConcludes`, `LaunchEnds` - a refresh ends, a launch ends in the game or in a
  dialog, although the child may stall and the user may do anything.

Each property is accompanied by a plausible bug of the code - a *mutant*, kept
next to the definition it alters - under which its run fails.

## 4. Bounds

* Two slots: the hardware's number, not a bound.
* Two cells, one under each layer; each shows the base while its layer is
  hidden. Cells interact only through a layer's rectangle, a debt or the full
  frame, so one cell per layer meets every case of *covered, uncovered, owed,
  restored*. Two offsets are needed only where the list is published; the
  proofs hold for every set of cells, layout and set of offsets.
* `portrait` leaves the preview's content alone (`ListSpec`): both layers at two
  offsets exceed a run of minutes. `landscape` has both layers moving.
* `post`: three payload words stand for eleven; the receiver treats all words
  before the CRC alike. Three sequences wrap and repeat within a run, three
  transaction ids wrap. The proofs cover all widths.
* `recovery`: the real four delays, in ticks of 250 ms. No other counter is cut.
* `arbitration`: `MAX_DEFERRAL` is two ticks and the fairness limit one, so that
  both are reached and passed; one thread of each kind, the number the launcher
  has of prefetchers and streams. Any number is covered by the proof.

* `catalog`: two systems, so that one may be kept, emptied or dropped while the other
  is written; two processes, one of which waits for the lease. Three generations use each slot again (`MaxGeneration`,
  `MaxRefresh`; the code's are `u64`). `MaxFaults = 1`: one interrupted job,
  anywhere, followed by any number of whole ones and by losses of power while
  nothing is half done. `DiesUnsynced = FALSE` leaves out the one death that
  `unsynced_commit` is about, which needs two.
* `delivery`: two builds of each kind, the installed one and another, which also
  returns to the first; `MaxFaults = 1` fault per behaviour, at any step; deliveries
  themselves are not bounded. `LegacyBackups` starts from what an agent without
  receipts may have left. The launcher becomes ready and the operator writes where
  the agent looks (`MCDelivery!Acts`): at other steps the agent reads neither, and
  the steps commute. `HostReconciles = TRUE` is a host that delivers one thing
  at a time; `FALSE` is the run `unreconciled`.
* `launcher` and `refresh`: no constants and no bounds. The registry is abstracted
  to how it stands to the games; every channel holds what the code can send. At most one
  terminal message waits to be handled: the job it ended is the only one there is, and
  the next one's messages are handled after it.

Deadlock is checked in all runs except `launcher` and `refresh`, in which the process
ends (`life = "exited"`).

## 5. Fairness

`LatchRecovery!Spec` and `WorkArbitration!Spec` state fairness. In the first,
`WF_vars(Loop)`: the frame loop keeps
iterating; an idle iteration sleeps at most a frame period or until the next
timer (`launcher_idle_sleep_duration`, `launcher_loop.rs` 1185-1189), so a
retry's deadline does not depend on input. `WF_vars(Tick)`: the monotonic clock
advances. `MainRestarts` is not fair: nothing in this repository makes Main
answer. In the second, time passes, and what a thread does after it has asked, and
the frame loop after it has cleared the signal, is strongly fair: these steps may
need a mutex that others take and release again and again. `std::sync::Mutex`
promises no order; the assumption is only that no thread is passed over for ever.
Asking, motion and leases are not fair.

`LauncherSession!FairSpec`: the loop takes what is there (`Poll`, the handlers of
messages, `TickReveal`, `PreviewSettles`, `PresentFirstFrame`), since every iteration runs
these, under input too (`catalog_poll_scope` narrows what is polled and never skips the
job), and never blocks on the child; deadlines pass. The first build is different:
`StartDeferred` waits for an iteration that allows background work, which no pending
input, no direction held and no transition hold back (`frame_loop.rs` 867-875, 1307).
These come and go, so `StartDeferred` is strongly fair, and `AllowWork` is fair: a
direction is not held for ever. This is the one thing asked of the user, and the code
promises no first build without it; `HoldWork` itself may happen again and again. The
reaper's thread waits for the child and nothing else, and a child that has finished or
was killed ends; the watchdog stops a child
that sends nothing for its time (`tick_catalog_progress`), so that a child progresses
or is stopped - its own progress is *not* fair; a scrolling list comes to rest
(`stationary_edge`), so a Ready put off is taken; the launch worker's waits are all
bounded, and the handoff that follows is a fixed sequence. The user's own
actions are not fair, and no property needs them. The other modules state safety only, since the flip depends on a video
clock and Main may withhold the output for ever.

## 6. Proofs

Every theorem is checked by `tlapm` to the last leaf; the assumptions are those
on the constants: `LayoutAssumption` (layers lie in the composition, the two
rectangles are disjoint, offset 0 exists), `DelayAssumption`, `WireAssumption`
(the three bounds are positive), `ArbitrationAssumption` (the kinds of threads are
disjoint, the deferral lasts at least a tick), `BoundsAssumption` and
`FlagAssumption` (two natural numbers and a Boolean), `NoneAssumption` (the absent value
is neither a process nor a manifest nor a refresh state); of the deliveries
`SettingsAssumption`, `NoFileAssumption` and `NamesAssumption` (no file, and half of
one, are none of the files), `SetsAssumption` (no file is no set of files) and their two
flags.

* `LatchSlotsProofs`: `TypeCorrect`; `WriteTargetCorrect` from the inductive
  `TypeOK /\ WriteTarget`: while a slot is composed, posted or drawn directly,
  nothing is queued and it is not on screen. The key is that only `Accept` fills
  the queue and only the poster calls it, so a status that showed nothing queued
  stays true until the poster acts, whatever Main does. `WholeFramesCorrect`
  follows: each step maps to a step of `LatchDisplay` or a stutter.
* `LatchSlotsProofs`, second part: the four content properties are not inductive alone -
  a plan is made from a ledger that may be wiped before the post succeeds, and
  the picture depends on the plan. `Coherence` adds `LoopDiscipline` (what is
  owed in which place), `PlanFaithful` (a plan restores and redraws all that its
  slot lacked, and what it leaves alone is current) and `PlannedPublication`.
  It is proved step by step in each conjunct for `Spec`, and
  `BaseCoherentCorrect`, `LayerCoherentCorrect`, `PostedPictureCorrect` and
  `MirrorHonestCorrect` read it off.
* `LatchRecoveryProofs`: `RecoveryInvariant` gives `RecoveryTypeCorrect`,
  `FrozenIsCoveredCorrect`, `RequestNotSwallowedCorrect`, for every budget and
  all delays. The strengthening says that a request ends the automatic retries of
  its process, so no second one can follow.
* `LatchPostProofs`: `PostInvariant` adds to the properties how registers follow
  each other (`RegistersFollow`, `FrameFollows`), that nobody else can queue
  between the check and the end of the wait (`PostingAlone`), and that an accepted
  receipt belongs to this post (`ReceiptFollows`). From it `PostTypeCorrect`,
  `AcceptedIsActiveCorrect`, `ConfirmedIsMineCorrect`, the action property
  `CompletionSoundCorrect` and the refinement `ImplementsDeviceCorrect`, for every
  number of words, sequences and ids. The two refinements compose: the display
  promise rests on the wire protocol.

* `WorkArbitrationProofs`: `ArbitrationInvariant` adds `Holding` (a thread between
  test and wait holds its mutex) and `WakeAhead` (after the signal is cleared, a
  waiting thread's notification is still to come). The step that matters is
  `LockParked`: the mutex is free, so nobody stands between test and wait, and
  whoever tests later sees the cleared signal. From it `ArbitrationTypeCorrect`
  and `NoLostWakeupCorrect`, for any number of threads.

* `CatalogPublicationProofs`: for any number of systems, processes and generations,
  `TypeCorrect`, and `CatalogStaysReadable`: `CatalogIntact` when `DiesUnsynced` is
  false. `CatalogIntact` is not inductive: what a loss of power brings back is
  `former`, and what the next commit
  refers to has been copied and not synced. The strengthening `TypeInv /\ SafeInv` says that
  only the holder of the lease is at work, that outside the step between rename and
  sync the card holds the slots as they are seen (`Settled`), that nothing is unsynced at
  the commit point (`Synced`), that the two slots never have the same generation
  (`Apart`), and that all that the newest manifest of either view refers to is whole and
  synced (`Safe`). The assumption `~DiesUnsynced` enters through `Settled`: the collector
  trusts `slot`, and only a builder that dies between rename and sync leaves it
  different from `former`.

  The second half of the module proves the other four promises of the catalog, under the same
  condition and for any number of systems, processes and generations. Each compares the
  manifest being prepared with the newest one, so none is inductive; the strengthening
  `CommitInv` has two halves. `SlotsInv` is about what was committed: a slot's refresh
  state is there, bound to it, refers to packs that exist and none newer than itself
  (`Kept`); what the older slot holds of a system is the newer one's active or previous
  artifact (`Follows`). It holds of `slot` and of `former`, so that a loss of power keeps
  it. The other half is about the draft, at each stage: it follows the newest manifest
  and is its successor, or the same catalog with another refresh state (`Planned`); what
  it refers to is whole or still to be copied, and nothing is in the way of a copy
  (`Copied`); the packs it keeps exist and its refresh generation is the newest
  (`Refreshed`). `RefreshStaysKept` and `ReaderStaysServed` read off `SlotsInv`, the
  second with `Safe`; `RetryNotRefusedCorrect` reads off the draft's half that the checks
  before the commit point cannot fail; `OneCommitPointCorrect` maps a rename to the
  register's `Commit`, a loss of power to its `PowerLoss` or `Settle`, and every other
  step to `Settle` or a stutter.

* `LauncherSessionProofs`: `SessionInv` adds to the properties that the channel holds
  no more than its stage allows (`ChannelFollows`: nothing before the child has sent
  anything, at most one message until it has announced) and that a catalog which a
  dialog offers to go on with is loaded and no capsule (`OfferStands`), since the next
  failure discards a capsule. `BuildersNeverOverlap` is not inductive: the scheduler
  tests the handle, not the process, so a start is safe only if no process is ever
  without one (`ProcessHeld`: whatever is not reaped has its handle). The steps that
  matter are those in which a job ends - a terminal message received while the child is
  ending keeps the handle, and the disconnected path drops it only behind a process that
  is gone - and the start of a process that replaces it. From it `TypeCorrect`, `LaunchIsHeldCorrect`,
  `StaleIsPlayableCorrect`, `BuildersNeverOverlapCorrect` and `InputNeverBlackCorrect`.

* `DeviceDeliveryProofs`: for any number of failures, deaths of the agent, reboots and
  losses of power, whatever the flags, and any sets of builds and settings (the run has
  one fault). `DeliveryInv` has two halves. `DiskFits` is about the disk at any time: what is there
  may survive (`FilesStand`), a torn backup is one that no receipt promises, and where
  there may be no receipt a backup is an older agent's, synced as long as it is there.
  `JobFits` says what holds at each place of a job, also before the sync that leads to
  it: at a backup nothing was torn but the copy being made, at a cleanup what is not
  left to do is gone, at an installation all of it. `SettingsKeptCorrect` needs the first
  half alone (a torn or lost `launcher.env` is never there), `InstallStartsCleanCorrect`
  both: a loss of power may bring a backup back only behind a receipt that asks for its
  removal.

  The last part proves `MainResumedCorrect`, an action property, for a host that delivers
  one thing at a time (`HostReconciles`) and any number of faults. Three ends of a job
  leave Main suspended, and each needs what earlier steps did (`ResumeInv`): the receipt
  an installation wrote still names the build it published (`AtDelivery`), the manifest of
  a platform is in place once it is not left to do (`AtReplacement`), and a stage is only
  discarded while Main runs its launcher (`AtDiscard`).

* `DeliveryTrialProofs`: `ManifestBindsCorrect`, `BackupsWholeCorrect` and the refinement
  `OneSetOrTheOtherCorrect`, for any number of faults and any sets of builds, under
  `HostReconciles`, `~DiesUnsynced` and one condition on the behaviour,
  `FinishesDurably`: when `Ready` is saved, the manifest that was checked is durable.
  The run has no such condition, as one fault cannot break it; two can (section 8), and
  then the three properties fail, so the theorems cannot do without. `TrialInv` adds to
  `DeliveryInv`:
  `TrialDisk`, what the disk holds while an application is on trial - the backups are
  durable, of one set and of the Main that is installed (`BackupsStand`), every receipt
  that power may leave tells of the same trial, and files and receipts that may be left
  together end it one way or the other (`EndsReturned`, `EndsReady`, `EndsEither`,
  `AppFirst`); `Orphans`, what may be there without a receipt; `ProvenBinds`, the set a
  recovery leads to belongs together; and `TrialJob`, how far a job is: the trial's
  installation and restoration file by file, and for a publication that each file of the
  journal is as saved, as staged or still to do. Every action is shown to keep these and
  to take the abstract step `SwitchStep`: begin a trial, end it one way, or neither. The
  steps that matter are the three that write receipts, since what power may leave of a
  receipt decides which set is the proven one, and `Discard`, which ends a publication
  in one step.

Model-checked only: all liveness (`RecoversOrEscalates`, `NotStarved`, `RevealComes`,
`RefreshConcludes`, `LaunchEnds`: out of the prover's reach) and the four counterexample
runs. Every invariant, every safety action property and every refinement that a passing
run checks is the subject of a theorem.

## 7. Assumptions of the models

* The latch's clients of this repository hold the UIO lock for a post; it is not
  shown that Main does. Main's legacy write and foreign reads may therefore come
  between any two steps, except between the words of one SET.
* A command word is delivered or its call returns an error.
* The poster's geometry is always legal, so the latch's semantic rejections and,
  with a single poster, `PENDING_BUSY` on a checked slot do not arise.
* The bridge numbers the words of a command itself: the word index never
  disagrees with the receiver's.
* `Spec` is the loop whose frames, once begun, are rendered; `YieldingSpec` adds
  `YieldAfterTake`, the early returns, which break `PostedPicture` (section 8).
* `PreemptRaster` and an interrupted wait happen on home screens without layers,
  as in the code. `LayerHide` of a published layer comes with a complete frame,
  the contract of the composition module. The preview also retires on the memory
  guard and on search (`frame_loop.rs:3439`), where the chart stays as it is and
  only the arcade layer is invalidated: whether base damage shielded under the
  preview can then be owed by nobody is open, and the hazard at `launcher_loop.rs:2156`
  is listed as assumed, with no property.
* The startup animation and retained home tiles are both `Direct` pixels; a
  direct frame is drawn and posted by one iteration, so the bookkeeping of grants
  does not appear.
* The loop offers its newest publication only, so the stale-publication error of
  `plan_next` is unreachable.
* Files: a rename is atomic; `syncfs` makes everything durable; the sync of a new file
  makes its name durable too, as exFAT and ext4 do. A file written to a temporary name,
  synced and renamed appears in one step; nothing reads the temporaries. The lease is
  an operating system lock, which a dead process does not hold.
* `DeviceDelivery`: the agent serves one mutation at a time (`Agent.mutations`). The host
  of `delivery` does not start one kind of delivery while the other is outstanding.
  The update of `launcher.env`, a read, a change and a write, is one step, and so are
  the removal of a stage directory and the pair of disarming and suspending.
* `LauncherSession`: the handlers of an iteration may come in any order, which includes
  the loop's; a line the child writes is read in the same step; a launch saves its
  return state and capsule as part of the request. A Ready stays in its channel until it
  is handled, while the code may hold it in `deferred_catalog_events`; what waits there
  behind it waits in the model in the other channels, in the same order, so that only
  the end of the job may be later. `ReceiveDisconnected` lets any last
  message be missed between the two looks of `try_recv`, the watchdog's too, which the
  code cannot miss: one behaviour too many, never one too few.

## 8. Where code and its own words disagree

With a run:

* **The full-copy obligation of a preempted raster can be dropped** (run
  `yield`). `restart_unpublished_home_frame` records that a rasterised and never
  presented frame still owes a full copy, and a test message
  (`latch.rs:2968`) calls it "a real cached raster must retain its full-copy
  obligation". The loop takes the flag with `mem::take` (`frame_loop.rs:3425`)
  and can leave the iteration afterwards (3676, 3866, 3941, 4033) without
  rendering and without restoring it. Neither slot then owes the region, and a
  later cached frame is posted with its old pixels. Deferring the take to the
  point where the frame is submitted restores the invariant: that is `Spec`,
  for which the property is proved.
* **A commit that was not synced is trusted by the next build** (run
  `unsynced_commit`). `docs/catalog.md:43`: "A failed or interrupted build before
  activation leaves the previous catalog and refresh state selected." A builder dies
  between `shard_registry.rs:764` and 767; the next one takes the renamed manifest
  for current and collects what only its predecessor refers to; losing power then
  brings back that predecessor without its artifacts, and no later manifest is
  accepted. A sync of the registry directory before the collection would do.
* **A publication does not reconcile an upload** (run `unreconciled`).
  `magik/docs/desktop-api.md:81` says "later delivery reconciles an interrupted
  installation before publication". `publish_app` does; `Agent::publish` never reads
  `app-install.json`. An upload, a Main published over it, and a recovery: the old
  manifest and application return under the new Main.
* **A refresh that finds nothing ends launching** (run `refresh`).
  `docs/architecture.md:979`: "The existing registry remains launchable until
  manifest-last publication succeeds". Settings' refresh enters `CatalogBuilding`,
  which refuses launches; only a new catalog or a failure leads out of it, and a
  reconciliation that changed nothing brings neither. `docs/catalog.md:225` and the
  chart at `docs/architecture.md:785` say the same as the quoted line, and the dialog's
  text says "Available games remain playable.".

Without a run of their own; each was seen in a behaviour of the model named, with
a temporary property:

* *LatchSlots.* The comment at `frame_loop.rs:6935` says that after input interrupts
  the confirmation wait the next frame "replaces the posted one in the same refresh
  slot". The latch rejects a SET while a frame is pending and the presenter waits for
  it: the superseded frame is shown.
* *WorkArbitration.* The field `motion_yield_started` is documented as "When background
  units began yielding to the current UI motion" (`work_coordinator.rs:41`). The call
  that yields leaves it set (106) and only a later call that does not yield clears it
  (109): in a later motion the five seconds are counted from the old start. The
  deferral is too short, never too long.
* *LauncherSession.* The second change that one process publishes is dropped as a
  "duplicate cached catalog" (`launcher_catalog_session.rs` 561-578): it is not shown,
  and the lifecycle stays in `CatalogBuilding`. The dialog's Retry, Rebuild and Fresh,
  chosen before the failed child is reaped, start no worker, and the refusal of
  `start_catalog_worker` is ignored (`launcher_loop.rs` 2812-2842). A failed load
  during a launch from a capsule discards the catalog, and its dialog is not taken;
  when the launch fails the launcher has neither. A full rebuild that succeeds after
  a failure with a stale catalog reports "The catalog update did not complete.",
  since `refresh_failed` is still set and its Ready is a duplicate.
* *DeviceDelivery* with `DiesUnsynced = TRUE` and two faults: the agent dies between the
  rename of the `Ready` receipt and the sync of its directory; the next recovery
  sees `Ready` and removes the backups without syncing (`app_install.rs:355`); losing
  power may bring the `Prepared` receipt back without them (`BackupsWhole`). With
  `DiesUnsynced = FALSE` and two faults: the agent dies between the rename of the
  manifest and its sync; a later start finds both files in place and `finish_app_install`
  saves `Ready` with no sync before it (531-532); losing power keeps `Ready` and brings
  the old manifest back. Nothing reconciles that: the application is not the one its
  manifest names (`ManifestBinds`, `OneSetOrTheOther`), and the next upload backs that
  pair up (`BackupsWhole`). A sync before `Ready` is saved would do. With
  legacy backups, `finish_app_install` without a receipt removes a complete pair
  without looking at the manifest (511-540). A retained local Main that failed and is
  restored after a newer upload takes the manifest of before with it.

## 9. Not modelled

Of the components with a model:

* *Latch and presentation*: the exact rectangle arithmetic of `subtract_rect_into` and its
  bounded lists beyond the overflow; retained tiles, grants and their generations,
  among them a direct grant given up after writing (`latch.rs:498`) and the one
  outstanding grant (586); negotiation of capabilities; the fb0 route; telemetry; the
  corroboration of implausible geometry samples; register-level handshakes and read
  streams of the UIO transport; the retirement of the preview on the memory guard and
  on search.
* *Work arbitration*: `Deferral` of periodic jobs, a pure timer; logged counters.
* *Catalog*: the full reset and the removal of predecessors (`predecessor_cleanup.rs`),
  temporaries, damaged media and packs of older schemas, the scan itself and the
  build information it leaves.
* *Delivery*: the databases and fpga kinds, the public layout, the removal of obsolete
  copies, several stages at once, the agent's own update, the `stop` request.
* *Launcher*: an intro that ends early, the migration of a predecessor's catalog, a worker
  disabled by the environment, exit, restart and purge from Settings, searches and the
  loads of systems beyond the one a return waits for, progress messages, and the chart's
  inputs that nothing sends (`HydrationDoneNeedsValidation`, `LoadOnly`, the
  dialog of `InputsChanged`).

Components without a model. Planned: full-screen transitions and composition, input
hub, preview workers, user state. Planned last: the framebuffer stream, a lossy copy
for a remote viewer. Not planned: the kernel scanout plug-ins (they map fixed memory),
drawing and scenes (pure pixel computation, the largest part of the source), scanning
and media (file formats), desktop and host tools.

## 10. Plan

Done, in this order: `LatchDevice`, `SlotLedger`, `LatchSlots` and its proofs,
`LatchRecovery`, `LatchPost`, `WorkArbitration`; `CatalogRegister`,
`CatalogPublication` and its proofs; `InstalledFiles`, `AppInstallation`,
`PlatformPublication`, `DeviceDelivery`, `TrialSwitch`; `LauncherLifecycle`,
`CatalogWorker`, `LauncherSession`; proofs of all the safety properties. Next:

1. Proofs: the deliveries without `FinishesDurably`, for what still holds after a
   `Ready` that was saved too early - the settings and the way back of a publication do.
2. `FullScreenTransition` and `Composition` - owners, generations, late completions and
   the layer retirement that `LatchSlots` takes as a contract.
3. `InputHub`, `PreviewWorker` - mailbox, observation counter, generations: no lost
   wake-up, no late answer shown.
4. The restart request of `LatchRecovery` and the launch of `LauncherSession` share a
   process-wide flag: compose the two.
5. Retained tiles and grants of the direct path, as an extension of `LatchSlots`; damage
   rectangles as pure operators against sets of pixels.

To check by hand, in this directory: `tlc -config MCLandscape.cfg MCLatchSlots.tla`
(and likewise for the other configurations), `tlapm LatchPostProofs.tla`.
