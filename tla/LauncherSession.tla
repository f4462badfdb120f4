-------------------------- MODULE LauncherSession --------------------------
(***************************************************************************)
(* The launcher process from startup to its exit: the catalog session       *)
(* (launcher_catalog_session.rs) between the catalog job and the lifecycle, *)
(* the reveal of the first picture, the user's actions, and the handoff of  *)
(* a launch to Main (launch_handoff_session.rs).                            *)
(*                                                                          *)
(* Each handler of the frame loop is one action.  The loop runs them in a   *)
(* fixed order, several in an iteration; here they come in any order, with  *)
(* the job's messages received and handled one at a time, first come first  *)
(* served.  Worker processes and threads run beside the loop.  Clocks are   *)
(* deadlines that pass.                                                     *)
(***************************************************************************)
EXTENDS CatalogWorker, LauncherLifecycle

VARIABLES
    (* LauncherCatalogSession *)
    refreshDone,   \* no refresh is asked for or under way
    refreshFailed, \* the last one failed
    summaryOnly,   \* the catalog came from the summaries of startup
    seedPartial,   \* the catalog in memory is a seed
    deferred,      \* the first build waits for the first frame
    (* the loop *)
    held,          \* input or a transition holds background work back
    catalogReady,  \* there is a catalog in memory
    capsule,       \* it is the capsule saved by a launch
    pendingReady,  \* a Ready put off while the list scrolls
    (* the lifecycle *)
    life, dialog,
    mode, reveal,
    intro,         \* the startup intro plays
    late,          \* the reveal's deadline has passed
    returning,     \* a launch return state waits to be applied
    shard,         \* and its system's rows were asked for
    (* LaunchHandoffSession *)
    launch,        \* the launch worker is at work
    transport      \* a launch is in progress, as the process-wide flag says

session == <<refreshDone, refreshFailed, summaryOnly, seedPartial, deferred>>
loop    == <<held, catalogReady, capsule, pendingReady>>
start   == <<mode, intro, late, returning, shard>>
chart   == <<life, dialog, reveal>>
handoff == <<launch, transport>>
vars == <<workerVars, session, loop, start, chart, handoff>>

TypeOK ==
    /\ WorkerTypeOK
    /\ \A b \in {refreshDone, refreshFailed, summaryOnly, seedPartial, deferred,
                 held, catalogReady, capsule, pendingReady, intro, late, returning,
                 shard, launch, transport} : b \in BOOLEAN
    /\ life \in Lives /\ dialog \in Dialogs
    /\ mode \in Modes /\ reveal \in Reveals

Running == life # "exited"

-----------------------------------------------------------------------------
(* Startup (launcher_loop_startup.rs): what is found decides how the       *)
(* session, the first job and the two charts begin.                        *)

InitJob(kind, req) ==
    /\ job = kind /\ request = req /\ orphans = 0
    /\ events = <<>> /\ terminal = "none" /\ failure = FALSE
    /\ handle = (kind = "running")
    /\ stage = IF kind = "running" THEN "started" ELSE "gone"

(* A catalog seeds the launcher: no job, or one in the background.         *)
InitSeeded ==
    /\ answer = "none"
    /\ registry \in {"behind", "current"} \/ (capsule /\ registry = "broken")
    /\ catalogReady /\ summaryOnly /\ seedPartial /\ ~deferred
    /\ mode # "cold" /\ (mode = "warm" => ~capsule)
    /\ \/ /\ mode = "warm" /\ refreshDone /\ life = "idle" /\ InitJob("idle", "load")
       \/ /\ ~refreshDone /\ life = "ready"
          /\ \/ mode = "return" /\ InitJob("running", "load")
             \/ InitJob("running", "reconcile")

(* A capsule that does not hold the return's destination is given up; the  *)
(* job that was started with it goes on.                                   *)
InitCapsuleGivenUp ==
    /\ answer = "none"
    /\ registry \in {"broken", "behind", "current"}
    /\ ~catalogReady /\ ~capsule /\ summaryOnly /\ seedPartial /\ ~deferred
    /\ mode = "return" /\ ~refreshDone /\ life = "building"
    /\ \E req \in {"load", "reconcile"} : InitJob("running", req)

(* No catalog: the first build waits for a frame, or runs under the intro. *)
InitEmpty ==
    /\ answer = "none"
    /\ registry = "none" \/ (mode = "return" /\ registry = "broken")
    /\ ~catalogReady /\ ~capsule /\ ~summaryOnly /\ ~seedPartial
    /\ mode \in {"cold", "return"} /\ ~refreshDone /\ life = "building"
    /\ \/ ~intro /\ deferred /\ InitJob("idle", "fresh")
       \/ intro /\ ~deferred /\ InitJob("running", "fresh")

(* The registry is there and cannot be read: its failure is queued.        *)
InitBroken ==
    /\ answer = "loadFailed"
    /\ registry = "broken" /\ mode = "cold" /\ ~intro
    /\ ~catalogReady /\ ~capsule /\ ~summaryOnly /\ ~seedPartial /\ ~deferred
    /\ refreshDone /\ life = "building" /\ InitJob("idle", "load")

(* A return whose destination the seed does not hold asks for its rows,    *)
(* unless it came from a capsule.                                          *)
InitReveal ==
    /\ returning = (mode = "return")
    /\ \/ mode # "return" /\ reveal = FirstReveal(mode) /\ ~shard
       \/ /\ mode = "return" /\ catalogReady /\ ~shard
          /\ \E wait \in BOOLEAN :
                reveal = ContextRestored(mode, FirstReveal(mode), wait)
       \/ /\ mode = "return" /\ reveal = HydrationNeeded(FirstReveal(mode))
          /\ shard = (catalogReady /\ ~capsule)

Init ==
    /\ registry \in {"none", "broken", "behind", "current"}
    /\ mode \in Modes /\ intro \in BOOLEAN /\ (intro => mode = "cold")
    /\ refreshDone \in BOOLEAN /\ refreshFailed = FALSE
    /\ summaryOnly \in BOOLEAN /\ seedPartial \in BOOLEAN /\ deferred \in BOOLEAN
    /\ catalogReady \in BOOLEAN /\ capsule \in BOOLEAN /\ pendingReady = FALSE
    /\ held = FALSE
    /\ life \in Lives /\ dialog = NoDialog
    /\ late = FALSE /\ shard \in BOOLEAN
    /\ launch = FALSE /\ transport = FALSE
    /\ InitSeeded \/ InitCapsuleGivenUp \/ InitEmpty \/ InitBroken
    /\ InitReveal

-----------------------------------------------------------------------------
(* Messages of the job (handle_worker_message and its effects).            *)

(* Mutant: a capsule counts as a catalog to continue with. *)
HasStaleAny == catalogReady

(* A capsule is not a catalog to continue with: a failed load discards it. *)
HasStale == catalogReady /\ ~capsule

(* CatalogBuildFinished, the end of every job: a return that still waits is*)
(* restored if the catalog in memory holds it.                             *)
BuildFinished ==
    {reveal} \union (IF returning /\ catalogReady
                     THEN {ContextRestored(mode, reveal, wait) : wait \in BOOLEAN}
                     ELSE {})

(* CatalogRecoveryRequired, where the lifecycle takes it.                  *)
OpenDialog(cause, stale, before, picture) ==
    /\ life' = AfterFailure(before)
    /\ dialog' = IF TakesFailure(before) THEN [cause |-> cause, stale |-> stale] ELSE dialog
    /\ reveal' = IF TakesFailure(before) THEN MarkReady(picture) ELSE picture

LoadFailed ==
    /\ TakeAnswer("loadFailed")
    /\ refreshDone' = TRUE /\ refreshFailed' = TRUE /\ deferred' = FALSE
    /\ \E cause \in Causes, picture \in BuildFinished :
          OpenDialog(cause, HasStale, AfterValidation(life), picture)
    /\ catalogReady' = (catalogReady /\ ~capsule) /\ capsule' = FALSE
    /\ UNCHANGED <<summaryOnly, seedPartial, held, pendingReady, start, handoff>>

PersistenceFailed ==
    /\ TakeAnswer("failed")
    /\ refreshDone' = TRUE /\ refreshFailed' = TRUE
    /\ \E cause \in Causes \ {"upgrade"}, picture \in BuildFinished :
          OpenDialog(cause, HasStale, AfterValidation(life), picture)
    /\ UNCHANGED <<summaryOnly, seedPartial, deferred, loop, start, handoff>>

Done ==
    /\ TakeAnswer("done")
    /\ refreshDone' = TRUE /\ refreshFailed' = FALSE
    /\ life' = AfterValidation(life) /\ reveal' \in BuildFinished
    /\ UNCHANGED <<summaryOnly, seedPartial, deferred, loop, start, dialog, handoff>>

(* UseCatalog: the catalog in memory is replaced, a waiting return is      *)
(* restored if the catalog holds it, and the lifecycle is told.            *)
UseCatalog ==
    /\ catalogReady' = TRUE /\ capsule' = FALSE
    /\ \/ /\ returning
          /\ \E wait \in BOOLEAN :
                reveal' = Tick(mode, ContextRestored(mode, reveal, wait), late, TRUE)
          /\ UNCHANGED shard
       \/ /\ UNCHANGED reveal
          /\ shard' = (shard \/ returning)
    /\ life' = AfterCatalogReady(life)
    /\ UNCHANGED <<dialog, mode, intro, late, returning>>

(* duplicate_cached_catalog_ready: what is cached is only taken over a     *)
(* summary, a seed or nothing.                                             *)
Duplicate(m) == /\ m = "full" /\ ~summaryOnly
                /\ catalogReady /\ ~(capsule \/ seedPartial)

HandleReady(m) ==
    IF Duplicate(m)
    THEN /\ IF refreshFailed
            THEN refreshDone' = TRUE /\ OpenDialog("final", TRUE, life, reveal)
            ELSE UNCHANGED <<refreshDone, chart>>
         /\ UNCHANGED <<refreshFailed, summaryOnly, seedPartial, deferred, held,
                        catalogReady, capsule, start>>
    ELSE /\ summaryOnly' = FALSE /\ seedPartial' = (m = "seed")
         /\ UseCatalog
         /\ UNCHANGED <<refreshDone, refreshFailed, deferred, held>>

SeedReady ==
    /\ TakeReady("seed")
    /\ HandleReady("seed")
    /\ UNCHANGED <<pendingReady, handoff>>

RegistryReady ==
    /\ ~pendingReady /\ TakeReady("full")
    /\ HandleReady("full")
    /\ UNCHANGED <<pendingReady, handoff>>

(* should_defer_catalog_message: the Arcade list scrolls.  A second Ready  *)
(* stays where it is, and what came after it too.                          *)
DeferReady ==
    /\ ~pendingReady /\ TakeReady("full")
    /\ catalogReady /\ reveal = "enabled"
    /\ pendingReady' = TRUE
    /\ UNCHANGED <<session, held, catalogReady, capsule, start, chart, handoff>>

DeferredReady ==
    /\ pendingReady
    /\ HandleReady("full")
    /\ pendingReady' = FALSE
    /\ UNCHANGED <<workerVars, handoff>>

Handle == LoadFailed \/ PersistenceFailed \/ Done \/ SeedReady \/ RegistryReady

(* maybe_start_deferred_worker, once the first frame is out, in the first  *)
(* iteration that background work is allowed in.                           *)
StartDeferred ==
    /\ deferred /\ ~refreshDone /\ job # "running" /\ ~held
    /\ deferred' = FALSE
    /\ life' = AfterBuilding(life)
    /\ StartWorker("fresh")
    /\ UNCHANGED <<refreshDone, refreshFailed, summaryOnly, seedPartial, loop, start,
                   dialog, reveal, handoff>>

(* background_work_allowed: an input that waits, a direction that is held, *)
(* or a transition puts off what is deferred.                              *)
HoldWork ==
    /\ deferred /\ ~held
    /\ held' = TRUE
    /\ UNCHANGED <<workerVars, session, catalogReady, capsule, pendingReady, start,
                   chart, handoff>>

AllowWork ==
    /\ held
    /\ held' = FALSE
    /\ UNCHANGED <<workerVars, session, catalogReady, capsule, pendingReady, start,
                   chart, handoff>>

-----------------------------------------------------------------------------
(* The reveal.                                                             *)

RevealVars == <<reveal, late, returning, shard>>
OnlyReveal == UNCHANGED <<workerVars, session, loop, mode, intro, life, dialog, handoff>>

(* startup_catalog_ready_for_reveal: the intro waits for the whole refresh.*)
ReadyForReveal == catalogReady /\ (intro => refreshDone)

(* The tick of every iteration; a return that took too long goes Home.     *)
TickReveal ==
    /\ reveal' = Tick(mode, reveal, late, ReadyForReveal) /\ reveal' # reveal
    /\ returning' = (returning /\ ~BlackTimeout(mode, reveal, late))
    /\ UNCHANGED <<late, shard>> /\ OnlyReveal

(* The rows of the return's system arrive, or never do.                    *)
ShardArrives ==
    /\ shard
    /\ shard' = FALSE /\ reveal' \in BuildFinished
    /\ UNCHANGED <<late, returning>> /\ OnlyReveal

(* The preview is there, or its quarter of a second is over.               *)
PreviewSettles ==
    /\ reveal = "waitPreview"
    /\ reveal' = MarkReady(reveal)
    /\ UNCHANGED <<late, returning, shard>> /\ OnlyReveal

(* note_startup_frame_presented                                            *)
PresentFirstFrame ==
    /\ reveal = "reveal"
    /\ reveal' = "enabled"
    /\ UNCHANGED <<late, returning, shard>> /\ OnlyReveal

Deadline ==
    /\ ~late /\ reveal # "enabled" /\ mode # "warm"
    /\ late' = TRUE
    /\ UNCHANGED <<reveal, returning, shard>> /\ OnlyReveal

-----------------------------------------------------------------------------
(* The user.                                                               *)

TakesInput == reveal = "enabled" /\ life \notin {"launching", "handoff", "exited"}

(* Settings, Refresh Database: rejected while a worker is not gone.        *)
RefreshDatabase ==
    /\ TakesInput /\ life \notin {"failed", "recovered"} /\ Available
    /\ refreshDone' = FALSE /\ refreshFailed' = FALSE /\ deferred' = FALSE
    /\ life' = AfterBuilding(life)
    /\ StartWorker("reconcile")
    /\ UNCHANGED <<summaryOnly, seedPartial, loop, start, dialog, reveal, handoff>>

(* The catalog dialog.  A worker that is refused is not asked for again.   *)
Choose(action) ==
    \/ action = "continue" /\ life' = "idle" /\ UNCHANGED workerVars
    \/ action = "retry"    /\ life' = "retrying" /\ StartWorker("reconcile")
    \/ action = "rebuild"  /\ life' = "building" /\ StartWorker("reconcile")
    \/ action = "fresh"    /\ life' = "building" /\ StartWorker("fresh")
    \/ action = "exit"     /\ life' \in {"exited", "idle"} /\ UNCHANGED workerVars

ConfirmDialog ==
    /\ TakesInput /\ life = "failed"
    /\ \E choice \in {"left", "right"} : Choose(RecoveryAction(dialog, choice))
    /\ dialog' = NoDialog
    /\ UNCHANGED <<session, loop, start, reveal, handoff>>

CancelDialog ==
    /\ TakesInput /\ life = "failed"
    /\ Choose(IF dialog.stale THEN "continue" ELSE "exit")
    /\ dialog' = NoDialog
    /\ UNCHANGED <<session, loop, start, reveal, handoff>>

-----------------------------------------------------------------------------
(* Launching a game.                                                       *)

(* The request, the loading frame and the start of the launch worker are   *)
(* one pass of the input handler.  begin_launch refuses a second launch.   *)
LaunchGame ==
    /\ TakesInput /\ catalogReady /\ TakesLaunch(life, reveal)
    /\ life' = IF launch THEN "recovered" ELSE "launching"
    /\ launch' = TRUE /\ transport' = TRUE
    /\ UNCHANGED <<workerVars, session, loop, start, dialog, reveal>>

(* poll_completion: the command was accepted by Main.                      *)
LaunchSucceeds ==
    /\ Running /\ launch
    /\ launch' = FALSE
    /\ life' = AfterLaunchSucceeded(life)
    /\ UNCHANGED <<workerVars, session, loop, start, dialog, reveal, transport>>

LaunchFails ==
    /\ Running /\ launch
    /\ launch' = FALSE /\ transport' = FALSE
    /\ life' = AfterLaunchFailed(life)
    /\ UNCHANGED <<workerVars, session, loop, start, dialog, reveal>>

(* Mutant: a handoff counts as interactive. *)
StaleTransportInHandoff == ~launch /\ life # "launching"

StaleTransport == ~launch /\ life \notin {"launching", "handoff"}

(* recover_stale_transport                                                 *)
RecoverTransport ==
    /\ Running /\ StaleTransport /\ transport
    /\ transport' = FALSE
    /\ UNCHANGED <<workerVars, session, loop, start, chart, launch>>

(* launch_runtime_action: the core runs, or ninety seconds are over; the   *)
(* process ends either way.                                                *)
HandoffEnds ==
    /\ life = "handoff" /\ ~launch /\ transport
    /\ life' = "exited"
    /\ UNCHANGED <<workerVars, session, loop, start, dialog, reveal, handoff>>

AcknowledgeFailure ==
    /\ TakesInput /\ life = "recovered"
    /\ life' = "idle"
    /\ UNCHANGED <<workerVars, session, loop, start, dialog, reveal, handoff>>

-----------------------------------------------------------------------------
Beside == UNCHANGED <<session, loop, start, chart, handoff>>

Next ==
    /\ Running
    /\ \/ (Child \/ Reap \/ Watchdog \/ GamesChange \/ Poll) /\ Beside
       \/ Handle \/ DeferReady \/ DeferredReady
       \/ StartDeferred \/ HoldWork \/ AllowWork
       \/ TickReveal \/ ShardArrives \/ PreviewSettles \/ PresentFirstFrame \/ Deadline
       \/ RefreshDatabase \/ ConfirmDialog \/ CancelDialog
       \/ LaunchGame \/ LaunchSucceeds \/ LaunchFails \/ RecoverTransport
       \/ HandoffEnds \/ AcknowledgeFailure

(* The loop runs, clocks go on, a child that was killed or has finished is *)
(* reaped, a list that scrolls comes to its end, input that holds back work*)
(* rests, and the launch worker's waits are all bounded.  Neither the      *)
(* child's progress nor the user is taken for granted.                     *)
Fairness ==
    /\ WF_vars(Running /\ Poll /\ Beside)
    /\ WF_vars(Running /\ Handle)
    /\ WF_vars(Running /\ DeferredReady)
    /\ WF_vars(Running /\ AllowWork)
    /\ SF_vars(Running /\ StartDeferred)
    /\ WF_vars(Running /\ Watchdog /\ Beside)
    /\ WF_vars(Running /\ Reap /\ Beside)
    /\ WF_vars(Running /\ TickReveal)
    /\ WF_vars(Running /\ PreviewSettles)
    /\ WF_vars(Running /\ PresentFirstFrame)
    /\ WF_vars(Running /\ Deadline)
    /\ WF_vars(LaunchSucceeds \/ LaunchFails)
    /\ WF_vars(HandoffEnds)

Spec == Init /\ [][Next]_vars
FairSpec == Spec /\ Fairness

-----------------------------------------------------------------------------
(* Whatever the catalog job reports while a game is being launched, the    *)
(* launcher stays in the launch: its worker runs exactly while the         *)
(* lifecycle says so, and the process-wide flag holds until the handoff.   *)
LaunchIsHeld ==
    /\ launch <=> life = "launching"
    /\ life \in {"launching", "handoff"} => transport

(* A late catalog, preview or deadline never takes the picture away from a *)
(* user whose input is enabled.                                            *)
InputNeverBlack == [][reveal = "enabled" => reveal' = "enabled"]_vars

(* A dialog that offers to continue has a catalog to continue with.        *)
StaleIsPlayable == life = "failed" /\ dialog.stale => catalogReady

(* No catalog process is started beside one that still exists: the job may *)
(* have ended with a message, a disconnected channel or a failed start long*)
(* before, and only the handle still tells of the process.                 *)
BuildersNeverOverlap == orphans = 0

(* Whatever startup finds and whatever comes late, the user gets a picture *)
(* and the input, or the process ends.                                     *)
RevealComes == <>(reveal = "enabled" \/ life = "exited")

(* A refresh under way ends: its worker reports, dies or is stopped.       *)
RefreshConcludes == ~refreshDone ~> (refreshDone \/ life = "exited")

(* A launch ends in the game or in a dialog.                               *)
LaunchEnds == life = "launching" ~> life \in {"recovered", "exited"}

(* src/docs/architecture.md: the existing registry remains launchable      *)
(* until a new manifest is published, and is then reloaded.  Once a refresh*)
(* is over and did not fail, nothing keeps the launcher in the state that  *)
(* refuses to launch.                                                      *)
RemainsLaunchable ==
    /\ catalogReady /\ refreshDone /\ ~refreshFailed
    /\ job = "idle" /\ answer = "none" /\ ~pendingReady
    => life \notin {"building", "retrying"}
=============================================================================
