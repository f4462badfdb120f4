--------------------------- MODULE DeviceDelivery ---------------------------
(***************************************************************************)
(* Both deliveries on one device.  The agent serves one mutation at a time *)
(* (Agent.mutations); between two of them the installation is whatever the *)
(* last one left, also by dying, and requests come in any order.           *)
(***************************************************************************)
EXTENDS AppInstallation, PlatformPublication

CONSTANTS
    HostReconciles, \* the host delivers one thing only when the other has been
                    \* finished or taken back
    DiesUnsynced    \* the agent may die, or the sync fail, between the rename of
                    \* the "Ready" receipt and the sync of its directory

ASSUME FlagAssumption == HostReconciles \in BOOLEAN /\ DiesUnsynced \in BOOLEAN

(* No file, and half of one, are told from the whole ones.                 *)
ASSUME NamesAssumption ==
    /\ NoFile \notin Manifests /\ NoFile \notin Envs /\ NoFile \notin Receipts
    /\ NoFile \notin Stages
    /\ Torn \notin Manifests /\ Torn \notin Envs

vars == <<files, unsynced, main, running, launcher, settings, job, stage>>

(* Installations to begin with: a matching set, a first installation, and  *)
(* what an agent without receipts left when it was interrupted.            *)
Init ==
    /\ \E app \in Apps, build \in Mains, lines \in Settings, first \in BOOLEAN,
          old \in Apps \union {NoFile}, gui \in Apps, whole \in BOOLEAN :
           /\ main = build /\ running = build /\ settings = lines
           /\ first => old = NoFile
           /\ ~whole => gui = app
           /\ whole => old # NoFile /\ gui \in {app, old}
           /\ files = [app |-> IF first THEN NoFile ELSE app,
                       manifest |-> [gui |-> gui, main |-> build],
                       env |-> IF lines = NoLines THEN NoFile
                               ELSE [lines |-> lines, block |-> NoFile],
                       receipt |-> NoFile, oldApp |-> old, oldEnv |-> NoFile,
                       oldManifest |-> IF whole THEN [gui |-> old, main |-> build]
                                       ELSE NoFile]
    /\ unsynced = [e \in Entries |-> {files[e]}]
    /\ launcher = Resumed /\ job = Idle /\ stage = NoFile

Outstanding == Phase \in {"Preparing", "Prepared", "Restored"}

(* Backups without a receipt, which an agent that knew none left behind.   *)
Legacy == Phase = "None" /\ ~NoBackups

Request ==
    \/ /\ \/ /\ HostReconciles => stage = NoFile
             /\ \E app \in Apps : Upload(app)
          \/ /\ HostReconciles => ~Legacy
             /\ StartRunning \/ StartManaged
          \/ Recover
       /\ UNCHANGED stage
    \/ /\ HostReconciles => ~Outstanding /\ ~Legacy
       /\ \E kind \in Kinds, app \in Apps, build \in Mains : Publish(kind, app, build)
    \/ RestoreStage \/ FinishStage

Step ==
    \/ (AppStep \/ Sync) /\ UNCHANGED stage
    \/ PublicationStep

(* Ready is in the directory but may be lost: the code does not sync again *)
(* when it finds it there.                                                 *)
ReadyUnsynced == job.at = "sync" /\ job.task = "finish" /\ job.to = "drop"

Fails ==
    \/ (ReadyUnsynced => DiesUnsynced) /\ AppFails /\ UNCHANGED stage
    \/ PublicationFails

(* The agent dies; Main and its child stay.                                *)
AgentDies ==
    /\ ~IsIdle /\ job' = Idle
    /\ ReadyUnsynced => DiesUnsynced
    /\ UNCHANGED <<disk, running, launcher, stage>>

Boots ==
    /\ running' = main /\ job' = Idle
    /\ launcher' = [active |-> TRUE, app |-> files'.app, ready |-> FALSE,
                    block |-> IF files'.env = NoFile THEN NoFile ELSE files'.env.block]
    /\ unsynced' = [e \in Entries |-> {files'[e]}]
    /\ stage' = IF stage = NoFile THEN NoFile ELSE [stage EXCEPT !.rebooted = TRUE]
    /\ UNCHANGED main

(* mode::reboot disarms first.                                             *)
Reboot ==
    /\ IsIdle
    /\ files' = [files EXCEPT !.env = NoFile] /\ settings' = NoLines
    /\ Boots

PowerLoss ==
    /\ \E app \in unsynced.app, manifest \in unsynced.manifest, env \in unsynced.env,
          receipt \in unsynced.receipt, oldApp \in unsynced.oldApp,
          oldManifest \in unsynced.oldManifest, oldEnv \in unsynced.oldEnv :
           files' = [app |-> app, manifest |-> manifest, env |-> env, receipt |-> receipt,
                     oldApp |-> oldApp, oldManifest |-> oldManifest, oldEnv |-> oldEnv]
    /\ settings' = Lines(files'.env)
    /\ Boots

Environment ==
    /\ \/ BecomesReady \/ Relaunches
       \/ \E lines \in Settings : OperatorEdits(lines)
    /\ UNCHANGED stage

Next == Request \/ Step \/ Fails \/ AgentDies \/ Reboot \/ PowerLoss \/ Environment

Spec == Init /\ [][Next]_vars

-----------------------------------------------------------------------------
Places ==
    {"idle", "sync", "recover", "undo", "install", "backup", "copying", "app", "manifest",
     "arm", "launch", "await", "finish", "restore", "copy", "restored", "drop", "forget",
     "unmanage", "resume", "disarm", "save", "replace", "discard", "revert", "resume-main"}

Tasks == {"none", "install", "finish", "cleanup", "restore", "publish", "restore-stage",
          "finish-stage"}

Jobs == [at : Places, to : Places, then : {"reply", "install"}, task : Tasks,
         todo : Seq(Entries \union Artifacts), build : Apps \union {NoFile},
         failed : BOOLEAN]

FileOf ==
    [app |-> Apps \union {NoFile}, manifest |-> Manifests, env |-> Envs \union {NoFile},
     receipt |-> Receipts \union {NoFile}, oldApp |-> Apps \union {NoFile, Torn},
     oldManifest |-> Manifests \union {NoFile, Torn}, oldEnv |-> Envs \union {NoFile, Torn}]

TypeOK ==
    /\ DOMAIN files = Entries /\ \A e \in Entries : files[e] \in FileOf[e]
    /\ DOMAIN unsynced = Entries /\ \A e \in Entries : unsynced[e] \subseteq FileOf[e]
    /\ main \in Mains /\ running \in Mains /\ settings \in Settings
    /\ launcher \in [active : BOOLEAN, app : Apps \union {NoFile}, ready : BOOLEAN,
                     block : Apps \union {NoFile}]
    /\ job \in Jobs
    /\ stage \in Stages \union {NoFile}

(***************************************************************************)
(* Between deliveries the installed files belong together: the manifest    *)
(* names the application and the Main that are installed (updated_manifest *)
(* and the binding manifest of a publication).                             *)
(***************************************************************************)
AtRest == IsIdle /\ stage = NoFile /\ ~Outstanding /\ ~Legacy

ManifestBinds ==
    AtRest => /\ files.app \in {NoFile, files.manifest.gui}
              /\ files.manifest.main = main

(***************************************************************************)
(* As long as a recovery would restore, after any loss of power too, what  *)
(* it restores is there and whole: backups of the application and of a     *)
(* manifest that names it ("preserves backup sources until all restores    *)
(* succeed", magik/docs/desktop-api.md).                                   *)
(***************************************************************************)
BackupsPresent ==
    \A receipt \in unsynced.receipt \ {NoFile} :
        receipt.phase = "Prepared" =>
            /\ unsynced.oldManifest \subseteq Manifests
            /\ receipt.hadApp => unsynced.oldApp \subseteq Apps
            /\ receipt.hadEnv => unsynced.oldEnv \subseteq Envs

BackupsMatch ==
    \A receipt \in unsynced.receipt \ {NoFile} :
        receipt.phase = "Prepared" /\ receipt.hadApp =>
            unsynced.oldApp = {m.gui : m \in unsynced.oldManifest}

BackupsWhole == BackupsPresent /\ BackupsMatch

(***************************************************************************)
(* Deployment and rollback change only the managed block: the lines of     *)
(* launcher.env are those the operator last wrote (restore_managed_block), *)
(* unless a publication or a reboot disarmed the file.                     *)
(***************************************************************************)
SettingsKept == Lines(files.env) = settings

(***************************************************************************)
(* publish_app begins with nothing left to reconcile: no backup is in the  *)
(* way of its create_new, and no receipt still asks for a restoration.     *)
(***************************************************************************)
InstallStartsClean ==
    job.at = "install" =>
        /\ \A e \in {"oldApp", "oldManifest", "oldEnv"} : files[e] = NoFile
        /\ Phase \in {"None", "Ready"}

(***************************************************************************)
(* A request that the agent answers with an error leaves Main resumed      *)
(* ("resumes on error exits", magik/docs/desktop-api.md): Main stays       *)
(* suspended only behind an application that is published as a whole, or a *)
(* platform that is and waits for its reboot.                              *)
(***************************************************************************)
Awaited ==
    \/ stage = NoFile /\ Phase = "Prepared" /\ PublishedMatches(files.receipt)
    \/ stage # NoFile /\ stage.kind = "platform" /\ files.manifest = StagedManifest

MainResumed ==
    [][Step /\ job' = Idle /\ ~IsIdle => launcher'.active \/ Awaited]_vars

-----------------------------------------------------------------------------
(* A set of files that belong together, or the files as they are.          *)
Matching(app, build) ==
    [app |-> app, main |-> build, manifest |-> [gui |-> app, main |-> build]]

Installed == [app |-> files.app, main |-> main, manifest |-> files.manifest]

OnTrial == \E receipt \in unsynced.receipt \ {NoFile} : receipt.phase = "Prepared"

LegacyTrial == ~OnTrial /\ Legacy /\ OldPairComplete

Logged == {stage.log[i] : i \in DOMAIN stage.log}

(* What is journaled is put back, the rest is as it was.                   *)
Journaled(e) == IF e \in Logged THEN stage.saved[e] ELSE Current(e)

Proven ==
    CASE stage # NoFile -> [app |-> Journaled("app"), main |-> Journaled("main"),
                            manifest |-> Journaled("manifest")]
      [] stage = NoFile /\ (OnTrial \/ LegacyTrial) ->
           [app |-> IF OnTrial /\ ~files.receipt.hadApp THEN NoFile ELSE files.oldApp,
            main |-> main, manifest |-> files.oldManifest]
      [] OTHER -> Installed

(* An older agent did not record what it was installing.                   *)
Trial ==
    CASE stage # NoFile -> Matching(stage.app, stage.main)
      [] stage = NoFile /\ OnTrial -> Matching(files.receipt.expected, main)
      [] stage = NoFile /\ LegacyTrial -> Matching(NoFile, main)
      [] OTHER -> NoFile

Sets == [app : Apps \union {NoFile}, main : Mains,
         manifest : [gui : Apps \union {NoFile}, main : Mains]]

ASSUME SetsAssumption == NoFile \notin Sets

Switch == INSTANCE TrialSwitch WITH proven <- Proven, trial <- Trial, None <- NoFile

(***************************************************************************)
(* Both deliveries implement the switch: whatever fails or dies, the       *)
(* previous set stays what a recovery leads to until the new one, whole    *)
(* and matching, takes its place in one step.                              *)
(***************************************************************************)
OneSetOrTheOther == Switch!Spec
=============================================================================
