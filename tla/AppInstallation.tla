--------------------------- MODULE AppInstallation ---------------------------
(***************************************************************************)
(* The agent's canonical application installation: publish_app, the        *)
(* managed start that verifies it, finish_app_install and the recovery     *)
(* (magik/agent/src/app_install.rs, managed_launcher.rs).  The receipt     *)
(* app-install.json names the phase; the files it replaces are backed up   *)
(* first, and the backups go when the new application was seen ready or    *)
(* when all of them are restored.                                          *)
(***************************************************************************)
EXTENDS InstalledFiles

Phases == {"Preparing", "Prepared", "Restored", "Ready"}

Receipts == [phase : Phases, expected : Apps \union {NoFile},
             hadApp : BOOLEAN, hadEnv : BOOLEAN, preserveEnv : BOOLEAN]

Phase == IF files.receipt = NoFile THEN "None" ELSE files.receipt.phase

Backup == [manifest |-> "oldManifest", app |-> "oldApp", env |-> "oldEnv"]

BackupsOfFiles == <<"oldApp", "oldEnv">>

(* cleanup_backups goes through them in this order.                        *)
Backups == <<"oldApp", "oldManifest", "oldEnv">>

If(condition, entry) == IF condition THEN <<entry>> ELSE << >>

(* InstallFiles::pairs *)
Originals(receipt) ==
    <<"manifest">> \o If(receipt.hadApp, "app") \o If(receipt.hadEnv, "env")

RestorationsOfApp(receipt) == <<"app">> \o If(receipt.hadEnv, "env")

(* The names that restore puts back, in order: the copies, then what was   *)
(* not there.                                                              *)
Restorations(receipt) ==
    Originals(receipt)
      \o If(~receipt.hadApp, "app")
      \o If(~receipt.hadEnv /\ ~receipt.preserveEnv, "env")

WholeFormerEnv(receipt) ==
    IF receipt.hadEnv THEN files.oldEnv ELSE WithBlock(files.env, NoFile)

(* restore_managed_block: the block of the backup in the current file.     *)
FormerEnv(receipt) ==
    WithBlock(files.env,
              IF receipt.hadEnv /\ files.oldEnv # NoFile THEN files.oldEnv.block
              ELSE NoFile)

Former(receipt, entry) ==
    CASE entry = "env"      -> FormerEnv(receipt)
      [] entry = "manifest" -> files.oldManifest
      [] entry = "app"      -> IF receipt.hadApp THEN files.oldApp ELSE NoFile

(* A copy of a backup that is not there fails.                             *)
CanRestore(receipt, entry) ==
    CASE entry = "env"      -> TRUE
      [] entry = "manifest" -> files.oldManifest # NoFile
      [] entry = "app"      -> receipt.hadApp => files.oldApp # NoFile

PublishedMatches(receipt) ==
    files.app = receipt.expected /\ files.manifest.gui = receipt.expected

SaveReceipt(phase) == Put("receipt", [files.receipt EXCEPT !.phase = phase])

-----------------------------------------------------------------------------
(* publish_app.  An upload that is already published changes nothing.      *)
AlreadyPublished(app) ==
    /\ Phase \in {"Prepared", "Ready"}
    /\ PublishedMatches(files.receipt) /\ files.receipt.expected = app

Upload(app) ==
    /\ IsIdle /\ ~AlreadyPublished(app)
    /\ job' = [Idle EXCEPT !.at = "recover", !.then = "install", !.build = app]
    /\ UNCHANGED <<disk, running, launcher>>

ReceiptPreparedAtOnce ==
    [phase |-> "Prepared", expected |-> job.build, hadApp |-> files.app # NoFile,
     hadEnv |-> files.env # NoFile, preserveEnv |-> FALSE]

NewReceipt ==
    [phase |-> "Preparing", expected |-> job.build, hadApp |-> files.app # NoFile,
     hadEnv |-> files.env # NoFile, preserveEnv |-> FALSE]

SavePreparing ==
    /\ job.at = "install" /\ Quiesce
    /\ Put("receipt", NewReceipt)
    /\ job' = [job EXCEPT !.at = "sync", !.to = "backup", !.todo = Originals(NewReceipt)]
    /\ UNCHANGED <<main, running, settings>>

BackupStarts ==
    /\ job.at = "backup" /\ job.todo # << >>
    /\ LET backup == Backup[Head(job.todo)] IN
         files[backup] = NoFile /\ Put(backup, Torn)
    /\ Goto("copying")
    /\ UNCHANGED <<main, running, launcher, settings>>

(* sync_all of a new file: its contents and its name.                      *)
BackupEnds ==
    /\ job.at = "copying"
    /\ LET entry == Head(job.todo) IN
         /\ files' = [files EXCEPT ![Backup[entry]] = files[entry]]
         /\ unsynced' = [unsynced EXCEPT ![Backup[entry]] = {files[entry]}]
    /\ job' = [job EXCEPT !.at = "backup", !.todo = Tail(@)]
    /\ UNCHANGED <<main, running, launcher, settings>>

(* The error path of publish_app loads the receipt that is there by now    *)
(* and restores from it.                                                   *)
ToUndo == job' = [job EXCEPT !.at = "undo", !.then = "reply"]

(* create_installation_backups removes the ones it created.                *)
Created ==
    {Backup[e] : e \in {"manifest", "app", "env"} \ {job.todo[i] : i \in DOMAIN job.todo}}
      \union (IF job.at = "copying" THEN {Backup[Head(job.todo)]} ELSE {})

BackupFails ==
    /\ job.at \in {"backup", "copying"} /\ job.todo # << >>
    /\ files' = [e \in Entries |-> IF e \in Created THEN NoFile ELSE files[e]]
    /\ unsynced' = [e \in Entries |-> unsynced[e] \union {files'[e]}]
    /\ ToUndo
    /\ UNCHANGED <<main, running, launcher, settings>>

SavePrepared ==
    /\ job.at = "backup" /\ job.todo = << >>
    /\ SaveReceipt("Prepared") /\ SyncThen("app")
    /\ UNCHANGED <<main, running, launcher, settings>>

(* Staged::publish *)
PublishApp ==
    /\ job.at = "app"
    /\ Put("app", job.build) /\ SyncThen("manifest")
    /\ UNCHANGED <<main, running, launcher, settings>>

PublishManifest ==
    /\ job.at = "manifest"
    /\ Put("manifest", [files.manifest EXCEPT !.gui = job.build]) /\ SyncThen("idle")
    /\ UNCHANGED <<main, running, launcher, settings>>

InstallFails ==
    /\ job.task = "install" /\ job.at \in {"install", "sync", "backup", "app", "manifest"}
    /\ job.at = "backup" => job.todo = << >>
    /\ ToUndo
    /\ UNCHANGED <<disk, running, launcher>>

-----------------------------------------------------------------------------
(* start_managed_magik, and finish_app_install when the application that   *)
(* is installed runs already.                                              *)
StartRunning ==
    /\ IsIdle /\ files.app # NoFile /\ VerifiedReady(files.app)
    /\ job' = [Idle EXCEPT !.at = "finish", !.task = "finish"]
    /\ UNCHANGED <<disk, running, launcher>>

StartManaged ==
    /\ IsIdle /\ files.app # NoFile /\ Quiesce
    /\ IF launcher.active THEN Put("env", WithBlock(files.env, NoFile))
       ELSE UNCHANGED <<files, unsynced>>
    /\ job' = [Idle EXCEPT !.at = "arm", !.build = files.app]
    /\ UNCHANGED <<main, running, settings>>

Arm ==
    /\ job.at = "arm" /\ Put("env", WithBlock(files.env, job.build)) /\ Goto("launch")
    /\ UNCHANGED <<main, running, launcher, settings>>

Launch ==
    /\ job.at = "launch" /\ launcher' = Resumed /\ Goto("await")
    /\ UNCHANGED <<disk, running>>

Verified ==
    /\ job.at = "await" /\ VerifiedReady(job.build)
    /\ job' = [job EXCEPT !.at = "finish", !.task = "finish"]
    /\ UNCHANGED <<disk, running, launcher>>

(* An error, or readiness does not come within its 20 seconds.             *)
StartFails ==
    /\ job.at \in {"arm", "launch", "await"} /\ Goto("recover")
    /\ UNCHANGED <<disk, running, launcher>>

Finishable ==
    /\ VerifiedReady(files.app)
    /\ files.receipt # NoFile => PublishedMatches(files.receipt)

ToCleanup == [job EXCEPT !.at = "drop", !.todo = Backups]

SaveReady ==
    /\ job.at = "finish" /\ Finishable /\ files.receipt # NoFile
    /\ SaveReceipt("Ready")
    /\ job' = [ToCleanup EXCEPT !.at = "sync", !.to = "drop"]
    /\ UNCHANGED <<main, running, launcher, settings>>

FinishWithoutReceipt ==
    /\ job.at = "finish" /\ Finishable /\ files.receipt = NoFile /\ job' = ToCleanup
    /\ UNCHANGED <<disk, running, launcher>>

NotFinished ==
    /\ job.at = "finish"
    /\ job' = [job EXCEPT !.at = "resume", !.failed = TRUE]
    /\ UNCHANGED <<disk, running, launcher>>

-----------------------------------------------------------------------------
(* recover_app_install: reconcile what a receipt left behind.              *)
Recover ==
    /\ IsIdle /\ job' = [Idle EXCEPT !.at = "recover"]
    /\ UNCHANGED <<disk, running, launcher>>

InstalledAndVerified ==
    /\ Phase = "Prepared"
    /\ PublishedMatches(files.receipt) /\ VerifiedReady(files.receipt.expected)

RecoverVerified ==
    /\ job.at = "recover" /\ InstalledAndVerified
    /\ job' = [job EXCEPT !.at = "finish", !.task = "finish"]
    /\ UNCHANGED <<disk, running, launcher>>

RecoverReady ==
    /\ job.at \in {"recover", "undo"} /\ Phase = "Ready"
    /\ job' = [ToCleanup EXCEPT !.task = "cleanup"]
    /\ UNCHANGED <<disk, running, launcher>>

ToRestore == job' = [job EXCEPT !.at = "restore", !.task = "restore"]

RecoverOutstanding ==
    /\ Phase \notin {"None", "Ready"}
    /\ \/ job.at = "recover" /\ ~InstalledAndVerified /\ Quiesce
       \/ job.at = "undo" /\ UNCHANGED launcher
    /\ ToRestore
    /\ UNCHANGED <<disk, running>>

(* recover_legacy_backups: backups that an agent without receipts left.    *)
OldPairComplete ==
    files.oldManifest # NoFile /\ files.oldManifest.gui = files.oldApp

NoBackups == files.oldApp = NoFile /\ files.oldManifest = NoFile

RecoverNothing ==
    /\ \/ job.at = "recover" /\ Phase = "None" /\ NoBackups
       \/ job.at = "undo" /\ Phase = "None"
    /\ Goto("resume")
    /\ UNCHANGED <<disk, running, launcher>>

RecoverLegacyPair ==
    /\ job.at = "recover" /\ Phase = "None" /\ ~NoBackups /\ OldPairComplete
    /\ Put("receipt", [phase |-> "Prepared", expected |-> NoFile, hadApp |-> TRUE,
                       hadEnv |-> FALSE, preserveEnv |-> TRUE])
    /\ job' = [job EXCEPT !.at = "sync", !.to = "recover", !.task = "restore"]
    /\ UNCHANGED <<main, running, launcher, settings>>

RecoverLegacyRest ==
    /\ job.at = "recover" /\ Phase = "None" /\ ~NoBackups /\ ~OldPairComplete
    /\ job' = IF files.manifest.gui = files.app THEN [ToCleanup EXCEPT !.task = "cleanup"]
              ELSE [job EXCEPT !.at = "resume", !.failed = TRUE]
    /\ UNCHANGED <<disk, running, launcher>>

(* InstallFiles::restore: the backups stay until all copies are made.      *)
Restore ==
    /\ job.at = "restore"
    /\ job' = IF Phase = "Prepared"
              THEN [job EXCEPT !.at = "copy", !.todo = Restorations(files.receipt)]
              ELSE [job EXCEPT !.at = "sync", !.to = "restored"]
    /\ UNCHANGED <<disk, running, launcher>>

CopyBack ==
    /\ job.at = "copy" /\ job.todo # << >>
    /\ IF CanRestore(files.receipt, Head(job.todo))
       THEN /\ Put(Head(job.todo), Former(files.receipt, Head(job.todo)))
            /\ job' = [job EXCEPT !.todo = Tail(@)]
       ELSE /\ job' = [job EXCEPT !.todo = Tail(@), !.failed = TRUE]
            /\ UNCHANGED <<files, unsynced>>
    /\ UNCHANGED <<main, running, launcher, settings>>

(* One copy or removal fails: the rest is still tried.                     *)
SkipFailed ==
    /\ job.at \in {"copy", "drop"} /\ job.todo # << >>
    /\ job' = [job EXCEPT !.todo = Tail(@), !.failed = TRUE]
    /\ UNCHANGED <<disk, running, launcher>>

CopiedBack ==
    /\ job.at = "copy" /\ job.todo = << >>
    /\ IF job.failed THEN Goto("resume") ELSE SyncThen("restored")
    /\ UNCHANGED <<disk, running, launcher>>

SaveRestoredUnsynced ==
    /\ job.at = "restored" /\ SaveReceipt("Restored")
    /\ job' = ToCleanup
    /\ UNCHANGED <<main, running, launcher, settings>>

SaveRestored ==
    /\ job.at = "restored" /\ SaveReceipt("Restored")
    /\ job' = [ToCleanup EXCEPT !.at = "sync", !.to = "drop"]
    /\ UNCHANGED <<main, running, launcher, settings>>

(* cleanup_backups                                                         *)
Drop ==
    /\ job.at = "drop" /\ job.todo # << >>
    /\ Put(Head(job.todo), NoFile)
    /\ job' = [job EXCEPT !.todo = Tail(@)]
    /\ UNCHANGED <<main, running, launcher, settings>>

Dropped ==
    /\ job.at = "drop" /\ job.todo = << >>
    /\ SyncThen(IF job.task = "restore" /\ ~job.failed THEN "forget" ELSE "resume")
    /\ UNCHANGED <<disk, running, launcher>>

RemoveReceipt ==
    /\ job.at = "forget" /\ Put("receipt", NoFile)
    /\ SyncThen(IF files.receipt.preserveEnv THEN "unmanage" ELSE "resume")
    /\ UNCHANGED <<main, running, launcher, settings>>

Unmanage ==
    /\ job.at = "unmanage" /\ Put("env", WithBlock(files.env, NoFile)) /\ Goto("resume")
    /\ UNCHANGED <<main, running, launcher, settings>>

StepFails ==
    /\ job.task \in {"restore", "cleanup", "finish"}
    /\ job.at \in {"finish", "sync", "restored", "forget", "unmanage"}
    /\ job' = [job EXCEPT !.at = "resume", !.failed = TRUE]
    /\ UNCHANGED <<disk, running, launcher>>

(* resume_after: Main is resumed whether or not the operation failed; a    *)
(* reconciliation without error goes on with the upload.                   *)
Resumes ==
    /\ job.at = "resume" /\ Resume
    /\ job' = IF job.then = "install" /\ ~job.failed
              THEN [Idle EXCEPT !.at = "install", !.build = job.build, !.task = "install"]
              ELSE Idle
    /\ UNCHANGED <<disk, running>>

-----------------------------------------------------------------------------
AppStep ==
    \/ SavePreparing \/ BackupStarts \/ BackupEnds \/ SavePrepared
    \/ PublishApp \/ PublishManifest
    \/ Arm \/ Launch \/ Verified \/ SaveReady \/ FinishWithoutReceipt
    \/ RecoverVerified \/ RecoverReady \/ RecoverOutstanding
    \/ RecoverNothing \/ RecoverLegacyPair \/ RecoverLegacyRest
    \/ Restore \/ CopyBack \/ CopiedBack \/ SaveRestored
    \/ Drop \/ Dropped \/ RemoveReceipt \/ Unmanage \/ Resumes
    \/ ~Finishable /\ NotFinished
    \/ job.at = "await" /\ StartFails

(* An operation of the file system or of Main reports an error.            *)
AppFails ==
    \/ BackupFails \/ InstallFails \/ SkipFailed \/ StepFails
    \/ job.at # "await" /\ StartFails
=============================================================================
