------------------------- MODULE PlatformPublication -------------------------
(***************************************************************************)
(* The agent's reversible publication of an artifact set                   *)
(* (magik/agent/src/publication.rs): replace with its transaction.json,    *)
(* activation, the explicit finish after a reboot and the explicit         *)
(* restore.  At most one stage is kept at a time.                          *)
(***************************************************************************)
EXTENDS InstalledFiles, SequencesExt

VARIABLE stage \* the stage directory, or NoFile

Kinds == {"platform", "local-main"}

Artifacts == {"main", "app", "manifest"}

(* The staged set, the entries of transaction.json with the files they     *)
(* saved, and whether a new boot followed.                                 *)
Stages ==
    [kind : Kinds, app : Apps, main : Mains, rebooted : BOOLEAN, log : Seq(Artifacts),
     saved : [Artifacts -> Apps \union Mains \union Manifests \union {NoFile}]]

(* files: the binding manifest is published last.                          *)
Replaced(kind) ==
    IF kind = "platform" THEN <<"main", "app", "manifest">> ELSE <<"main", "manifest">>

StagedManifest == [gui |-> stage.app, main |-> stage.main]

Staged(entry) == CASE entry = "main"     -> stage.main
                   [] entry = "app"      -> stage.app
                   [] entry = "manifest" -> StagedManifest

Current(entry) == IF entry = "main" THEN main ELSE files[entry]

(* A rename and the sync of its directory.                                 *)
Place(entry, file) ==
    IF entry = "main" THEN main' = file /\ UNCHANGED <<files, unsynced>>
    ELSE /\ files' = [files EXCEPT ![entry] = file]
         /\ unsynced' = [e \in Entries |-> {files'[e]}]
         /\ UNCHANGED main

-----------------------------------------------------------------------------
(* publish: the staged files match the staged manifest, and for a local    *)
(* Main the installed application does.                                    *)
Publish(kind, app, newMain) ==
    /\ IsIdle /\ stage = NoFile
    /\ kind = "local-main" => files.app = app
    /\ stage' = [kind |-> kind, app |-> app, main |-> newMain, rebooted |-> FALSE,
                 log |-> << >>, saved |-> [e \in Artifacts |-> NoFile]]
    /\ job' = [Idle EXCEPT !.at = "disarm", !.task = "publish", !.todo = Replaced(kind)]
    /\ UNCHANGED <<disk, running, launcher>>

(* mode::disarm removes launcher.env; Main suspends the launcher.          *)
Disarm ==
    /\ job.at = "disarm" /\ Quiesce
    /\ Put("env", NoFile) /\ settings' = NoLines
    /\ Goto("save")
    /\ UNCHANGED <<main, running, stage>>

(* The copy is synced and journaled before the file is replaced.           *)
SaveEntry ==
    /\ job.at = "save" /\ job.todo # << >>
    /\ stage' = [stage EXCEPT !.log = Append(@, Head(job.todo)),
                              !.saved[Head(job.todo)] = Current(Head(job.todo))]
    /\ Goto("replace")
    /\ UNCHANGED <<disk, running, launcher>>

ReplaceEntry ==
    /\ job.at = "replace"
    /\ Place(Head(job.todo), Staged(Head(job.todo)))
    /\ job' = [job EXCEPT !.at = "save", !.todo = Tail(@)]
    /\ UNCHANGED <<running, launcher, settings, stage>>

(* A platform waits for the reboot with Main suspended.                    *)
AwaitReboot ==
    /\ job.at = "save" /\ job.todo = << >> /\ stage.kind = "platform"
    /\ job' = Idle
    /\ UNCHANGED <<disk, running, launcher, stage>>

(* reload_healthy: Main reloads itself and its launcher becomes ready.     *)
ReloadHealthy ==
    /\ job.at = "save" /\ job.todo = << >> /\ stage.kind = "local-main"
    /\ running' = main /\ launcher' = [Resumed EXCEPT !.ready = TRUE]
    /\ Goto("discard")
    /\ UNCHANGED <<disk, stage>>

ToRevert == [job EXCEPT !.at = "revert", !.todo = Reverse(stage.log)]

PublishFails ==
    /\ job.task = "publish" /\ job.at \in {"disarm", "save", "replace"}
    /\ stage.kind = "platform" => job.todo # << >>
    /\ job' = ToRevert
    /\ UNCHANGED <<disk, running, launcher, stage>>

-----------------------------------------------------------------------------
(* restore: every entry is tried, last one first, and the backups stay.    *)
RevertEntry ==
    /\ job.at = "revert" /\ job.todo # << >>
    /\ Place(Head(job.todo), stage.saved[Head(job.todo)])
    /\ job' = [job EXCEPT !.todo = Tail(@)]
    /\ UNCHANGED <<running, launcher, settings, stage>>

RevertFails ==
    /\ job.at = "revert" /\ job.todo # << >>
    /\ job' = [job EXCEPT !.todo = Tail(@), !.failed = TRUE]
    /\ UNCHANGED <<disk, running, launcher, stage>>

RevertedAnyhow ==
    /\ job.at = "revert" /\ job.todo = << >>
    /\ IF job.task = "restore-stage" THEN Goto("discard") ELSE Goto("resume-main")
    /\ UNCHANGED <<disk, running, launcher, stage>>

(* A publication that failed keeps its stage; a restore removes it.        *)
Reverted ==
    /\ job.at = "revert" /\ job.todo = << >>
    /\ IF job.task = "restore-stage" /\ ~job.failed THEN Goto("discard")
       ELSE Goto("resume-main")
    /\ UNCHANGED <<disk, running, launcher, stage>>

ResumesMain ==
    /\ job.at = "resume-main" /\ Resume /\ job' = Idle
    /\ running' = IF job.task = "publish" /\ stage.kind = "local-main" THEN main
                  ELSE running
    /\ UNCHANGED <<disk, stage>>

(* publication_control "restore": Main's state must not be ambiguous.      *)
RestoreStage ==
    /\ IsIdle /\ stage # NoFile /\ launcher.active /\ Quiesce
    /\ job' = [ToRevert EXCEPT !.task = "restore-stage"]
    /\ UNCHANGED <<disk, running, stage>>

(* publication_control "finish": a new boot runs what is installed, and    *)
(* what is installed is the staged set.                                    *)
FinishStage ==
    /\ IsIdle /\ stage # NoFile /\ stage.kind = "platform" /\ stage.rebooted
    /\ files.manifest = [gui |-> files.app, main |-> main]
    /\ files.manifest = StagedManifest
    /\ running = main /\ launcher.ready
    /\ job' = [Idle EXCEPT !.at = "discard", !.task = "finish-stage"]
    /\ UNCHANGED <<disk, running, launcher, stage>>

(* remove_dir_all, as one step.                                            *)
Discard ==
    /\ job.at = "discard" /\ stage' = NoFile
    /\ IF job.task = "restore-stage" THEN Goto("resume-main") ELSE job' = Idle
    /\ UNCHANGED <<disk, running, launcher>>

PublicationStep ==
    \/ Disarm \/ SaveEntry \/ ReplaceEntry \/ AwaitReboot \/ ReloadHealthy
    \/ RevertEntry \/ Reverted \/ ResumesMain \/ Discard
    \/ job.at = "save" /\ job.todo = << >> /\ PublishFails

PublicationFails == PublishFails \/ RevertFails
=============================================================================
