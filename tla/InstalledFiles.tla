--------------------------- MODULE InstalledFiles ---------------------------
(***************************************************************************)
(* The files of a Dev installation that the agent replaces, and the        *)
(* program that runs from them.  The two deliveries, AppInstallation and   *)
(* PlatformPublication, share them.                                        *)
(*                                                                         *)
(* A file's contents are synced before it is renamed into place, so a name *)
(* in the Dev directory holds a whole file; until the directory is synced  *)
(* losing power may leave any of the files the name has held.  Syncing a   *)
(* file that is new makes its name durable too, as exFAT and ext4 do.      *)
(***************************************************************************)
EXTENDS Sequences

CONSTANTS
    Apps,     \* builds of the application, by their SHA-256
    Mains,    \* builds of Main, which stands for every other component
    Settings, \* the operator's own lines of launcher.env
    NoLines,  \* no such lines
    NoFile,   \* the name does not exist (and no block, no set)
    Torn      \* a file whose writing has not ended

ASSUME SettingsAssumption == NoLines \in Settings
ASSUME NoFileAssumption ==
    /\ NoFile \notin Apps \union {Torn}
    /\ Torn \notin Apps

VARIABLES
    files,    \* the Dev directory
    unsynced, \* per name, the files losing power may leave there
    main,     \* the installed Main
    running,  \* the Main that runs
    launcher, \* the application that Main supervises
    settings, \* history: the lines the operator last wrote
    job       \* the request at work, which holds Agent.mutations

Entries == {"app", "manifest", "env", "receipt", "oldApp", "oldManifest", "oldEnv"}

(* platform-v3.manifest: the hashes of the set that belongs together.      *)
Manifests == [gui : Apps, main : Mains]

(* launcher.env: the operator's lines, and the block between the markers,  *)
(* by the build it starts.                                                 *)
Envs == [lines : Settings, block : Apps \union {NoFile}]

Lines(env) == IF env = NoFile THEN NoLines ELSE env.lines

(* update: only the marked block changes, and a file that would stay as it *)
(* is, is not written.                                                     *)
WithBlock(env, block) ==
    IF env = NoFile /\ block = NoFile THEN NoFile
    ELSE [lines |-> Lines(env), block |-> block]

(* Several names change, or the whole directory becomes durable.           *)
Put(entry, file) ==
    /\ files' = [files EXCEPT ![entry] = file]
    /\ unsynced' = [unsynced EXCEPT ![entry] = @ \union {file}]

SyncDirectory == unsynced' = [e \in Entries |-> {files[e]}] /\ UNCHANGED files

disk == <<files, unsynced, main, settings>>

(***************************************************************************)
(* Main and its launcher.  A managed start is recognised by the block the  *)
(* launcher was started with.                                              *)
(***************************************************************************)
Suspended == [active |-> FALSE, app |-> NoFile, block |-> NoFile, ready |-> FALSE]

Resumed == [active |-> TRUE, app |-> files.app, ready |-> FALSE,
            block |-> IF files.env = NoFile THEN NoFile ELSE files.env.block]

(* quiesce_app: no child, and Main owns the FPGA.                          *)
Quiesce == launcher' = Suspended

ResumeWithoutError == launcher' = IF launcher.active \/ job.failed THEN launcher ELSE Resumed

(* resume_unless_launcher_running *)
Resume == launcher' = IF launcher.active THEN launcher ELSE Resumed

(* app_is_verified_ready *)
VerifiedReady(app) ==
    /\ launcher.ready
    /\ launcher.app = app /\ launcher.block = app /\ files.app = app

BecomesReady ==
    /\ launcher.active /\ launcher.app # NoFile /\ ~launcher.ready
    /\ launcher' = [launcher EXCEPT !.ready = TRUE]
    /\ UNCHANGED <<disk, running, job>>

Relaunches ==
    /\ launcher.ready /\ launcher' = Resumed
    /\ UNCHANGED <<disk, running, job>>

(* The operator edits launcher.env, and the editor syncs it.               *)
OperatorEdits(lines) ==
    /\ lines # settings /\ settings' = lines
    /\ LET env == [lines |-> lines, block |-> IF files.env = NoFile THEN NoFile
                                              ELSE files.env.block]
       IN  /\ files' = [files EXCEPT !.env = env]
           /\ unsynced' = [unsynced EXCEPT !.env = {env}]
    /\ UNCHANGED <<main, running, launcher, job>>

-----------------------------------------------------------------------------
(* An idle agent, and the fields of a job: its next step, the step after a *)
(* directory sync, where a reconciliation leads, whose errors it meets,    *)
(* the names still to do, the build it delivers, and whether a step of a   *)
(* restoration or cleanup failed.                                          *)
Idle == [at |-> "idle", to |-> "idle", then |-> "reply", task |-> "none",
         todo |-> << >>, build |-> NoFile, failed |-> FALSE]

IsIdle == job.at = "idle"

Goto(at) == job' = [job EXCEPT !.at = at]

(* The directory is synced before the next step.                           *)
SyncThen(to) == job' = [job EXCEPT !.at = "sync", !.to = to]

Sync ==
    /\ job.at = "sync" /\ SyncDirectory
    /\ job' = IF job.to = "idle" THEN Idle ELSE [job EXCEPT !.at = job.to, !.to = "idle"]
    /\ UNCHANGED <<main, running, launcher, settings>>
=============================================================================
