------------------------ MODULE DeliveryTrialProofs ------------------------
(***************************************************************************)
(* What a delivery promises about the installed set, for any number of     *)
(* failures, deaths of the agent, reboots and losses of power: the backups *)
(* a receipt relies on are whole, the installed files belong together, and *)
(* the deliveries implement TrialSwitch.                                   *)
(***************************************************************************)
EXTENDS DeviceDeliveryProofs

(***************************************************************************)
(* The condition.  finish_app_install saves "Ready" with no sync before    *)
(* it; if the rename of the manifest it has just checked is not durable,   *)
(* because an agent died before its sync, losing power may keep the one    *)
(* and take back the other.                                                *)
(***************************************************************************)
FinishesDurably == SaveReady => unsynced.manifest = {files.manifest}

-----------------------------------------------------------------------------
(* What a trial keeps on the disk.                                         *)

Known == unsynced.receipt \ {NoFile}

Expected == files.receipt.expected

OldApp == IF files.receipt.hadApp THEN files.oldApp ELSE NoFile

Returned == files.app = OldApp /\ files.manifest = files.oldManifest

Settled == unsynced.app = {files.app} /\ unsynced.manifest = {files.manifest}

NewManifest == [gui |-> Expected, main |-> main]

(* All receipts that may be found tell of the same trial, and its backups  *)
(* are durable and belong together.                                        *)
BackupsStand ==
    /\ files.receipt # NoFile
    /\ \A r \in Known :
          /\ r.expected = Expected
          /\ r.hadApp = files.receipt.hadApp /\ r.hadEnv = files.receipt.hadEnv
    /\ files.oldManifest \in Manifests /\ files.oldManifest.main = main
    /\ unsynced.oldManifest = {files.oldManifest}
    /\ files.receipt.hadApp =>
          files.oldApp = files.oldManifest.gui /\ unsynced.oldApp = {files.oldApp}
    /\ files.receipt.hadEnv => unsynced.oldEnv \subseteq Envs

(* Before the trial, and after it was taken back.                          *)
EndsReturned ==
    (\E r \in Known : r.phase \in {"Preparing", "Restored"}) => Settled /\ Returned

(* Where "Ready" may be found, it is there, and so is one of the two sets. *)
EndsReady ==
    (\E r \in Known : r.phase = "Ready") =>
        /\ Phase = "Ready"
        /\ \A app \in unsynced.app, manifest \in unsynced.manifest :
               \/ app = OldApp /\ manifest = files.oldManifest
               \/ app = Expected /\ manifest = NewManifest

(* Each file is that of before or the one on trial.                        *)
EndsEither ==
    Expected # NoFile =>
        /\ unsynced.app \subseteq {OldApp, Expected}
        /\ unsynced.manifest \subseteq {files.oldManifest, NewManifest}

(* The manifest follows the application.                                   *)
AppFirst ==
    PublishedMatches(files.receipt) /\ files.oldManifest.gui # Expected =>
        unsynced.app = {Expected}

TrialDisk ==
    IF OnTrial
    THEN stage = NoFile /\ BackupsStand /\ EndsReturned /\ EndsReady /\ EndsEither /\ AppFirst
    ELSE Settled

(* Where there may be no receipt, there is no manifest of before, or an    *)
(* older agent's pair, or a trial made of that.                            *)
Orphans ==
    NoFile \in unsynced.receipt =>
        \/ ~OnTrial /\ unsynced.oldManifest = {NoFile}
        \/ /\ stage = NoFile /\ OldPairComplete
           /\ \/ unsynced.receipt = {NoFile}
              \/ OnTrial /\ Expected = NoFile /\ files.receipt.hadApp

(* The set a recovery leads to belongs together.                           *)
ProvenBinds ==
    Proven.app \in {NoFile, Proven.manifest.gui} /\ Proven.manifest.main = Proven.main

-----------------------------------------------------------------------------
(* And at each place of a job.  Where a trial stands is told by its phase. *)
AtPhases ==
    /\ OnTrial => Phase \in {"Prepared", "Restored"} \/ (Phase = "Ready" /\ ReadyUnsynced)
    /\ job.at = "drop" \/ Stop = "forget" => ~OnTrial
    /\ Stop \in {"arm", "launch", "await", "finish", "drop"} /\ Phase = "None" =>
           files.oldManifest = NoFile

(* Staged::publish: the backups are copies of what is installed, and the   *)
(* new pair is renamed in one after the other.                             *)
AtTrial ==
    /\ Stop \in {"install", "backup", "copying", "app", "manifest"} => stage = NoFile
    /\ job.then = "install" => stage = NoFile
    /\ Stop \in {"backup", "copying"} =>
          /\ Expected = job.build
          /\ files.receipt.hadApp = (files.app # NoFile)
    /\ job.at \in {"backup", "copying", "app", "manifest"} =>
           unsynced.receipt = {files.receipt}
    /\ job.at \in {"backup", "copying"} =>
          /\ "manifest" \notin Left => unsynced.oldManifest = {files.manifest}
          /\ files.receipt.hadApp /\ "app" \notin Left => unsynced.oldApp = {files.app}
    /\ Stop \in {"app", "manifest"} => Phase = "Prepared" /\ Expected = job.build
    /\ Stop = "app" => Settled /\ Returned
    /\ Stop = "manifest" =>
          /\ files.app = Expected /\ files.manifest = files.oldManifest
          /\ unsynced.manifest = {files.manifest}
    /\ job.at = "manifest" => unsynced.app = {Expected}

(* What is copied back stays until the receipt says so.                    *)
AtReturn ==
    /\ Stop = "copy" /\ ~job.failed =>
          /\ "app" \notin Left => files.app = OldApp
          /\ "manifest" \notin Left => files.manifest = files.oldManifest
    /\ Stop = "restored" /\ OnTrial => Returned
    /\ job.at = "restored" /\ OnTrial => Settled

Distinct(s) == \A i, j \in DOMAIN s : s[i] = s[j] => i = j

(* A publication replaces and reverts only what its journal holds.         *)
AtStage ==
    /\ Stop \in {"disarm", "save", "replace"} =>
          /\ job.task = "publish" /\ Distinct(job.todo)
          /\ \A e \in ToSet(Replaced(stage.kind)) \ Left : Current(e) = Staged(e)
          /\ stage.kind = "local-main" => files.app = stage.app
    /\ Stop \in {"disarm", "save"} => Logged \intersect Left = {}
    /\ Stop = "replace" => Head(job.todo) \in Logged /\ Logged \intersect ToSet(Tail(job.todo)) = {}
    /\ Stop = "revert" /\ ~job.failed => \A e \in Logged \ Left : Current(e) = stage.saved[e]
    /\ Stop = "discard" =>
          /\ stage # NoFile
          /\ IF job.task = "restore-stage" THEN \A e \in Logged : Current(e) = stage.saved[e]
             ELSE \A e \in Artifacts : Current(e) = Staged(e)

TrialJob == AtPhases /\ AtTrial /\ AtReturn /\ AtStage

(* What every state keeps.                                                 *)
TrialInv == DeliveryInv /\ TrialDisk /\ Orphans /\ ProvenBinds /\ TrialJob

-----------------------------------------------------------------------------
LEMMA DiskFacts ==
    ASSUME DeliveryInv
    PROVE  /\ files.app \in Apps \union {NoFile} /\ files.manifest \in Manifests
           /\ files.receipt \in Receipts \union {NoFile}
           /\ files.oldApp \in Apps \union {NoFile, Torn}
           /\ files.oldManifest \in Manifests \union {NoFile, Torn}
           /\ unsynced.app \subseteq Apps \union {NoFile}
           /\ unsynced.manifest \subseteq Manifests
           /\ unsynced.receipt \subseteq Receipts \union {NoFile}
           /\ files.app \in unsynced.app /\ files.manifest \in unsynced.manifest
           /\ files.receipt \in unsynced.receipt /\ files.oldApp \in unsynced.oldApp
           /\ files.oldManifest \in unsynced.oldManifest /\ files.oldEnv \in unsynced.oldEnv
           /\ main \in Mains
<1>1. \A e \in Entries : files[e] \in FileOf[e] /\ unsynced[e] \subseteq FileOf[e]
                         /\ files[e] \in unsynced[e]
  BY DEF DeliveryInv, DiskOK, FilesOK, UnsyncedOK, DiskFits, FilesStand
<1> QED BY <1>1, FileTypes DEF Old, Originators, DeliveryInv, MachineOK

LEMMA PhaseFacts ==
    ASSUME DeliveryInv
    PROVE  /\ Phase \in Phases \union {"None"}
           /\ Phase = "None" <=> files.receipt = NoFile
           /\ Phase # "None" => Phase = files.receipt.phase /\ files.receipt \in Known
           /\ Phase = "Prepared" => OnTrial
<1>1. files.receipt \in Receipts \union {NoFile} /\ files.receipt \in unsynced.receipt
  BY DiskFacts
<1>2. files.receipt # NoFile => Phase = files.receipt.phase /\ Phase \in Phases
  BY <1>1 DEF Phase, Receipts
<1>3. files.receipt = NoFile => Phase = "None"
  BY DEF Phase
<1>4. "None" \notin Phases
  BY DEF Phases
<1> QED BY <1>1, <1>2, <1>3, <1>4 DEF Known, OnTrial, Phases

(* A step that changes launcher.env at most.                               *)
Aside ==
    /\ UNCHANGED <<main, stage>>
    /\ \A e \in Entries \ {"env"} : files'[e] = files[e] /\ unsynced'[e] = unsynced[e]

LEMMA AsideKeeps ==
    ASSUME Aside, TrialDisk, Orphans
    PROVE  /\ TrialDisk' /\ Orphans' /\ Proven' = Proven /\ Trial' = Trial
           /\ OnTrial' <=> OnTrial
           /\ Phase' = Phase /\ files'.oldManifest = files.oldManifest
<1>1. /\ files'.app = files.app /\ files'.manifest = files.manifest
      /\ files'.receipt = files.receipt
      /\ files'.oldApp = files.oldApp /\ files'.oldManifest = files.oldManifest
      /\ unsynced'.app = unsynced.app /\ unsynced'.manifest = unsynced.manifest
      /\ unsynced'.receipt = unsynced.receipt
      /\ unsynced'.oldApp = unsynced.oldApp /\ unsynced'.oldManifest = unsynced.oldManifest
      /\ unsynced'.oldEnv = unsynced.oldEnv
      /\ main' = main /\ stage' = stage
  BY DEF Aside, Entries
<1>2. /\ OnTrial' <=> OnTrial
      /\ Phase' = Phase /\ (OldPairComplete' <=> OldPairComplete)
      /\ (NoBackups' <=> NoBackups) /\ Expected' = Expected /\ OldApp' = OldApp
      /\ Logged' = Logged
  BY <1>1 DEF OnTrial, Phase, OldPairComplete, NoBackups, Expected, OldApp, Logged
<1>3. (Known' = Known) /\ (Settled' <=> Settled) /\ (Returned' <=> Returned)
      /\ NewManifest' = NewManifest
  BY <1>1, <1>2 DEF Known, Settled, Returned, NewManifest
<1>4. TrialDisk'
  <2>1. BackupsStand => BackupsStand'
    BY <1>1, <1>2, <1>3 DEF BackupsStand
  <2>2. EndsReturned => EndsReturned'
    BY <1>3 DEF EndsReturned
  <2>3. EndsReady => EndsReady'
    BY <1>1, <1>2, <1>3 DEF EndsReady
  <2>4. EndsEither => EndsEither'
    BY <1>1, <1>2, <1>3 DEF EndsEither
  <2>5. AppFirst => AppFirst'
    BY <1>1, <1>2 DEF AppFirst, PublishedMatches
  <2> QED BY <1>1, <1>2, <1>3, <2>1, <2>2, <2>3, <2>4, <2>5 DEF TrialDisk
<1>5. Orphans'
  BY <1>1, <1>2 DEF Orphans
<1>6. /\ (LegacyTrial' <=> LegacyTrial) /\ Installed' = Installed
      /\ \A e \in Artifacts : Current(e)' = Current(e)
  BY <1>1, <1>2 DEF LegacyTrial, Legacy, Installed, Current, Artifacts
<1>7. Journaled("app")' = Journaled("app") /\ Journaled("main")' = Journaled("main")
      /\ Journaled("manifest")' = Journaled("manifest")
  BY <1>1, <1>2, <1>6 DEF Journaled, Artifacts
<1>8. Proven' = Proven
  BY <1>1, <1>2, <1>6, <1>7 DEF Proven
<1>9. Trial' = Trial
  BY <1>1, <1>2, <1>6 DEF Trial, Matching
<1> QED BY <1>1, <1>2, <1>4, <1>5, <1>8, <1>9

(* Places where nothing more is asked of the trial.                        *)
Apart ==
    {"idle", "recover", "undo", "resume", "resume-main", "restore", "unmanage",
     "arm", "launch", "await", "finish"}

LEMMA ApartLands ==
    ASSUME Stop' \in Apart,
           OnTrial' => Phase' \in {"Prepared", "Restored"},
           job'.then = "install" => stage' = NoFile,
           Stop' \in {"arm", "launch", "await", "finish"} /\ Phase' = "None" =>
               files'.oldManifest = NoFile
    PROVE  TrialJob'
<1>1. AtPhases'
  BY DEF AtPhases, Apart, Stop
<1>2. AtTrial'
  BY DEF AtTrial, Apart, Stop
<1>3. AtReturn'
  BY DEF AtReturn, Apart, Stop
<1>4. AtStage'
  BY DEF AtStage, Apart, Stop
<1> QED BY <1>1, <1>2, <1>3, <1>4 DEF TrialJob

LEMMA AsideLands ==
    ASSUME TrialInv, Aside, Stop' \in Apart, ~ReadyUnsynced,
           job'.then = "install" => stage = NoFile,
           Stop' \in {"arm", "launch", "await", "finish"} /\ Phase = "None" =>
               files.oldManifest = NoFile
    PROVE  TrialJob'
<1>1. (OnTrial' <=> OnTrial) /\ Phase' = Phase /\ files'.oldManifest = files.oldManifest
      /\ stage' = stage
  BY AsideKeeps DEF TrialInv, Aside
<1>2. OnTrial => Phase \in {"Prepared", "Restored"}
  BY DEF TrialInv, TrialJob, AtPhases
<1> QED BY <1>1, <1>2, ApartLands

-----------------------------------------------------------------------------
(* The set a recovery leads to and the set on trial, case by case.         *)

Backed == [app |-> OldApp, main |-> main, manifest |-> files.oldManifest]

LEMMA SetsAre ==
    /\ stage # NoFile =>
          /\ Proven = [app |-> Journaled("app"), main |-> Journaled("main"),
                       manifest |-> Journaled("manifest")]
          /\ Trial = Matching(stage.app, stage.main)
    /\ stage = NoFile /\ OnTrial => Proven = Backed /\ Trial = Matching(Expected, main)
    /\ stage = NoFile /\ ~OnTrial /\ LegacyTrial =>
          /\ Proven = [app |-> files.oldApp, main |-> main, manifest |-> files.oldManifest]
          /\ Trial = Matching(NoFile, main)
    /\ stage = NoFile /\ ~OnTrial /\ ~LegacyTrial => Proven = Installed /\ Trial = NoFile
<1>1. stage # NoFile =>
          /\ Proven = [app |-> Journaled("app"), main |-> Journaled("main"),
                       manifest |-> Journaled("manifest")]
          /\ Trial = Matching(stage.app, stage.main)
  BY DEF Proven, Trial
<1>2. stage = NoFile /\ OnTrial => Proven = Backed /\ Trial = Matching(Expected, main)
  <2> SUFFICES ASSUME stage = NoFile, OnTrial
               PROVE  Proven = Backed /\ Trial = Matching(Expected, main)
    OBVIOUS
  <2> DEFINE app == IF OnTrial /\ ~files.receipt.hadApp THEN NoFile ELSE files.oldApp
  <2>1. app = OldApp
    BY DEF OldApp
  <2>2. Proven = [app |-> app, main |-> main, manifest |-> files.oldManifest]
    BY DEF Proven
  <2> HIDE DEF app
  <2>3. Proven = Backed
    BY <2>1, <2>2 DEF Backed
  <2>4. Trial = Matching(files.receipt.expected, main)
    BY DEF Trial, LegacyTrial
  <2> QED BY <2>3, <2>4 DEF Expected
<1>3. stage = NoFile /\ ~OnTrial /\ LegacyTrial =>
          /\ Proven = [app |-> files.oldApp, main |-> main, manifest |-> files.oldManifest]
          /\ Trial = Matching(NoFile, main)
  BY DEF Proven, Trial
<1>4. stage = NoFile /\ ~OnTrial /\ ~LegacyTrial => Proven = Installed /\ Trial = NoFile
  BY DEF Proven, Trial
<1> QED BY <1>1, <1>2, <1>3, <1>4

LEMMA Matched ==
    ASSUME NEW app \in Apps \union {NoFile}, NEW build \in Mains
    PROVE  /\ Matching(app, build) \in Sets /\ Matching(app, build) # NoFile
           /\ Matching(app, build).app = app /\ Matching(app, build).main = build
           /\ Matching(app, build).manifest = [gui |-> app, main |-> build]
           /\ Matching(app, build).manifest.gui = app
           /\ Matching(app, build).manifest.main = build
<1>1. [gui |-> app, main |-> build] \in [gui : Apps \union {NoFile}, main : Mains]
  OBVIOUS
<1>2. Matching(app, build) \in Sets
  BY <1>1 DEF Matching, Sets
<1> QED BY <1>2, SetsAssumption DEF Matching

LEMMA TrialTyped ==
    ASSUME DeliveryInv, TrialDisk
    PROVE  Trial \in Sets \union {NoFile} /\ (stage # NoFile \/ OnTrial => Trial # NoFile)
<1>1. main \in Mains /\ StageOK
  BY DiskFacts DEF DeliveryInv
<1>2. OnTrial => Expected \in Apps \union {NoFile}
  BY DiskFacts DEF TrialDisk, BackupsStand, Expected, Receipts
<1>3. stage # NoFile => stage.app \in Apps /\ stage.main \in Mains
  BY <1>1, StageTyped
<1>4. CASE stage # NoFile
  <2>1. Trial = Matching(stage.app, stage.main)
    BY <1>4, SetsAre
  <2>2. Matching(stage.app, stage.main) \in Sets /\ Matching(stage.app, stage.main) # NoFile
    BY <1>3, <1>4, Matched
  <2> QED BY <2>1, <2>2
<1>5. CASE stage = NoFile /\ OnTrial
  <2>1. Trial = Matching(Expected, main) /\ Expected \in Apps \union {NoFile}
    BY <1>2, <1>5, SetsAre
  <2>2. Matching(Expected, main) \in Sets /\ Matching(Expected, main) # NoFile
    BY <1>1, <2>1, Matched
  <2> QED BY <2>1, <2>2
<1>6. CASE stage = NoFile /\ ~OnTrial
  <2>1. Trial \in {Matching(NoFile, main), NoFile}
    BY <1>6, SetsAre
  <2>2. Matching(NoFile, main) \in Sets
    BY <1>1, Matched
  <2> QED BY <1>6, <2>1, <2>2
<1> QED BY <1>4, <1>5, <1>6

(* What a step may do to the two sets.                                     *)
SwitchStep == Switch!Next \/ (Proven' = Proven /\ Trial' = Trial)

LEMMA BindsKept ==
    ASSUME TrialInv, SwitchStep PROVE ProvenBinds'
<1>1. Proven' = Proven \/ (Trial # NoFile /\ Proven' = Trial)
  BY DEF SwitchStep, Switch!Next, Switch!Begin, Switch!Keep, Switch!Abandon
<1>2. CASE Proven' = Proven
  BY <1>2 DEF ProvenBinds, TrialInv
<1>3. CASE Trial # NoFile /\ Proven' = Trial
  <2>1. PICK app, build : Trial = Matching(app, build)
    BY <1>3, SetsAre
  <2> QED BY <1>3, <2>1 DEF ProvenBinds, Matching
<1> QED BY <1>1, <1>2, <1>3

LEMMA Kept ==
    ASSUME Trial # NoFile, Proven' = Trial, Trial' = NoFile PROVE SwitchStep
  BY DEF SwitchStep, Switch!Next, Switch!Keep

LEMMA Abandoned ==
    ASSUME Trial # NoFile, Proven' = Proven, Trial' = NoFile PROVE SwitchStep
  BY DEF SwitchStep, Switch!Next, Switch!Abandon

LEMMA Begun ==
    ASSUME Trial = NoFile, Proven' = Proven, Trial' \in Sets PROVE SwitchStep
  BY DEF SwitchStep, Switch!Next, Switch!Begin
-----------------------------------------------------------------------------
(* A sync of the directory, or a boot: of the files that may be found in   *)
(* the directory one is, for every name.                                   *)

Survives ==
    /\ UNCHANGED main
    /\ \A e \in Entries \ {"env"} : files'[e] \in unsynced[e] /\ unsynced'[e] = {files'[e]}
    /\ stage = NoFile => stage' = NoFile
    /\ stage # NoFile => /\ stage' # NoFile
                         /\ stage'.app = stage.app /\ stage'.main = stage.main
                         /\ stage'.log = stage.log /\ stage'.saved = stage.saved

LEMMA LegacySurvives ==
    ASSUME TrialInv, Survives, ~OnTrial, ~OnTrial'
    PROVE  /\ LegacyTrial' <=> LegacyTrial
           /\ LegacyTrial => files'.oldApp = files.oldApp
                             /\ files'.oldManifest = files.oldManifest
<1>1. /\ files'.receipt \in unsynced.receipt /\ files'.oldManifest \in unsynced.oldManifest
      /\ files'.oldApp \in unsynced.oldApp
  BY DEF Survives, Entries
<1>2. DeliveryInv /\ Orphans
  BY DEF TrialInv
<1>3. /\ files.receipt \in unsynced.receipt /\ files.oldManifest \in unsynced.oldManifest
      /\ files'.receipt \in Receipts \union {NoFile}
      /\ files.oldManifest \in Manifests \union {NoFile, Torn}
  BY <1>1, <1>2, DiskFacts
<1>4. Phase = "None" <=> files.receipt = NoFile
  BY <1>2, PhaseFacts
<1>5. Phase' = "None" <=> files'.receipt = NoFile
  BY <1>3, NamesAssumption DEF Phase, Receipts, Phases
<1>6. CASE NoFile \in unsynced.receipt /\ unsynced.oldManifest = {NoFile}
  BY <1>1, <1>3, <1>6 DEF LegacyTrial, OldPairComplete
<1>7. CASE unsynced.receipt = {NoFile} /\ OldPairComplete
  <2>1. Phase = "None" /\ Phase' = "None"
    BY <1>1, <1>3, <1>4, <1>5, <1>7
  <2>2. files.oldManifest # NoFile /\ files.oldManifest.gui = files.oldApp
    BY <1>7 DEF OldPairComplete
  <2>3. files.oldManifest \in Manifests
    <3>1. Torn \notin unsynced.oldManifest
      BY <1>2, <2>1, NoneTorn DEF Old
    <3> QED BY <1>3, <2>2, <3>1
  <2>4. files.oldApp # NoFile
    BY <2>2, <2>3, NoFileAssumption DEF Manifests
  <2>5. unsynced.oldManifest = {files.oldManifest} /\ unsynced.oldApp = {files.oldApp}
    BY <1>2, <1>7, <2>2, <2>4 DEF DeliveryInv, DiskFits, UnreceiptedSettled, Old
  <2>6. files'.oldManifest = files.oldManifest /\ files'.oldApp = files.oldApp
    BY <1>1, <2>5
  <2> QED BY <2>6, <2>1 DEF LegacyTrial, Legacy, NoBackups, OldPairComplete
<1>8. CASE NoFile \notin unsynced.receipt
  <2>1. Phase # "None" /\ Phase' # "None"
    BY <1>1, <1>3, <1>4, <1>5, <1>8
  <2> QED BY <2>1 DEF LegacyTrial, Legacy
<1> QED BY <1>2, <1>6, <1>7, <1>8 DEF Orphans

LEMMA SurvivesOnTrial ==
    ASSUME TrialInv, Survives
    PROVE  /\ OnTrial' <=> Phase' = "Prepared"
           /\ TrialDisk' /\ Orphans' /\ SwitchStep
<1>1. DeliveryInv /\ TrialDisk /\ Orphans
  BY DEF TrialInv
<1>2. /\ files'.app \in unsynced.app /\ unsynced'.app = {files'.app}
      /\ files'.manifest \in unsynced.manifest /\ unsynced'.manifest = {files'.manifest}
      /\ files'.receipt \in unsynced.receipt /\ unsynced'.receipt = {files'.receipt}
      /\ files'.oldApp \in unsynced.oldApp /\ unsynced'.oldApp = {files'.oldApp}
      /\ files'.oldManifest \in unsynced.oldManifest
      /\ unsynced'.oldManifest = {files'.oldManifest}
      /\ files'.oldEnv \in unsynced.oldEnv /\ unsynced'.oldEnv = {files'.oldEnv}
      /\ main' = main
  BY DEF Survives, Entries
<1>3. files'.receipt \in Receipts \union {NoFile}
  BY <1>1, <1>2, DiskFacts
<1>4. /\ Phase' = "None" <=> files'.receipt = NoFile
      /\ Phase' # "None" => Phase' = files'.receipt.phase /\ files'.receipt \in Known
      /\ Phase' \in Phases \union {"None"}
  BY <1>2, <1>3 DEF Phase, Receipts, Phases, Known
<1>5. OnTrial' <=> Phase' = "Prepared"
  <2>1. OnTrial' <=> (files'.receipt # NoFile /\ files'.receipt.phase = "Prepared")
    BY <1>2 DEF OnTrial
  <2> QED BY <1>4, <2>1 DEF Phases
<1>6. (Phase' = "Prepared" => OnTrial) /\ Settled'
  BY <1>2, <1>4 DEF OnTrial, Settled, Known
<1>7. CASE Phase' = "Prepared"
  <2>1. /\ stage = NoFile /\ stage' = NoFile /\ BackupsStand /\ EndsEither /\ AppFirst
        /\ files'.receipt \in Known /\ files'.receipt # NoFile
        /\ files'.receipt.phase = "Prepared"
    BY <1>1, <1>4, <1>6, <1>7 DEF TrialDisk, Survives
  <2>2. /\ Expected' = Expected /\ files'.receipt.hadApp = files.receipt.hadApp
        /\ files'.receipt.hadEnv = files.receipt.hadEnv
    BY <2>1 DEF BackupsStand, Expected
  <2>3. files'.oldManifest = files.oldManifest /\ OldApp' = OldApp
        /\ (files.receipt.hadApp => files'.oldApp = files.oldApp)
        /\ NewManifest' = NewManifest
    BY <1>2, <2>1, <2>2 DEF BackupsStand, OldApp, NewManifest
  <2>4. Known' = {files'.receipt}
    BY <1>2, <2>1 DEF Known
  <2>5. BackupsStand'
    BY <1>2, <2>1, <2>2, <2>3, <2>4 DEF BackupsStand, Expected
  <2>6. EndsReturned' /\ EndsReady'
    BY <2>1, <2>4 DEF EndsReturned, EndsReady
  <2>7. EndsEither'
    BY <1>2, <2>1, <2>2, <2>3 DEF EndsEither
  <2>8. AppFirst'
    BY <1>2 DEF AppFirst, PublishedMatches, Expected
  <2>9. TrialDisk'
    BY <1>5, <1>7, <2>1, <2>5, <2>6, <2>7, <2>8 DEF TrialDisk
  <2>10. Orphans'
    BY <1>2, <2>1 DEF Orphans
  <2>11. SwitchStep
    <3>1. Proven = Backed /\ Trial = Matching(Expected, main)
      BY <1>6, <1>7, <2>1, SetsAre
    <3>2. (stage = NoFile /\ OnTrial => Proven = Backed /\ Trial = Matching(Expected, main))'
      BY SetsAre, PTL
    <3>3. Backed' = Backed /\ Matching(Expected, main)' = Matching(Expected, main)
      BY <1>2, <2>2, <2>3 DEF Backed, Matching
    <3> QED BY <1>5, <1>7, <2>1, <3>1, <3>2, <3>3 DEF SwitchStep
  <2> QED BY <1>5, <2>9, <2>10, <2>11
<1>8. CASE Phase' # "Prepared"
  <2>1. TrialDisk' /\ ~OnTrial'
    BY <1>5, <1>6, <1>8 DEF TrialDisk
  <2>2. Orphans'
    <3> SUFFICES ASSUME files'.receipt = NoFile PROVE Orphans'
      BY <1>2 DEF Orphans
    <3>1. CASE unsynced.oldManifest = {NoFile}
      BY <1>2, <2>1, <3>1 DEF Orphans
    <3>2. CASE OnTrial /\ stage = NoFile /\ OldPairComplete /\ files.receipt.hadApp
      <4>1. files'.oldApp = files.oldApp /\ files'.oldManifest = files.oldManifest
            /\ stage' = NoFile
        BY <1>1, <1>2, <3>2 DEF TrialDisk, BackupsStand, Survives
      <4> QED BY <1>2, <3>2, <4>1 DEF Orphans, OldPairComplete
    <3>3. CASE ~OnTrial /\ stage = NoFile /\ OldPairComplete /\ unsynced.receipt = {NoFile}
      <4>1. files.oldManifest # NoFile /\ files.oldManifest.gui = files.oldApp
        BY <3>3 DEF OldPairComplete
      <4>2. files.receipt = NoFile /\ Phase = "None"
        BY <1>1, <3>3, DiskFacts, PhaseFacts
      <4>3. LegacyTrial
        BY <3>3, <4>1, <4>2 DEF LegacyTrial, Legacy, NoBackups
      <4>4. files'.oldApp = files.oldApp /\ files'.oldManifest = files.oldManifest
            /\ stage' = NoFile
        BY <2>1, <3>3, <4>3, LegacySurvives DEF Survives
      <4> QED BY <1>2, <3>3, <4>4 DEF Orphans, OldPairComplete
    <3>4. CASE OnTrial /\ unsynced.receipt = {NoFile}
      BY <3>4 DEF OnTrial
    <3> QED BY <1>1, <1>2, <3>1, <3>2, <3>3, <3>4 DEF Orphans
  <2>3. ASSUME OnTrial PROVE SwitchStep
    <3>1. stage = NoFile /\ stage' = NoFile
      BY <1>1, <2>3 DEF TrialDisk, Survives
    <3>2. Proven = Backed /\ Trial = Matching(Expected, main) /\ Trial # NoFile
      BY <1>1, <2>3, <3>1, SetsAre, TrialTyped
    <3>3. CASE files'.receipt = NoFile
      <4>1. OldPairComplete /\ Expected = NoFile /\ files.receipt.hadApp
        <5>1. unsynced.receipt # {NoFile}
          BY <2>3 DEF OnTrial
        <5> QED BY <1>1, <1>2, <2>3, <3>3, <5>1 DEF Orphans
      <4>2. files'.oldApp = files.oldApp /\ files'.oldManifest = files.oldManifest
            /\ OldApp = files.oldApp
        BY <1>1, <1>2, <2>3, <4>1 DEF TrialDisk, BackupsStand, OldApp
      <4>3. LegacyTrial'
        BY <1>4, <2>1, <3>3, <4>1, <4>2 DEF LegacyTrial, Legacy, NoBackups, OldPairComplete
      <4>4. (stage = NoFile /\ ~OnTrial /\ LegacyTrial =>
               /\ Proven = [app |-> files.oldApp, main |-> main,
                            manifest |-> files.oldManifest]
               /\ Trial = Matching(NoFile, main))'
        BY SetsAre, PTL
      <4>5. Proven' = Backed /\ Trial' = Matching(NoFile, main)
        BY <1>2, <2>1, <3>1, <4>2, <4>3, <4>4 DEF Backed, Matching
      <4> QED BY <3>2, <4>1, <4>5 DEF SwitchStep
    <3>4. CASE files'.receipt # NoFile
      <4>1. ~LegacyTrial'
        BY <1>4, <3>4 DEF LegacyTrial, Legacy
      <4>2. (stage = NoFile /\ ~OnTrial /\ ~LegacyTrial => Proven = Installed /\ Trial = NoFile)'
        BY SetsAre, PTL
      <4>3. Proven' = Installed' /\ Trial' = NoFile
        BY <2>1, <3>1, <4>1, <4>2
      <4>4. files'.receipt \in Known /\ files'.receipt.phase \in {"Preparing", "Restored", "Ready"}
        BY <1>4, <1>8, <3>4 DEF Phases
      <4>5. \/ files'.app = OldApp /\ files'.manifest = files.oldManifest
            \/ files'.app = Expected /\ files'.manifest = NewManifest
        <5>1. CASE files'.receipt.phase = "Ready"
          BY <1>1, <1>2, <2>3, <4>4, <5>1 DEF TrialDisk, EndsReady
        <5>2. CASE files'.receipt.phase # "Ready"
          BY <1>1, <1>2, <2>3, <4>4, <5>2 DEF TrialDisk, EndsReturned, Settled, Returned
        <5> QED BY <5>1, <5>2
      <4>6. CASE files'.app = OldApp /\ files'.manifest = files.oldManifest
        <5>1. Installed' = Backed
          BY <1>2, <4>6 DEF Installed, Backed
        <5> QED BY <3>2, <4>3, <5>1, Abandoned
      <4>7. CASE files'.app = Expected /\ files'.manifest = NewManifest
        <5>1. Installed' = Matching(Expected, main)
          BY <1>2, <4>7 DEF Installed, Matching, NewManifest
        <5> QED BY <3>2, <4>3, <5>1, Kept
      <4> QED BY <4>5, <4>6, <4>7
    <3> QED BY <3>3, <3>4
  <2>4. ASSUME ~OnTrial PROVE SwitchStep
    <3>1. files'.app = files.app /\ files'.manifest = files.manifest /\ Installed' = Installed
      BY <1>1, <1>2, <2>4 DEF TrialDisk, Settled, Installed
    <3>2. CASE stage # NoFile
      <4>1. stage' # NoFile /\ Logged' = Logged /\ (\A e \in Artifacts : Current(e)' = Current(e))
            /\ stage'.saved = stage.saved /\ stage'.app = stage.app /\ stage'.main = stage.main
        BY <1>2, <3>1, <3>2 DEF Survives, Logged, Current, Artifacts
      <4>2. \A e \in Artifacts : Journaled(e)' = Journaled(e)
        BY <4>1 DEF Journaled
      <4>3. Proven' = Proven
        BY <3>2, <4>1, <4>2 DEF Proven, Artifacts
      <4>4. Trial' = Trial
        BY <3>2, <4>1 DEF Trial, Matching
      <4> QED BY <4>3, <4>4 DEF SwitchStep
    <3>3. CASE stage = NoFile
      <4>1. stage' = NoFile
        BY <3>3 DEF Survives
      <4>2. /\ LegacyTrial' <=> LegacyTrial
            /\ LegacyTrial => files'.oldApp = files.oldApp
                              /\ files'.oldManifest = files.oldManifest
        BY <2>1, <2>4, LegacySurvives
      <4>3. Proven' = Proven
        BY <1>2, <2>1, <2>4, <3>1, <3>3, <4>1, <4>2 DEF Proven
      <4>4. Trial' = Trial
        BY <1>2, <2>1, <2>4, <3>3, <4>1, <4>2 DEF Trial, Matching
      <4> QED BY <4>3, <4>4 DEF SwitchStep
    <3> QED BY <3>2, <3>3
  <2> QED BY <1>5, <2>1, <2>2, <2>3, <2>4
<1> QED BY <1>7, <1>8

LEMMA SyncOnTrial ==
    ASSUME TrialInv, Sync, UNCHANGED stage
    PROVE  /\ UNCHANGED <<files, main, stage>>
           /\ OnTrial' <=> Phase = "Prepared"
           /\ TrialDisk' /\ Orphans' /\ SwitchStep
<1>1. UNCHANGED <<files, main, stage>> /\ unsynced' = [e \in Entries |-> {files[e]}]
  BY DEF Sync, SyncDirectory
<1>2. \A e \in Entries : files[e] \in unsynced[e]
  BY DEF TrialInv, DeliveryInv, DiskFits, FilesStand
<1>3. Survives
  BY <1>1, <1>2 DEF Survives
<1>4. Phase' = Phase
  BY <1>1 DEF Phase
<1> QED BY <1>1, <1>3, <1>4, SurvivesOnTrial

LEMMA SyncLands ==
    ASSUME TrialInv, Sync, UNCHANGED stage PROVE TrialJob'
<1>1. UNCHANGED <<files, main, stage>> /\ (OnTrial' <=> Phase = "Prepared")
  BY SyncOnTrial
<1>2. /\ job.at = "sync" /\ unsynced' = [e \in Entries |-> {files[e]}]
      /\ job' = IF job.to = "idle" THEN Idle ELSE [job EXCEPT !.at = job.to, !.to = "idle"]
      /\ DeliveryInv /\ TrialJob /\ job \in Jobs
  BY DEF Sync, SyncDirectory, TrialInv, DeliveryInv, JobOK
<1>3. /\ unsynced'.app = {files.app} /\ unsynced'.manifest = {files.manifest}
      /\ unsynced'.receipt = {files.receipt}
  BY <1>2 DEF Entries
<1>4. Settled'
  BY <1>1, <1>3 DEF Settled
<1>5. CASE job.to = "idle"
  <2>1. job'.at = "idle" /\ job'.then = "reply"
    BY <1>2, <1>5 DEF Idle
  <2>2. AtPhases'
    BY <1>1, <2>1 DEF AtPhases, Stop, Phase
  <2> QED BY <2>1, <2>2 DEF TrialJob, AtTrial, AtReturn, AtStage, Stop
<1>6. CASE job.to # "idle"
  <2>1. /\ job'.at = job.to /\ job'.to = "idle" /\ job'.todo = job.todo
        /\ job'.then = job.then /\ job'.task = job.task /\ job'.build = job.build
        /\ job'.failed = job.failed
    BY <1>2, <1>6 DEF Jobs
  <2>2. Stop = job.to /\ (Stop' = Stop \/ Stop' = "idle") /\ Left' = Left
        /\ (job'.at # "sync" => job'.at = Stop)
    BY <1>2, <2>1 DEF Stop, Left
  <2>3. Phase' = Phase /\ Expected' = Expected /\ (Returned' <=> Returned) /\ OldApp' = OldApp
        /\ Logged' = Logged /\ (\A e : Current(e)' = Current(e))
        /\ (\A e : Staged(e)' = Staged(e)) /\ (OnTrial' => OnTrial)
        /\ Replaced(stage.kind)' = Replaced(stage.kind)
    BY <1>1, <1>2, PhaseFacts
       DEF Phase, Expected, Returned, OldApp, Logged, Current, Staged, StagedManifest
  <2>4. /\ job'.at = "drop" \/ Stop' = "forget" => Phase \in {"None", "Restored", "Ready"}
    BY <1>2, <2>1, <2>2 DEF DeliveryInv, JobFits, AtCleanup
  <2>5. AtPhases'
    BY <1>1, <1>2, <2>2, <2>3, <2>4 DEF AtPhases, TrialJob
  <2>6. /\ job'.at # "copying"
        /\ job'.at = "backup" => "manifest" \in Left /\ (files.receipt.hadApp => "app" \in Left)
    BY <1>2, <2>1, <2>2 DEF DeliveryInv, JobFits, AtBackup
  <2>7. AtTrial'
    <3> AtTrial
      BY <1>2 DEF TrialJob
    <3>1. /\ (Stop \in {"install", "backup", "copying", "app", "manifest"} => stage = NoFile)'
          /\ (job.then = "install" => stage = NoFile)'
      BY <1>1, <2>1, <2>2 DEF AtTrial
    <3>2. (Stop \in {"backup", "copying"} =>
            /\ Expected = job.build
            /\ files.receipt.hadApp = (files.app # NoFile))'
      <4>1. Stop \in {"backup", "copying"} => Expected = job.build
        BY DEF AtTrial
      <4>2. Stop \in {"backup", "copying"} => files.receipt.hadApp = (files.app # NoFile)
        BY DEF AtTrial
      <4>3. files'.receipt.hadApp = files.receipt.hadApp /\ files'.app = files.app
        BY <1>1
      <4> QED BY <2>1, <2>2, <2>3, <4>1, <4>2, <4>3
    <3>3. (job.at \in {"backup", "copying", "app", "manifest"} =>
              unsynced.receipt = {files.receipt})'
      BY <1>1, <1>3
    <3>8. (job.at \in {"backup", "copying"} =>
            /\ "manifest" \notin Left => unsynced.oldManifest = {files.manifest}
            /\ files.receipt.hadApp /\ "app" \notin Left => unsynced.oldApp = {files.app})'
      BY <1>1, <1>3, <2>2, <2>6
    <3>4. (Stop \in {"app", "manifest"} => Phase = "Prepared" /\ Expected = job.build)'
      BY <2>1, <2>2, <2>3 DEF AtTrial
    <3>5. (Stop = "app" => Settled /\ Returned)'
      BY <1>4, <2>2, <2>3 DEF AtTrial
    <3>6. (Stop = "manifest" => /\ files.app = Expected /\ files.manifest = files.oldManifest
                               /\ unsynced.manifest = {files.manifest})'
      BY <1>1, <1>3, <2>2, <2>3 DEF AtTrial
    <3>7. (job.at = "manifest" => unsynced.app = {Expected})'
      BY <1>1, <1>3, <2>1, <2>2, <2>3 DEF AtTrial
    <3> QED BY <3>1, <3>2, <3>3, <3>4, <3>5, <3>6, <3>7, <3>8 DEF AtTrial
  <2>8. AtReturn'
    BY <1>1, <1>2, <1>4, <2>1, <2>2, <2>3 DEF AtReturn, TrialJob
  <2>9. AtStage'
    BY <1>1, <1>2, <2>1, <2>2, <2>3 DEF AtStage, TrialJob
  <2> QED BY <2>5, <2>7, <2>8, <2>9 DEF TrialJob
<1> QED BY <1>5, <1>6

-----------------------------------------------------------------------------
(* Steps outside a trial that leave the application and the manifest.      *)

LEMMA UntriedKeeps ==
    ASSUME TrialDisk, UNCHANGED <<main, stage>>,
           files'.app = files.app, files'.manifest = files.manifest,
           unsynced'.app = unsynced.app, unsynced'.manifest = unsynced.manifest,
           ~OnTrial, ~OnTrial', ~LegacyTrial, ~LegacyTrial'
    PROVE  TrialDisk' /\ Proven' = Proven /\ Trial' = Trial
<1>1. TrialDisk'
  BY DEF TrialDisk, Settled
<1>2. CASE stage # NoFile
  <2>1. /\ Journaled("app")' = Journaled("app") /\ Journaled("main")' = Journaled("main")
        /\ Journaled("manifest")' = Journaled("manifest")
    BY DEF Journaled, Current, Logged
  <2>2. Proven' = Proven
    BY <1>2, <2>1 DEF Proven
  <2>3. Trial' = Trial
    BY <1>2 DEF Trial
  <2> QED BY <1>1, <2>2, <2>3
<1>3. CASE stage = NoFile
  <2>1. Proven = Installed /\ Trial = NoFile
    BY <1>3, SetsAre
  <2>2. (stage = NoFile /\ ~OnTrial /\ ~LegacyTrial => Proven = Installed /\ Trial = NoFile)'
    BY SetsAre, PTL
  <2>3. Installed' = Installed
    BY DEF Installed
  <2> QED BY <1>1, <1>3, <2>1, <2>2, <2>3
<1> QED BY <1>2, <1>3

(* Steps that write a receipt.                                             *)
LEMMA Signs ==
    ASSUME DeliveryInv, NEW r \in Receipts \union {NoFile}, Put("receipt", r)
    PROVE  /\ files'.app = files.app /\ files'.manifest = files.manifest
           /\ files'.receipt = r
           /\ files'.oldApp = files.oldApp /\ files'.oldManifest = files.oldManifest
           /\ unsynced'.app = unsynced.app /\ unsynced'.manifest = unsynced.manifest
           /\ unsynced'.receipt = unsynced.receipt \union {r}
           /\ unsynced'.oldApp = unsynced.oldApp
           /\ unsynced'.oldManifest = unsynced.oldManifest
           /\ unsynced'.oldEnv = unsynced.oldEnv
           /\ (Settled' <=> Settled)
<1>1. "receipt" \in Entries /\ r \in FileOf["receipt"] /\ DiskOK
  BY FileTypes DEF DeliveryInv
<1>2. /\ files'.receipt = r /\ unsynced'.receipt = unsynced.receipt \union {r}
      /\ \A x \in Entries \ {"receipt"} : files'[x] = files[x] /\ unsynced'[x] = unsynced[x]
  BY <1>1, PutKeeps
<1> QED BY <1>2 DEF Entries, Settled

(* A receipt that does not ask for a trial, written outside one.           *)
LEMMA SignsNoTrial ==
    ASSUME NEW r \in Receipts \union {NoFile}, unsynced'.receipt = unsynced.receipt \union {r},
           ~OnTrial, r # NoFile => r.phase # "Prepared"
    PROVE  ~OnTrial'
  BY DEF OnTrial

LEMMA NotLegacy ==
    ASSUME DeliveryInv, Phase # "None" \/ files.oldManifest = NoFile PROVE ~LegacyTrial
  BY DEF LegacyTrial, Legacy, OldPairComplete

LEMMA PreparingOnTrial ==
    ASSUME TrialInv, UNCHANGED stage, SavePreparing
    PROVE  TrialDisk' /\ Orphans' /\ SwitchStep /\ TrialJob'
<1>1. /\ job.at = "install" /\ Put("receipt", NewReceipt) /\ UNCHANGED main
      /\ job' = [job EXCEPT !.at = "sync", !.to = "backup", !.todo = Originals(NewReceipt)]
      /\ DeliveryInv /\ TrialDisk /\ Orphans /\ TrialJob /\ job \in Jobs
  BY DEF SavePreparing, TrialInv, DeliveryInv, JobOK
<1>2. Stop = "install" /\ job.build \in Apps /\ MayInstall /\ ~ReadyUnsynced
  BY <1>1 DEF DeliveryInv, JobFits, AtInstall, Stop, ReadyUnsynced
<1>3. NewReceipt \in Receipts /\ NewReceipt.phase = "Preparing"
      /\ NewReceipt.expected = job.build /\ NewReceipt.hadApp = (files.app # NoFile)
  BY <1>2 DEF NewReceipt, Receipts, Phases
<1>4. NewReceipt # NoFile
  BY <1>3, NamesAssumption
<1>5. /\ files'.app = files.app /\ files'.manifest = files.manifest
      /\ files'.receipt = NewReceipt /\ files'.oldManifest = files.oldManifest
      /\ unsynced'.app = unsynced.app /\ unsynced'.manifest = unsynced.manifest
      /\ unsynced'.receipt = unsynced.receipt \union {NewReceipt}
      /\ unsynced'.oldManifest = unsynced.oldManifest
  BY <1>1, <1>3, Signs
<1>6. ~OnTrial /\ files.oldManifest = NoFile /\ stage = NoFile
  BY <1>1, <1>2 DEF TrialJob, AtPhases, AtTrial, MayInstall, Clean, Old
<1>7. Phase' = "Preparing" /\ ~OnTrial'
  BY <1>3, <1>4, <1>5, <1>6, SignsNoTrial DEF Phase
<1>8. ~LegacyTrial /\ ~LegacyTrial'
  BY <1>5, <1>6 DEF LegacyTrial, OldPairComplete
<1>9. TrialDisk' /\ SwitchStep
  BY <1>1, <1>5, <1>6, <1>7, <1>8, UntriedKeeps DEF SwitchStep
<1>10. Orphans'
  BY <1>1, <1>4, <1>5, <1>6, <1>7 DEF Orphans, OldPairComplete
<1>11. /\ Stop' = "backup" /\ job'.at = "sync" /\ job'.build = job.build
       /\ job'.then = job.then
  BY <1>1 DEF Jobs, Stop
<1>12. TrialJob'
  BY <1>1, <1>3, <1>5, <1>6, <1>7, <1>11
     DEF TrialJob, AtPhases, AtTrial, AtReturn, AtStage, Expected
<1> QED BY <1>9, <1>10, <1>12

LEMMA PreparedOnTrial ==
    ASSUME TrialInv, UNCHANGED stage, SavePrepared
    PROVE  TrialDisk' /\ Orphans' /\ SwitchStep /\ TrialJob'
<1> DEFINE r == [files.receipt EXCEPT !.phase = "Prepared"]
<1>1. /\ job.at = "backup" /\ job.todo = << >> /\ Put("receipt", r) /\ UNCHANGED main
      /\ job' = [job EXCEPT !.at = "sync", !.to = "app"]
      /\ DeliveryInv /\ TrialDisk /\ ProvenBinds /\ AtTrial /\ job \in Jobs
  BY DEF SavePrepared, SaveReceipt, SyncThen, TrialInv, TrialJob, DeliveryInv, JobOK
<1>2. Stop = "backup" /\ Left = {}
  BY <1>1, NoElements DEF Stop, Left
<1>3. /\ files.receipt # NoFile /\ unsynced.receipt = {files.receipt}
      /\ files.receipt.phase = "Preparing" /\ Phase = "Preparing"
  <2>1. \A receipt \in unsynced.receipt : receipt # NoFile /\ receipt.phase = "Preparing"
    BY <1>1 DEF DeliveryInv, JobFits, AtBackup, BackedUp
  <2>2. unsynced.receipt = {files.receipt} /\ Phase = "Preparing"
    BY <1>1, <1>2 DEF AtTrial, DeliveryInv, JobFits, AtBackup
  <2> QED BY <2>1, <2>2
<1>4. /\ stage = NoFile /\ Expected = job.build
      /\ files.receipt.hadApp = (files.app # NoFile)
      /\ unsynced.oldManifest = {files.manifest}
      /\ files.receipt.hadApp => unsynced.oldApp = {files.app}
      /\ files.receipt.hadEnv => unsynced.oldEnv \subseteq Envs
  <2>1. files.receipt.hadEnv => unsynced.oldEnv \subseteq Envs
    BY <1>1, <1>2 DEF DeliveryInv, JobFits, AtBackup, BackedUp
  <2> QED BY <1>1, <1>2, <2>1 DEF AtTrial
<1>5. /\ files.oldManifest = files.manifest /\ files.manifest \in Manifests
      /\ files.receipt.hadApp => files.oldApp = files.app
      /\ files.receipt \in Receipts
      /\ main \in Mains
  BY <1>1, <1>3, <1>4, DiskFacts
<1>6. /\ r \in Receipts /\ r.phase = "Prepared" /\ r.expected = Expected
      /\ r.hadApp = files.receipt.hadApp /\ r.hadEnv = files.receipt.hadEnv
  BY <1>5 DEF Receipts, Phases, Expected
<1>7. r # NoFile
  BY <1>6, NamesAssumption
<1> HIDE DEF r
<1>8. /\ files'.app = files.app /\ files'.manifest = files.manifest
      /\ files'.receipt = r
      /\ files'.oldApp = files.oldApp /\ files'.oldManifest = files.oldManifest
      /\ unsynced'.app = unsynced.app /\ unsynced'.manifest = unsynced.manifest
      /\ unsynced'.receipt = unsynced.receipt \union {r}
      /\ unsynced'.oldApp = unsynced.oldApp
      /\ unsynced'.oldManifest = unsynced.oldManifest
      /\ unsynced'.oldEnv = unsynced.oldEnv
  BY <1>1, <1>6, Signs
<1>9. ~OnTrial /\ ~LegacyTrial /\ Settled
  BY <1>1, <1>3 DEF OnTrial, LegacyTrial, Legacy, TrialDisk
<1>10. OnTrial' /\ Phase' = "Prepared"
  BY <1>6, <1>7, <1>8 DEF OnTrial, Phase
<1>11. Known' = {files.receipt, r} /\ Expected' = Expected
  BY <1>3, <1>6, <1>7, <1>8 DEF Known, Expected
<1>12. Proven = Installed
  BY <1>4, <1>9, SetsAre
<1>13. files.app \in {NoFile, files.manifest.gui} /\ files.manifest.main = main
  BY <1>1, <1>12 DEF ProvenBinds, Installed
<1>14. OldApp' = files.app
  BY <1>4, <1>5, <1>6, <1>8 DEF OldApp
<1>15. Settled' /\ Returned'
  BY <1>5, <1>8, <1>9, <1>14 DEF Settled, Returned
<1>16. BackupsStand'
  <2>1. \A x \in Known' : /\ x.expected = Expected'
                          /\ x.hadApp = files'.receipt.hadApp /\ x.hadEnv = files'.receipt.hadEnv
    BY <1>6, <1>8, <1>11 DEF Expected
  <2>2. files'.receipt.hadApp => files'.oldApp = files'.oldManifest.gui
                                  /\ unsynced'.oldApp = {files'.oldApp}
    BY <1>4, <1>5, <1>6, <1>8, <1>13
  <2>3. files'.receipt.hadEnv => unsynced'.oldEnv \subseteq Envs
    BY <1>4, <1>6, <1>8
  <2> QED BY <1>1, <1>4, <1>5, <1>7, <1>8, <1>13, <2>1, <2>2, <2>3 DEF BackupsStand
<1>17. EndsReturned' /\ EndsReady'
  BY <1>3, <1>6, <1>11, <1>15 DEF EndsReturned, EndsReady
<1>18. EndsEither' /\ AppFirst'
  <2>1. unsynced'.app = {OldApp'} /\ unsynced'.manifest = {files'.oldManifest}
        /\ files'.app = OldApp'
    BY <1>5, <1>8, <1>9, <1>14 DEF Settled
  <2> QED BY <2>1 DEF EndsEither, AppFirst, PublishedMatches, Expected
<1>19. TrialDisk'
  BY <1>4, <1>10, <1>16, <1>17, <1>18 DEF TrialDisk
<1>20. Orphans'
  BY <1>3, <1>7, <1>8 DEF Orphans
<1>21. SwitchStep
  <2>1. (stage = NoFile /\ OnTrial => Proven = Backed /\ Trial = Matching(Expected, main))'
    BY SetsAre, PTL
  <2>2. Backed' = Installed
    BY <1>1, <1>5, <1>8, <1>14 DEF Backed, Installed
  <2>3. Trial = NoFile
    BY <1>4, <1>9, SetsAre
  <2>4. Proven' = Proven /\ Trial' = Matching(Expected, main)'
    BY <1>4, <1>10, <1>12, <2>1, <2>2
  <2>5. Matching(Expected, main)' = Matching(Expected, main) /\ Expected \in Apps \union {NoFile}
    BY <1>1, <1>5, <1>11 DEF Matching, Expected, Receipts
  <2>6. Matching(Expected, main) \in Sets
    BY <1>5, <2>5, Matched
  <2> QED BY <2>3, <2>4, <2>5, <2>6, Begun
<1>22. /\ Stop' = "app" /\ job'.at = "sync" /\ job'.build = job.build
  BY <1>1 DEF Jobs, Stop
<1>23. TrialJob'
  BY <1>4, <1>8, <1>10, <1>11, <1>15, <1>22
     DEF TrialJob, AtPhases, AtTrial, AtReturn, AtStage
<1> QED BY <1>19, <1>20, <1>21, <1>23

LEMMA LegacyOnTrial ==
    ASSUME TrialInv, UNCHANGED stage, RecoverLegacyPair
    PROVE  TrialDisk' /\ Orphans' /\ SwitchStep /\ TrialJob'
<1> DEFINE r == [phase |-> "Prepared", expected |-> NoFile, hadApp |-> TRUE,
                 hadEnv |-> FALSE, preserveEnv |-> TRUE]
<1>1. /\ job.at = "recover" /\ Phase = "None" /\ OldPairComplete /\ Put("receipt", r)
      /\ UNCHANGED main
      /\ job' = [job EXCEPT !.at = "sync", !.to = "recover", !.task = "restore"]
      /\ DeliveryInv /\ TrialDisk /\ Orphans /\ ProvenBinds /\ AtTrial /\ AtPhases
      /\ job \in Jobs
  BY DEF RecoverLegacyPair, TrialInv, TrialJob, DeliveryInv, JobOK
<1>2. /\ r \in Receipts /\ r.phase = "Prepared" /\ r.expected = NoFile /\ r.hadApp
      /\ ~r.hadEnv
  BY DEF Receipts, Phases
<1>3. r # NoFile
  BY <1>2, NamesAssumption
<1> HIDE DEF r
<1>4. /\ files'.app = files.app /\ files'.manifest = files.manifest
      /\ files'.receipt = r
      /\ files'.oldApp = files.oldApp /\ files'.oldManifest = files.oldManifest
      /\ unsynced'.app = unsynced.app /\ unsynced'.manifest = unsynced.manifest
      /\ unsynced'.receipt = unsynced.receipt \union {r}
      /\ unsynced'.oldApp = unsynced.oldApp
      /\ unsynced'.oldManifest = unsynced.oldManifest
  BY <1>1, <1>2, Signs
<1>5. files.receipt = NoFile /\ NoFile \in unsynced.receipt
  BY <1>1, PhaseFacts, DiskFacts
<1>6. ~OnTrial /\ Settled
  BY <1>1 DEF AtPhases, TrialDisk
<1>7. stage = NoFile /\ unsynced.receipt = {NoFile}
  <2>1. unsynced.oldManifest # {NoFile}
    BY <1>1, DiskFacts DEF OldPairComplete
  <2> QED BY <1>1, <1>5, <1>6, <2>1 DEF Orphans
<1>8. files.oldManifest \in Manifests
  <2>1. Torn \notin unsynced.oldManifest
    BY <1>1, <1>5, NoneTorn DEF Old
  <2> QED BY <1>1, <2>1, DiskFacts DEF OldPairComplete
<1>9. files.oldManifest.gui \in Apps /\ files.oldApp = files.oldManifest.gui
      /\ files.oldApp # NoFile
  BY <1>1, <1>8, NoFileAssumption DEF OldPairComplete, Manifests
<1>10. unsynced.oldManifest = {files.oldManifest} /\ unsynced.oldApp = {files.oldApp}
  BY <1>1, <1>5, <1>9 DEF DeliveryInv, DiskFits, UnreceiptedSettled, Old, OldPairComplete
<1>11. LegacyTrial
  BY <1>1, <1>6, <1>9 DEF LegacyTrial, Legacy, NoBackups
<1>12. /\ Proven = [app |-> files.oldApp, main |-> main, manifest |-> files.oldManifest]
       /\ Trial = Matching(NoFile, main)
  BY <1>6, <1>7, <1>11, SetsAre
<1>13. files.oldManifest.main = main
  BY <1>1, <1>12 DEF ProvenBinds
<1>14. OnTrial' /\ Phase' = "Prepared" /\ Known' = {r} /\ Expected' = NoFile
       /\ OldApp' = files.oldApp
  BY <1>2, <1>3, <1>4, <1>7 DEF OnTrial, Phase, Known, Expected, OldApp
<1>15. BackupsStand'
  BY <1>1, <1>2, <1>3, <1>4, <1>8, <1>9, <1>10, <1>13, <1>14 DEF BackupsStand
<1>16. EndsReturned' /\ EndsReady' /\ EndsEither'
  BY <1>2, <1>14 DEF EndsReturned, EndsReady, EndsEither
<1>17. AppFirst'
  <2>1. files.manifest.gui # NoFile
    BY <1>1, DiskFacts, NoFileAssumption DEF Manifests
  <2> QED BY <1>2, <1>4, <2>1 DEF AppFirst, PublishedMatches
<1>18. TrialDisk'
  BY <1>7, <1>14, <1>15, <1>16, <1>17 DEF TrialDisk
<1>19. Orphans'
  BY <1>1, <1>2, <1>4, <1>7, <1>14 DEF Orphans, OldPairComplete
<1>20. SwitchStep
  <2>1. (stage = NoFile /\ OnTrial => Proven = Backed /\ Trial = Matching(Expected, main))'
    BY SetsAre, PTL
  <2>2. Backed' = Proven /\ Matching(Expected, main)' = Trial
    BY <1>1, <1>4, <1>12, <1>14 DEF Backed, Matching
  <2> QED BY <1>7, <1>14, <2>1, <2>2 DEF SwitchStep
<1>21. Stop' = "recover" /\ job'.then = job.then
  BY <1>1 DEF Jobs, Stop
<1>22. TrialJob'
  BY <1>7, <1>14, <1>21, ApartLands DEF Apart
<1> QED BY <1>18, <1>19, <1>20, <1>22

(* The receipt of a trial tells of its end: the files may be found as that *)
(* end says.                                                               *)
LEMMA Rephased ==
    ASSUME TrialInv, UNCHANGED <<main, stage>>, Phase # "None",
           NEW phase \in {"Ready", "Restored"}, SaveReceipt(phase),
           OnTrial /\ phase = "Restored" => Settled /\ Returned /\ Phase # "Ready",
           OnTrial /\ phase = "Ready" =>
               \A app \in unsynced.app, manifest \in unsynced.manifest :
                   \/ app = OldApp /\ manifest = files.oldManifest
                   \/ app = Expected /\ manifest = NewManifest
    PROVE  /\ TrialDisk' /\ Orphans' /\ SwitchStep
           /\ (OnTrial' <=> OnTrial) /\ Phase' = phase
<1> DEFINE r == [files.receipt EXCEPT !.phase = phase]
<1>1. DeliveryInv /\ TrialDisk /\ Orphans /\ Put("receipt", r) /\ phase \in Phases
  BY DEF TrialInv, SaveReceipt, Phases
<1>2. /\ files.receipt \in Receipts /\ files.receipt \in unsynced.receipt
      /\ files.receipt # NoFile
  BY <1>1, DiskFacts, PhaseFacts
<1>3. /\ r \in Receipts /\ r.phase = phase /\ r.expected = files.receipt.expected
      /\ r.hadApp = files.receipt.hadApp /\ r.hadEnv = files.receipt.hadEnv
  BY <1>1, <1>2 DEF Receipts
<1>4. r # NoFile
  BY <1>3, NamesAssumption
<1> HIDE DEF r
<1>5. /\ files'.app = files.app /\ files'.manifest = files.manifest
      /\ files'.receipt = r
      /\ files'.oldApp = files.oldApp /\ files'.oldManifest = files.oldManifest
      /\ unsynced'.app = unsynced.app /\ unsynced'.manifest = unsynced.manifest
      /\ unsynced'.receipt = unsynced.receipt \union {r}
      /\ unsynced'.oldApp = unsynced.oldApp
      /\ unsynced'.oldManifest = unsynced.oldManifest
      /\ unsynced'.oldEnv = unsynced.oldEnv
      /\ (Settled' <=> Settled)
  BY <1>1, <1>3, Signs
<1>6. Phase' = phase
  BY <1>3, <1>4, <1>5 DEF Phase
<1>7. Known' = Known \union {r} /\ (OnTrial' <=> OnTrial)
  BY <1>3, <1>4, <1>5 DEF Known, OnTrial
<1>8. /\ Expected' = Expected /\ files'.receipt.hadApp = files.receipt.hadApp
      /\ files'.receipt.hadEnv = files.receipt.hadEnv
      /\ OldApp' = OldApp /\ NewManifest' = NewManifest
  BY <1>3, <1>5 DEF Expected, OldApp, NewManifest
<1>9. (Returned' <=> Returned) /\ (OldPairComplete' <=> OldPairComplete)
  BY <1>5, <1>8 DEF Returned, OldPairComplete
<1>10. ~LegacyTrial /\ ~LegacyTrial'
  BY <1>6 DEF LegacyTrial, Legacy
<1>11. Orphans'
  BY <1>1, <1>2, <1>4, <1>5, <1>7, <1>8, <1>9 DEF Orphans
<1>12. CASE ~OnTrial
  BY <1>1, <1>5, <1>6, <1>7, <1>10, <1>11, <1>12, UntriedKeeps DEF SwitchStep
<1>13. CASE OnTrial
  <2>1. /\ stage = NoFile /\ BackupsStand /\ EndsReturned /\ EndsReady /\ EndsEither
        /\ AppFirst
    BY <1>1, <1>13 DEF TrialDisk
  <2>2. BackupsStand'
    BY <1>3, <1>4, <1>5, <1>7, <1>8, <2>1 DEF BackupsStand, Expected
  <2>3. EndsReturned'
    BY <1>3, <1>5, <1>7, <1>9, <1>13, <2>1 DEF EndsReturned
  <2>4. EndsReady'
    BY <1>3, <1>5, <1>6, <1>7, <1>8, <1>13, <2>1 DEF EndsReady
  <2>5. EndsEither'
    BY <1>5, <1>8, <2>1 DEF EndsEither
  <2>6. AppFirst'
    <3>1. PublishedMatches(files.receipt)' <=> PublishedMatches(files.receipt)
      BY <1>3, <1>5 DEF PublishedMatches
    <3> QED BY <1>5, <1>8, <2>1, <3>1 DEF AppFirst
  <2>7. TrialDisk'
    BY <1>7, <1>13, <2>1, <2>2, <2>3, <2>4, <2>5, <2>6 DEF TrialDisk
  <2>8. SwitchStep
    <3>1. Proven = Backed /\ Trial = Matching(Expected, main)
      BY <1>13, <2>1, SetsAre
    <3>2. (stage = NoFile /\ OnTrial => Proven = Backed /\ Trial = Matching(Expected, main))'
      BY SetsAre, PTL
    <3>3. Backed' = Backed /\ Matching(Expected, main)' = Matching(Expected, main)
      BY <1>5, <1>8 DEF Backed, Matching
    <3> QED BY <1>7, <1>13, <2>1, <3>1, <3>2, <3>3 DEF SwitchStep
  <2> QED BY <1>6, <1>7, <1>11, <2>7, <2>8
<1> QED BY <1>12, <1>13

(* What is verified is what the receipt expects: the manifest it checked   *)
(* and, as the application is renamed and synced first, the application.   *)
LEMMA ReadyOnTrial ==
    ASSUME TrialInv, FinishesDurably, UNCHANGED stage, SaveReady
    PROVE  TrialDisk' /\ Orphans' /\ SwitchStep /\ TrialJob'
<1>1. /\ job.at = "finish" /\ PublishedMatches(files.receipt) /\ files.receipt # NoFile
      /\ SaveReceipt("Ready") /\ UNCHANGED main
      /\ job' = [ToCleanup EXCEPT !.at = "sync", !.to = "drop"]
      /\ unsynced.manifest = {files.manifest}
      /\ DeliveryInv /\ TrialDisk /\ TrialJob /\ job \in Jobs
  BY DEF SaveReady, Finishable, FinishesDurably, TrialInv, DeliveryInv, JobOK
<1>2. Stop = "finish" /\ job.task = "finish" /\ ~ReadyUnsynced
  BY <1>1 DEF Stop, ReadyUnsynced, DeliveryInv, JobFits, AtCleanup
<1>3. Phase # "None"
  BY <1>1, PhaseFacts
<1>4. ASSUME OnTrial, NEW app \in unsynced.app, NEW manifest \in unsynced.manifest
      PROVE  \/ app = OldApp /\ manifest = files.oldManifest
             \/ app = Expected /\ manifest = NewManifest
  <2>1. BackupsStand /\ EndsEither /\ AppFirst
    BY <1>1, <1>4 DEF TrialDisk
  <2>2. files.manifest \in Manifests /\ files.manifest.gui = Expected /\ manifest = files.manifest
    BY <1>1, <1>4, DiskFacts DEF PublishedMatches, Expected
  <2>3. Expected # NoFile
    BY <2>2, NoFileAssumption DEF Manifests
  <2>4. /\ files.oldManifest \in Manifests /\ files.oldManifest.main = main
        /\ files.receipt.hadApp => files.oldApp = files.oldManifest.gui
    BY <2>1 DEF BackupsStand
  <2>5. files.oldManifest.gui = Expected => files.oldManifest = NewManifest
    BY <2>4 DEF Manifests, NewManifest
  <2>6. manifest = NewManifest
    BY <1>1, <2>1, <2>2, <2>3, <2>5 DEF EndsEither
  <2>7. CASE files.oldManifest.gui # Expected
    BY <1>1, <1>4, <2>1, <2>6, <2>7 DEF AppFirst
  <2>8. CASE files.oldManifest.gui = Expected
    <3>1. OldApp \in {NoFile, Expected} /\ app \in {OldApp, Expected}
      BY <1>4, <2>1, <2>3, <2>4, <2>8 DEF EndsEither, OldApp
    <3> QED BY <2>5, <2>6, <2>8, <3>1
  <2> QED BY <2>7, <2>8
<1>5. /\ TrialDisk' /\ Orphans' /\ SwitchStep
      /\ (OnTrial' <=> OnTrial) /\ Phase' = "Ready"
  BY <1>1, <1>3, <1>4, Rephased
<1>6. /\ job'.at = "sync" /\ job'.to = "drop" /\ job'.task = "finish" /\ job'.then = job.then
  BY <1>1, <1>2 DEF ToCleanup, Jobs
<1>7. ReadyUnsynced' /\ Stop' = "drop"
  BY <1>6 DEF ReadyUnsynced, Stop
<1>8. TrialJob'
  BY <1>1, <1>5, <1>6, <1>7 DEF TrialJob, AtPhases, AtTrial, AtReturn, AtStage
<1> QED BY <1>5, <1>8

LEMMA RestoredOnTrial ==
    ASSUME TrialInv, UNCHANGED stage, SaveRestored
    PROVE  TrialDisk' /\ Orphans' /\ SwitchStep /\ TrialJob'
<1>1. /\ job.at = "restored" /\ SaveReceipt("Restored") /\ UNCHANGED main
      /\ job' = [ToCleanup EXCEPT !.at = "sync", !.to = "drop"]
      /\ DeliveryInv /\ TrialJob /\ job \in Jobs
  BY DEF SaveRestored, TrialInv, DeliveryInv, JobOK
<1>2. Stop = "restored" /\ Phase \in {"Preparing", "Prepared", "Restored"}
  BY <1>1 DEF Stop, DeliveryInv, JobFits, AtRestore
<1>3. OnTrial => Settled /\ Returned
  BY <1>1, <1>2 DEF TrialJob, AtReturn
<1>4. /\ TrialDisk' /\ Orphans' /\ SwitchStep
      /\ (OnTrial' <=> OnTrial) /\ Phase' = "Restored"
  BY <1>1, <1>2, <1>3, Rephased
<1>5. /\ job'.at = "sync" /\ Stop' = "drop" /\ job'.then = job.then
  BY <1>1 DEF ToCleanup, Jobs, Stop
<1>6. TrialJob'
  BY <1>1, <1>4, <1>5 DEF TrialJob, AtPhases, AtTrial, AtReturn, AtStage
<1> QED BY <1>4, <1>6

LEMMA ForgetKeepsTrial ==
    ASSUME TrialInv, UNCHANGED stage, RemoveReceipt
    PROVE  TrialDisk' /\ Orphans' /\ SwitchStep /\ TrialJob'
<1>1. /\ job.at = "forget" /\ Put("receipt", NoFile) /\ UNCHANGED main
      /\ SyncThen(IF files.receipt.preserveEnv THEN "unmanage" ELSE "resume")
      /\ DeliveryInv /\ TrialDisk /\ TrialJob /\ job \in Jobs
  BY DEF RemoveReceipt, TrialInv, DeliveryInv, JobOK
<1>2. Stop = "forget" /\ ~OnTrial /\ Phase = "Restored" /\ unsynced.oldManifest = {NoFile}
  BY <1>1 DEF Stop, TrialJob, AtPhases, DeliveryInv, JobFits, AtCleanup, Old
<1>3. /\ files'.app = files.app /\ files'.manifest = files.manifest
      /\ files'.receipt = NoFile /\ files'.oldManifest = files.oldManifest
      /\ unsynced'.app = unsynced.app /\ unsynced'.manifest = unsynced.manifest
      /\ unsynced'.receipt = unsynced.receipt \union {NoFile}
      /\ unsynced'.oldManifest = unsynced.oldManifest
  BY <1>1, Signs
<1>4. files.oldManifest = NoFile
  BY <1>1, <1>2, DiskFacts
<1>5. ~OnTrial' /\ ~LegacyTrial /\ ~LegacyTrial'
  BY <1>2, <1>3, <1>4, SignsNoTrial DEF LegacyTrial, OldPairComplete
<1>6. TrialDisk' /\ SwitchStep
  BY <1>1, <1>2, <1>3, <1>5, UntriedKeeps DEF SwitchStep
<1>7. Orphans'
  BY <1>2, <1>3, <1>5 DEF Orphans
<1>8. /\ Stop' \in {"unmanage", "resume"} /\ job'.then = job.then
  BY <1>1 DEF SyncThen, Jobs, Stop
<1>9. job.then = "install" => stage = NoFile
  BY <1>1 DEF TrialJob, AtTrial
<1>10. TrialJob'
  BY <1>5, <1>8, <1>9, ApartLands DEF Apart
<1> QED BY <1>6, <1>7, <1>10

-----------------------------------------------------------------------------
(* Steps that write or remove backups: there is no trial, or not any more. *)

LEMMA BackupsMove ==
    ASSUME TrialInv, UNCHANGED <<main, stage>>, ~OnTrial,
           \A e \in Entries \ Old : files'[e] = files[e] /\ unsynced'[e] = unsynced[e],
           Phase # "None" \/ (files.oldManifest = NoFile /\ files'.oldManifest = NoFile),
           NoFile \in unsynced.receipt => unsynced'.oldManifest = {NoFile}
    PROVE  TrialDisk' /\ Orphans' /\ SwitchStep /\ ~OnTrial' /\ Phase' = Phase
<1>1. /\ files'.app = files.app /\ files'.manifest = files.manifest
      /\ files'.receipt = files.receipt
      /\ unsynced'.app = unsynced.app /\ unsynced'.manifest = unsynced.manifest
      /\ unsynced'.receipt = unsynced.receipt
  BY DEF Entries, Old
<1>2. ~OnTrial' /\ Phase' = Phase
  BY <1>1 DEF OnTrial, Phase
<1>3. ~LegacyTrial /\ ~LegacyTrial'
  BY <1>2 DEF LegacyTrial, Legacy, OldPairComplete
<1>4. TrialDisk' /\ SwitchStep
  BY <1>1, <1>2, <1>3, UntriedKeeps DEF SwitchStep, TrialInv
<1>5. Orphans'
  BY <1>1, <1>2 DEF Orphans
<1> QED BY <1>2, <1>4, <1>5

LEMMA BackingUpUntried ==
    ASSUME TrialInv, job.at \in {"backup", "copying"}
    PROVE  /\ ~OnTrial /\ NoFile \notin unsynced.receipt /\ Phase = "Preparing"
           /\ unsynced.receipt = {files.receipt}
           /\ Expected = job.build /\ files.receipt.hadApp = (files.app # NoFile)
           /\ stage = NoFile
           /\ "manifest" \notin Left => unsynced.oldManifest = {files.manifest}
           /\ files.receipt.hadApp /\ "app" \notin Left => unsynced.oldApp = {files.app}
<1>1. DeliveryInv /\ AtTrial
  BY DEF TrialInv, TrialJob
<1>2. Stop = job.at /\ Phase = "Preparing" /\ BackedUp
  BY <1>1, BackingUp
<1>3. ~OnTrial /\ NoFile \notin unsynced.receipt
  BY <1>2 DEF BackedUp, OnTrial
<1> QED BY <1>1, <1>2, <1>3 DEF AtTrial

LEMMA BackupStartsTrial ==
    ASSUME TrialInv, UNCHANGED stage, BackupStarts
    PROVE  TrialDisk' /\ Orphans' /\ SwitchStep /\ TrialJob'
<1> DEFINE e == Head(job.todo)
           b == Backup[Head(job.todo)]
<1>1. /\ job.at = "backup" /\ job.todo # << >> /\ Put(b, Torn)
      /\ job' = [job EXCEPT !.at = "copying"]
      /\ UNCHANGED main /\ DeliveryInv /\ job \in Jobs /\ DiskOK
  BY DEF BackupStarts, Goto, TrialInv, DeliveryInv, JobOK
<1>2. e \in Left /\ Left \subseteq Originators
  BY <1>1, BackingUp
<1>3. /\ b \in Old /\ b \in Entries /\ Torn \in FileOf[b]
      /\ b = "oldManifest" => e = "manifest"
      /\ b = "oldApp" => e = "app"
  BY <1>2, BackupsApart, FileTypes DEF Originators
<1> HIDE DEF e, b
<1>4. \A x \in Entries \ {b} : files'[x] = files[x] /\ unsynced'[x] = unsynced[x]
  BY <1>1, <1>3, PutKeeps
<1>5. /\ ~OnTrial /\ NoFile \notin unsynced.receipt /\ Phase = "Preparing"
      /\ unsynced.receipt = {files.receipt}
      /\ Expected = job.build /\ files.receipt.hadApp = (files.app # NoFile)
      /\ stage = NoFile
      /\ "manifest" \notin Left => unsynced.oldManifest = {files.manifest}
      /\ files.receipt.hadApp /\ "app" \notin Left => unsynced.oldApp = {files.app}
  BY <1>1, BackingUpUntried
<1>6. TrialDisk' /\ Orphans' /\ SwitchStep /\ ~OnTrial' /\ Phase' = Phase
  BY <1>1, <1>3, <1>4, <1>5, BackupsMove
<1>7. /\ files'.receipt = files.receipt /\ unsynced'.receipt = unsynced.receipt
      /\ files'.app = files.app /\ files'.manifest = files.manifest
      /\ "manifest" \notin Left => unsynced'.oldManifest = unsynced.oldManifest
      /\ "app" \notin Left => unsynced'.oldApp = unsynced.oldApp
  BY <1>2, <1>3, <1>4 DEF Entries, Old
<1>8. /\ job'.at = "copying" /\ Stop' = "copying" /\ Left' = Left
      /\ job'.build = job.build /\ job'.then = job.then
  BY <1>1 DEF Jobs, Stop, Left
<1>9. TrialJob'
  BY <1>1, <1>5, <1>6, <1>7, <1>8
     DEF TrialJob, AtPhases, AtTrial, AtReturn, AtStage, Expected
<1> QED BY <1>6, <1>9

LEMMA BackupEndsTrial ==
    ASSUME TrialInv, UNCHANGED stage, BackupEnds
    PROVE  TrialDisk' /\ Orphans' /\ SwitchStep /\ TrialJob'
<1> DEFINE e == Head(job.todo)
           b == Backup[Head(job.todo)]
<1>1. /\ job.at = "copying"
      /\ files' = [files EXCEPT ![b] = files[e]]
      /\ unsynced' = [unsynced EXCEPT ![b] = {files[e]}]
      /\ job' = [job EXCEPT !.at = "backup", !.todo = Tail(@)]
      /\ UNCHANGED main /\ DeliveryInv /\ job \in Jobs /\ DiskOK
  BY DEF BackupEnds, TrialInv, DeliveryInv, JobOK
<1>2. /\ job.todo # << >> /\ e \in Left /\ Left \subseteq Originators
      /\ Tail(job.todo) \in Seq(Entries \union Artifacts)
      /\ Left \subseteq {e} \union ToSet(Tail(job.todo))
  <2>1. job.todo # << >>
    BY <1>1 DEF DeliveryInv, JobFits, AtBackup, Stop
  <2> QED BY <1>1, <2>1, BackingUp
<1>3. /\ b \in Old /\ b \in Entries
      /\ b = "oldManifest" <=> e = "manifest"
      /\ b = "oldApp" <=> e = "app"
  BY <1>2, BackupsApart, FileTypes DEF Originators
<1>4. /\ job'.at = "backup" /\ job'.todo = Tail(job.todo)
      /\ job'.build = job.build /\ job'.then = job.then
  BY <1>1, <1>2, Names DEF Jobs
<1> HIDE DEF e, b
<1>5. /\ unsynced'[b] = {files[e]}
      /\ \A x \in Entries \ {b} : files'[x] = files[x] /\ unsynced'[x] = unsynced[x]
  BY <1>1, <1>3 DEF DiskOK, FilesOK, UnsyncedOK
<1>6. /\ ~OnTrial /\ NoFile \notin unsynced.receipt /\ Phase = "Preparing"
      /\ unsynced.receipt = {files.receipt}
      /\ Expected = job.build /\ files.receipt.hadApp = (files.app # NoFile)
      /\ stage = NoFile
      /\ "manifest" \notin Left => unsynced.oldManifest = {files.manifest}
      /\ files.receipt.hadApp /\ "app" \notin Left => unsynced.oldApp = {files.app}
  BY <1>1, BackingUpUntried
<1>7. TrialDisk' /\ Orphans' /\ SwitchStep /\ ~OnTrial' /\ Phase' = Phase
  BY <1>1, <1>3, <1>5, <1>6, BackupsMove
<1>8. /\ files'.receipt = files.receipt /\ unsynced'.receipt = unsynced.receipt
      /\ files'.app = files.app /\ files'.manifest = files.manifest
      /\ unsynced'.oldManifest = IF e = "manifest" THEN {files.manifest}
                                 ELSE unsynced.oldManifest
      /\ unsynced'.oldApp = IF e = "app" THEN {files.app} ELSE unsynced.oldApp
  BY <1>3, <1>5 DEF Entries, Old
<1>9. Stop' = "backup" /\ Left' = ToSet(Tail(job.todo))
  BY <1>4 DEF Stop, Left
<1>10. TrialJob'
  BY <1>2, <1>4, <1>6, <1>7, <1>8, <1>9
     DEF TrialJob, AtPhases, AtTrial, AtReturn, AtStage, Expected
<1> QED BY <1>7, <1>10

LEMMA BackupFailsTrial ==
    ASSUME TrialInv, UNCHANGED stage, BackupFails
    PROVE  TrialDisk' /\ Orphans' /\ SwitchStep /\ TrialJob'
<1>1. /\ job.at \in {"backup", "copying"} /\ job.todo # << >>
      /\ files' = [e \in Entries |-> IF e \in Created THEN NoFile ELSE files[e]]
      /\ unsynced' = [e \in Entries |-> unsynced[e] \union {files'[e]}]
      /\ job' = [job EXCEPT !.at = "undo", !.then = "reply"]
      /\ UNCHANGED main /\ DeliveryInv /\ job \in Jobs
  BY DEF BackupFails, ToUndo, TrialInv, DeliveryInv, JobOK
<1>2. Created \subseteq Old
  <2>1. Head(job.todo) \in Originators
    BY <1>1, BackingUp
  <2> QED BY <2>1, BackupsApart DEF Created, Originators
<1>3. \A e \in Entries : files[e] \in unsynced[e]
  BY <1>1 DEF DeliveryInv, DiskFits, FilesStand
<1>4. \A e \in Entries \ Old : files'[e] = files[e] /\ unsynced'[e] = unsynced[e]
  BY <1>1, <1>2, <1>3
<1>5. ~OnTrial /\ NoFile \notin unsynced.receipt /\ Phase = "Preparing" /\ stage = NoFile
  BY <1>1, BackingUpUntried
<1>6. TrialDisk' /\ Orphans' /\ SwitchStep /\ ~OnTrial'
  BY <1>1, <1>4, <1>5, BackupsMove
<1>7. Stop' = "undo" /\ job'.then = "reply"
  BY <1>1 DEF Jobs, Stop
<1>8. TrialJob'
  BY <1>6, <1>7, ApartLands DEF Apart
<1> QED BY <1>6, <1>8

LEMMA DropOnTrial ==
    ASSUME TrialInv, UNCHANGED stage, Drop
    PROVE  TrialDisk' /\ Orphans' /\ SwitchStep /\ TrialJob'
<1> DEFINE e == Head(job.todo)
<1>1. /\ job.at = "drop" /\ job.todo # << >> /\ Put(e, NoFile)
      /\ job' = [job EXCEPT !.todo = Tail(@)]
      /\ UNCHANGED main /\ DeliveryInv /\ DiskOK /\ Orphans /\ AtPhases /\ AtTrial
      /\ job \in Jobs
  BY DEF Drop, TrialInv, TrialJob, DeliveryInv, JobOK
<1>2. Stop = "drop" /\ ~OnTrial
  BY <1>1 DEF Stop, AtPhases
<1>3. e \in Old /\ e \in Entries /\ NoFile \in FileOf[e]
  <2>1. e \in Left
    BY <1>1, TodoShrinks DEF Left, JobOK
  <2> QED BY <1>1, <1>2, <2>1, FileTypes DEF DeliveryInv, JobFits, AtCleanup
<1> HIDE DEF e
<1>4. /\ files'[e] = NoFile /\ unsynced'[e] = unsynced[e] \union {NoFile}
      /\ \A x \in Entries \ {e} : files'[x] = files[x] /\ unsynced'[x] = unsynced[x]
  BY <1>1, <1>3, PutKeeps
<1>5. /\ e = "oldManifest" => files'.oldManifest = NoFile
                              /\ unsynced'.oldManifest = unsynced.oldManifest \union {NoFile}
      /\ e # "oldManifest" => files'.oldManifest = files.oldManifest
                              /\ unsynced'.oldManifest = unsynced.oldManifest
  BY <1>4 DEF Entries
<1>6. Phase = "None" => files.oldManifest = NoFile
  BY <1>1, <1>2 DEF AtPhases
<1>7. NoFile \in unsynced.receipt => unsynced.oldManifest = {NoFile}
  <2>1. unsynced.receipt = {NoFile} => Phase = "None"
    BY <1>1, DiskFacts, PhaseFacts
  <2> QED BY <1>1, <1>2, <1>6, <2>1 DEF Orphans, OldPairComplete
<1>8. TrialDisk' /\ Orphans' /\ SwitchStep /\ ~OnTrial' /\ Phase' = Phase
  BY <1>1, <1>2, <1>3, <1>4, <1>5, <1>6, <1>7, BackupsMove
<1>9. job'.at = "drop" /\ Stop' = "drop" /\ job'.then = job.then
  BY <1>1 DEF Jobs, Stop
<1>10. TrialJob'
  BY <1>1, <1>5, <1>6, <1>8, <1>9 DEF TrialJob, AtPhases, AtTrial, AtReturn, AtStage
<1> QED BY <1>8, <1>10

-----------------------------------------------------------------------------
(* Steps of a trial that write the installed files: the new ones, once     *)
(* only a prepared receipt can be found, or those of before.               *)

LEMMA TrialPut ==
    ASSUME TrialInv, Phase = "Prepared", UNCHANGED <<main, stage>>,
           NEW e \in Originators, NEW f \in FileOf[e], Put(e, f),
           \/ e = "env"
           \/ e = "app" /\ f = OldApp
           \/ e = "manifest" /\ f = files.oldManifest
           \/ /\ Known = {files.receipt}
              /\ \/ e = "app" /\ f = Expected /\ files.manifest = files.oldManifest
                 \/ e = "manifest" /\ f = NewManifest /\ unsynced.app = {Expected}
    PROVE  /\ TrialDisk' /\ Orphans' /\ SwitchStep /\ OnTrial'
           /\ Phase' = Phase /\ Expected' = Expected /\ OldApp' = OldApp
           /\ files'[e] = f /\ unsynced'[e] = unsynced[e] \union {f}
           /\ \A x \in Entries \ {e} : files'[x] = files[x] /\ unsynced'[x] = unsynced[x]
<1>1. /\ DeliveryInv /\ TrialDisk /\ Orphans /\ DiskOK /\ OnTrial
      /\ files.receipt # NoFile /\ files.receipt.phase = "Prepared"
      /\ files.manifest \in Manifests
  BY DiskFacts, PhaseFacts DEF TrialInv, DeliveryInv
<1>2. e \in Entries /\ e \notin Old /\ e # "receipt"
  BY FileTypes DEF Old, Originators
<1>3. /\ files'[e] = f /\ unsynced'[e] = unsynced[e] \union {f}
      /\ \A x \in Entries \ {e} : files'[x] = files[x] /\ unsynced'[x] = unsynced[x]
  BY <1>1, <1>2, PutKeeps
<1>4. /\ files'.receipt = files.receipt /\ unsynced'.receipt = unsynced.receipt
      /\ files'.oldApp = files.oldApp /\ unsynced'.oldApp = unsynced.oldApp
      /\ files'.oldManifest = files.oldManifest
      /\ unsynced'.oldManifest = unsynced.oldManifest
      /\ unsynced'.oldEnv = unsynced.oldEnv
      /\ files'.app = (IF e = "app" THEN f ELSE files.app)
      /\ unsynced'.app = (IF e = "app" THEN unsynced.app \union {f} ELSE unsynced.app)
      /\ files'.manifest = (IF e = "manifest" THEN f ELSE files.manifest)
      /\ unsynced'.manifest =
            (IF e = "manifest" THEN unsynced.manifest \union {f} ELSE unsynced.manifest)
  BY <1>2, <1>3 DEF Entries, Old
<1>5. /\ Known' = Known /\ (OnTrial' <=> OnTrial) /\ Phase' = Phase
      /\ Expected' = Expected /\ OldApp' = OldApp /\ NewManifest' = NewManifest
      /\ (OldPairComplete' <=> OldPairComplete)
  BY <1>4 DEF Known, OnTrial, Phase, Expected, OldApp, NewManifest, OldPairComplete
<1>6. /\ stage = NoFile /\ BackupsStand /\ EndsReturned /\ EndsReady /\ EndsEither
      /\ AppFirst
  BY <1>1 DEF TrialDisk
<1>7. BackupsStand'
  BY <1>4, <1>5, <1>6 DEF BackupsStand
<1>8. EndsReady'
  BY <1>5, <1>6 DEF EndsReady
<1>9. EndsReturned'
  <2> SUFFICES ASSUME \E r \in Known : r.phase \in {"Preparing", "Restored"}
               PROVE  Settled' /\ Returned'
    BY <1>5 DEF EndsReturned
  <2>1. Settled /\ Returned /\ Known # {files.receipt}
    BY <1>1, <1>6 DEF EndsReturned
  <2> QED BY <1>4, <1>5, <2>1 DEF Settled, Returned
<1>10. EndsEither'
  BY <1>4, <1>5, <1>6 DEF EndsEither
<1>11. AppFirst'
  <2> SUFFICES ASSUME files'.app = Expected, files'.manifest.gui = Expected,
                      files.oldManifest.gui # Expected
               PROVE  unsynced'.app = {Expected}
    BY <1>4, <1>5 DEF AppFirst, PublishedMatches, Expected
  <2>1. files.app = Expected /\ files.manifest.gui = Expected => unsynced.app = {Expected}
    BY <1>6 DEF AppFirst, PublishedMatches, Expected
  <2>2. CASE e = "env"
    BY <1>4, <2>1, <2>2
  <2>3. CASE e = "app"
    <3>1. files.manifest.gui = Expected
      BY <1>4, <2>3
    <3>2. OldApp # Expected
      <4>1. Expected # NoFile
        BY <1>1, <3>1, NoFileAssumption DEF Manifests
      <4> QED BY <1>6, <4>1 DEF OldApp, BackupsStand
    <3> QED BY <1>4, <2>3, <3>1, <3>2
  <2>4. CASE e = "manifest"
    BY <1>4, <2>4
  <2> QED BY <2>2, <2>3, <2>4 DEF Originators
<1>12. TrialDisk'
  BY <1>1, <1>5, <1>6, <1>7, <1>8, <1>9, <1>10, <1>11 DEF TrialDisk
<1>13. Orphans'
  BY <1>1, <1>4, <1>5 DEF Orphans
<1>14. SwitchStep
  <2>1. Proven = Backed /\ Trial = Matching(Expected, main)
    BY <1>1, <1>6, SetsAre
  <2>2. (stage = NoFile /\ OnTrial => Proven = Backed /\ Trial = Matching(Expected, main))'
    BY SetsAre, PTL
  <2>3. Backed' = Backed /\ Matching(Expected, main)' = Matching(Expected, main)
    BY <1>4, <1>5 DEF Backed, Matching
  <2> QED BY <1>1, <1>5, <1>6, <2>1, <2>2, <2>3 DEF SwitchStep
<1> QED BY <1>1, <1>3, <1>5, <1>12, <1>13, <1>14

LEMMA AppOnTrial ==
    ASSUME TrialInv, UNCHANGED stage, PublishApp
    PROVE  TrialDisk' /\ Orphans' /\ SwitchStep /\ TrialJob'
<1>1. /\ job.at = "app" /\ Put("app", job.build) /\ UNCHANGED main
      /\ job' = [job EXCEPT !.at = "sync", !.to = "manifest"]
      /\ DeliveryInv /\ AtTrial /\ job \in Jobs
  BY DEF PublishApp, SyncThen, TrialInv, TrialJob, DeliveryInv, JobOK
<1>2. /\ Stop = "app" /\ Phase = "Prepared" /\ Expected = job.build /\ stage = NoFile
      /\ Settled /\ Returned /\ unsynced.receipt = {files.receipt}
  BY <1>1 DEF Stop, AtTrial
<1>3. Known = {files.receipt}
  BY <1>1, <1>2, PhaseFacts DEF Known
<1>4. "app" \in Originators /\ job.build \in FileOf["app"]
  <2>1. job.build \in Apps
    BY <1>1, <1>2 DEF DeliveryInv, JobFits, AtInstall
  <2> QED BY <2>1, FileTypes DEF Originators
<1>5. /\ TrialDisk' /\ Orphans' /\ SwitchStep /\ OnTrial'
      /\ Phase' = Phase /\ Expected' = Expected /\ OldApp' = OldApp
      /\ files'["app"] = job.build /\ unsynced'["app"] = unsynced["app"] \union {job.build}
      /\ \A x \in Entries \ {"app"} : files'[x] = files[x] /\ unsynced'[x] = unsynced[x]
  BY <1>1, <1>2, <1>3, <1>4, TrialPut DEF Returned
<1>6. /\ files'.app = job.build /\ files'.manifest = files.manifest
      /\ files'.oldManifest = files.oldManifest /\ unsynced'.manifest = unsynced.manifest
  BY <1>5 DEF Entries
<1>7. /\ job'.at = "sync" /\ Stop' = "manifest" /\ job'.build = job.build
      /\ job'.then = job.then
  BY <1>1 DEF Jobs, Stop
<1>8. TrialJob'
  BY <1>1, <1>2, <1>5, <1>6, <1>7
     DEF TrialJob, AtPhases, AtTrial, AtReturn, AtStage, Settled, Returned
<1> QED BY <1>5, <1>8

LEMMA ManifestOnTrial ==
    ASSUME TrialInv, UNCHANGED stage, PublishManifest
    PROVE  TrialDisk' /\ Orphans' /\ SwitchStep /\ TrialJob'
<1> DEFINE f == [files.manifest EXCEPT !.gui = job.build]
<1>1. /\ job.at = "manifest" /\ Put("manifest", f) /\ UNCHANGED main
      /\ job' = [job EXCEPT !.at = "sync", !.to = "idle"]
      /\ DeliveryInv /\ TrialDisk /\ AtTrial /\ job \in Jobs
  BY DEF PublishManifest, SyncThen, TrialInv, TrialJob, DeliveryInv, JobOK
<1>2. /\ Stop = "manifest" /\ Phase = "Prepared" /\ Expected = job.build /\ stage = NoFile
      /\ files.manifest = files.oldManifest
      /\ unsynced.app = {Expected} /\ unsynced.receipt = {files.receipt}
  BY <1>1 DEF Stop, AtTrial
<1>3. Known = {files.receipt} /\ OnTrial
  BY <1>1, <1>2, PhaseFacts DEF Known
<1>4. f = NewManifest /\ f \in Manifests
  <2>1. files.manifest \in Manifests /\ files.manifest.main = main
    BY <1>1, <1>2, <1>3 DEF TrialDisk, BackupsStand
  <2>2. job.build \in Apps
    BY <1>1, <1>2 DEF DeliveryInv, JobFits, AtInstall
  <2> QED BY <1>2, <2>1, <2>2 DEF Manifests, NewManifest
<1> HIDE DEF f
<1>5. "manifest" \in Originators /\ f \in FileOf["manifest"]
  BY <1>4, FileTypes DEF Originators
<1>6. TrialDisk' /\ Orphans' /\ SwitchStep /\ OnTrial' /\ Phase' = Phase
  BY <1>1, <1>2, <1>3, <1>4, <1>5, TrialPut
<1>7. Stop' = "idle" /\ job'.then = job.then
  BY <1>1 DEF Jobs, Stop
<1>8. job.then = "install" => stage = NoFile
  BY <1>1 DEF AtTrial
<1>9. TrialJob'
  BY <1>2, <1>6, <1>7, <1>8, ApartLands DEF Apart
<1> QED BY <1>6, <1>9

LEMMA CopyOnTrial ==
    ASSUME TrialInv, UNCHANGED stage, CopyBack
    PROVE  TrialDisk' /\ Orphans' /\ SwitchStep /\ TrialJob'
<1> DEFINE e == Head(job.todo)
<1>1. /\ job.at = "copy" /\ job.todo # << >> /\ UNCHANGED main
      /\ IF CanRestore(files.receipt, e)
         THEN Put(e, Former(files.receipt, e)) /\ job' = [job EXCEPT !.todo = Tail(@)]
         ELSE /\ job' = [job EXCEPT !.todo = Tail(@), !.failed = TRUE]
              /\ UNCHANGED <<files, unsynced>>
      /\ DeliveryInv /\ TrialDisk /\ Orphans /\ TrialJob /\ JobOK
  BY DEF CopyBack, TrialInv, DeliveryInv
<1>2. /\ e \in Left /\ Tail(job.todo) \in Seq(Entries \union Artifacts)
      /\ Left \subseteq {e} \union ToSet(Tail(job.todo))
  BY <1>1, TodoShrinks DEF Left
<1>3. /\ Stop = "copy" /\ e \in Originators /\ Phase = "Prepared" /\ OnTrial
      /\ files.receipt # NoFile
  BY <1>1, <1>2, PhaseFacts DEF DeliveryInv, JobFits, AtRestore, Stop
<1>4. /\ job'.at = "copy" /\ job'.todo = Tail(job.todo) /\ job'.then = job.then
      /\ job'.failed = (job.failed \/ ~CanRestore(files.receipt, e))
  BY <1>1, <1>2 DEF JobOK, Jobs
<1>5. Stop' = "copy" /\ Left' = ToSet(Tail(job.todo))
  BY <1>4 DEF Stop, Left
<1> HIDE DEF e
<1>6. AtReturn /\ (job.then = "install" => stage = NoFile)
  BY <1>1 DEF TrialJob, AtTrial
<1>7. CASE CanRestore(files.receipt, e)
  <2> DEFINE f == Former(files.receipt, e)
  <2>1. Put(e, f) /\ f \in FileOf[e]
    BY <1>1, <1>3, <1>7, FormerTyped
  <2>2. /\ e = "app" => f = OldApp
        /\ e = "manifest" => f = files.oldManifest
    BY DEF Former, OldApp
  <2> HIDE DEF f
  <2>3. \/ e = "env"
        \/ e = "app" /\ f = OldApp
        \/ e = "manifest" /\ f = files.oldManifest
    BY <1>3, <2>2 DEF Originators
  <2>4. /\ TrialDisk' /\ Orphans' /\ SwitchStep /\ OnTrial'
        /\ Phase' = Phase /\ Expected' = Expected /\ OldApp' = OldApp
        /\ files'[e] = f
        /\ \A x \in Entries \ {e} : files'[x] = files[x] /\ unsynced'[x] = unsynced[x]
    BY <1>1, <1>3, <2>1, <2>3, TrialPut
  <2>5. /\ files'.app = (IF e = "app" THEN f ELSE files.app)
        /\ files'.manifest = (IF e = "manifest" THEN f ELSE files.manifest)
        /\ files'.oldManifest = files.oldManifest
    BY <1>3, <2>4 DEF Entries, Originators
  <2>6. AtReturn'
    BY <1>2, <1>3, <1>4, <1>5, <1>6, <2>2, <2>4, <2>5 DEF AtReturn
  <2>7. TrialJob'
    BY <1>3, <1>4, <1>5, <1>6, <2>4, <2>6 DEF TrialJob, AtPhases, AtTrial, AtStage
  <2> QED BY <2>4, <2>7
<1>8. CASE ~CanRestore(files.receipt, e)
  <2>1. Aside
    BY <1>1, <1>8 DEF Aside
  <2>2. /\ TrialDisk' /\ Orphans' /\ Proven' = Proven /\ Trial' = Trial
        /\ (OnTrial' <=> OnTrial) /\ Phase' = Phase
    BY <1>1, <2>1, AsideKeeps
  <2>3. TrialJob'
    BY <1>3, <1>4, <1>5, <1>6, <1>8, <2>2
       DEF TrialJob, AtPhases, AtTrial, AtReturn, AtStage
  <2> QED BY <2>2, <2>3 DEF SwitchStep
<1> QED BY <1>7, <1>8

-----------------------------------------------------------------------------
(* Steps that leave all files but launcher.env, by where they lead.        *)

LEMMA EnvAside ==
    ASSUME DeliveryInv, UNCHANGED <<main, stage>>, NEW f, Put("env", f) PROVE Aside
  BY DEF DeliveryInv, DiskOK, FilesOK, UnsyncedOK, Put, Aside

LEMMA StillAside ==
    ASSUME UNCHANGED <<files, unsynced, main, stage>> PROVE Aside
  BY DEF Aside

(* To where nothing is asked of the trial.                                 *)
LEMMA RequestsApart ==
    ASSUME TrialInv, HostReconciles, UNCHANGED stage,
           \/ /\ HostReconciles => stage = NoFile
              /\ \E app \in Apps : Upload(app)
           \/ /\ HostReconciles => ~Legacy
              /\ StartRunning \/ StartManaged
           \/ Recover
    PROVE  Aside /\ TrialJob'
<1>1. DeliveryInv /\ IsIdle
  BY DEF TrialInv, Upload, StartRunning, StartManaged, Recover
<1>2. ~ReadyUnsynced
  BY <1>1 DEF IsIdle, ReadyUnsynced
<1>3. CASE StartManaged
  <2>1. Aside
    BY <1>1, <1>3, EnvAside, StillAside DEF StartManaged
  <2>2. job'.at = "arm" /\ job'.then = "reply"
    BY <1>3 DEF StartManaged, Idle
  <2>3. Phase = "None" => files.oldManifest = NoFile
    BY <1>3 DEF Legacy, NoBackups, StartManaged, Upload, Recover, StartRunning, Idle
  <2> QED BY <1>2, <2>1, <2>2, <2>3, AsideLands DEF Apart, Stop
<1>4. CASE StartRunning
  <2>1. Aside
    BY <1>4, StillAside DEF StartRunning, disk
  <2>2. job'.at = "finish" /\ job'.then = "reply"
    BY <1>4 DEF StartRunning, Idle
  <2>3. Phase = "None" => files.oldManifest = NoFile
    BY <1>4 DEF Legacy, NoBackups, StartRunning, Upload, Recover, StartManaged, Idle
  <2> QED BY <1>2, <2>1, <2>2, <2>3, AsideLands DEF Apart, Stop
<1>5. CASE Recover
  <2>1. Aside
    BY <1>5, StillAside DEF Recover, disk
  <2>2. job'.at = "recover" /\ job'.then = "reply"
    BY <1>5 DEF Recover, Idle
  <2> QED BY <1>2, <2>1, <2>2, AsideLands DEF Apart, Stop
<1>6. CASE stage = NoFile /\ \E app \in Apps : Upload(app)
  <2>1. Aside
    BY <1>6, StillAside DEF Upload, disk
  <2>2. job'.at = "recover"
    BY <1>6 DEF Upload, Idle
  <2> QED BY <1>2, <1>6, <2>1, <2>2, AsideLands DEF Apart, Stop
<1> QED BY <1>3, <1>4, <1>5, <1>6

LEMMA LeavesApart ==
    ASSUME TrialInv, ~DiesUnsynced, UNCHANGED stage,
           \/ InstallFails \/ Arm \/ Launch \/ Verified \/ StartFails \/ NotFinished
           \/ RecoverVerified \/ RecoverNothing \/ RecoverOutstanding \/ Unmanage
           \/ AwaitReboot \/ ResumesMain
           \/ (ReadyUnsynced => DiesUnsynced) /\ StepFails
           \/ AgentDies
    PROVE  Aside /\ TrialJob'
<1>1. DeliveryInv /\ AtPhases /\ AtTrial /\ job \in Jobs
  BY DEF TrialInv, TrialJob, DeliveryInv, JobOK
<1>2. Aside
  <2>1. CASE Arm \/ Unmanage
    BY <1>1, <2>1, EnvAside DEF Arm, Unmanage
  <2>2. CASE ~(Arm \/ Unmanage)
    BY <2>2, StillAside
       DEF disk, InstallFails, Launch, Verified, StartFails, NotFinished, RecoverVerified,
           RecoverNothing, RecoverOutstanding, StepFails, AwaitReboot, ResumesMain, AgentDies
  <2> QED BY <2>1, <2>2
<1>3. ~ReadyUnsynced
  BY DEF ReadyUnsynced, InstallFails, Arm, Launch, Verified, StartFails, NotFinished,
         RecoverVerified, RecoverNothing, RecoverOutstanding, Unmanage, AwaitReboot,
         ResumesMain, StepFails, AgentDies
<1>4. job.then = "install" => stage = NoFile
  BY <1>1 DEF AtTrial
<1>5. Stop \in {"arm", "launch", "await", "finish"} /\ Phase = "None" =>
          files.oldManifest = NoFile
  BY <1>1 DEF AtPhases
<1>6. CASE InstallFails
  <2>1. job'.at = "undo" /\ job'.then = "reply"
    BY <1>1, <1>6 DEF InstallFails, ToUndo, Jobs
  <2> QED BY <1>2, <1>3, <2>1, AsideLands DEF Apart, Stop
<1>7. CASE Arm \/ Launch \/ Verified
  <2>1. /\ job.at \in {"arm", "launch", "await"}
        /\ job'.at \in {"launch", "await", "finish"} /\ job'.then = job.then
    BY <1>1, <1>7 DEF Arm, Launch, Verified, Goto, Jobs
  <2> QED BY <1>2, <1>3, <1>4, <1>5, <2>1, AsideLands DEF Apart, Stop
<1>8. CASE RecoverVerified
  <2>1. job'.at = "finish" /\ job'.then = job.then /\ Phase = "Prepared"
    BY <1>1, <1>8 DEF RecoverVerified, InstalledAndVerified, Jobs
  <2> QED BY <1>2, <1>3, <1>4, <2>1, AsideLands DEF Apart, Stop
<1>9. CASE StartFails \/ NotFinished \/ RecoverNothing \/ RecoverOutstanding \/ Unmanage
           \/ StepFails
  <2>1. job'.at \in {"recover", "resume", "restore"} /\ job'.then = job.then
    BY <1>1, <1>9 DEF StartFails, NotFinished, RecoverNothing, RecoverOutstanding, ToRestore,
                      Unmanage, StepFails, Goto, Jobs
  <2> QED BY <1>2, <1>3, <1>4, <2>1, AsideLands DEF Apart, Stop
<1>10. CASE AwaitReboot \/ ResumesMain \/ AgentDies
  <2>1. job'.at = "idle" /\ job'.then = "reply"
    BY <1>10 DEF AwaitReboot, ResumesMain, AgentDies, Idle
  <2> QED BY <1>2, <1>3, <2>1, AsideLands DEF Apart, Stop
<1> QED BY <1>6, <1>7, <1>8, <1>9, <1>10

LEMMA ResumesApart ==
    ASSUME TrialInv, UNCHANGED stage, Resumes
    PROVE  Aside /\ TrialJob'
<1>1. /\ job.at = "resume" /\ Aside /\ AtTrial /\ AtPhases /\ TrialDisk /\ Orphans
      /\ job' = IF job.then = "install" /\ ~job.failed
                THEN [Idle EXCEPT !.at = "install", !.build = job.build, !.task = "install"]
                ELSE Idle
  BY StillAside DEF Resumes, disk, TrialInv, TrialJob
<1>2. /\ (OnTrial' <=> OnTrial) /\ Phase' = Phase /\ stage' = stage
  BY <1>1, AsideKeeps DEF Aside
<1>3. OnTrial => Phase \in {"Prepared", "Restored"}
  BY <1>1 DEF AtPhases, ReadyUnsynced
<1>4. job'.at \in {"idle", "install"} /\ job'.then = "reply"
      /\ (job'.at = "install" => stage = NoFile)
  BY <1>1 DEF Idle, AtTrial
<1>5. TrialJob'
  BY <1>2, <1>3, <1>4 DEF TrialJob, AtPhases, AtTrial, AtReturn, AtStage, Stop
<1> QED BY <1>1, <1>5

(* To the cleanup, which a trial has left behind.                          *)
LEMMA CleanupApart ==
    ASSUME TrialInv, UNCHANGED stage,
           RecoverReady \/ RecoverLegacyRest \/ FinishWithoutReceipt
    PROVE  Aside /\ TrialJob'
<1>1. /\ Aside /\ DeliveryInv /\ TrialDisk /\ Orphans /\ AtPhases /\ AtTrial /\ job \in Jobs
  BY StillAside DEF RecoverReady, RecoverLegacyRest, FinishWithoutReceipt, disk, TrialInv,
                    TrialJob, DeliveryInv, JobOK
<1>2. /\ (OnTrial' <=> OnTrial) /\ Phase' = Phase /\ stage' = stage
      /\ files'.oldManifest = files.oldManifest
  BY <1>1, AsideKeeps DEF Aside
<1>3. job.at \in {"recover", "undo", "finish"} /\ Phase \in {"None", "Ready"}
  BY DEF RecoverReady, RecoverLegacyRest, FinishWithoutReceipt, Phase
<1>4. ~OnTrial
  BY <1>1, <1>3 DEF AtPhases, ReadyUnsynced
<1>5. Phase = "None" => files.oldManifest = NoFile
  <2>1. CASE RecoverReady
    BY <2>1 DEF RecoverReady
  <2>2. CASE RecoverLegacyRest
    <3>1. NoFile \in unsynced.receipt /\ ~OldPairComplete
      BY <1>1, <2>2, DiskFacts, PhaseFacts DEF RecoverLegacyRest
    <3> QED BY <1>1, <3>1, DiskFacts DEF Orphans
  <2>3. CASE FinishWithoutReceipt
    BY <1>1, <2>3 DEF FinishWithoutReceipt, AtPhases, Stop
  <2> QED BY <2>1, <2>2, <2>3
<1>6. job'.at \in {"drop", "resume"} /\ job'.then = job.then
  BY <1>1 DEF RecoverReady, RecoverLegacyRest, FinishWithoutReceipt, ToCleanup, Jobs
<1>7. TrialJob'
  BY <1>1, <1>2, <1>4, <1>5, <1>6 DEF TrialJob, AtPhases, AtTrial, AtReturn, AtStage, Stop
<1> QED BY <1>1, <1>7

(* To the restoration, and through it.                                     *)
LEMMA RestorationsAll ==
    ASSUME NEW receipt
    PROVE  "app" \in ToSet(Restorations(receipt)) /\ "manifest" \in ToSet(Restorations(receipt))
<1> DEFINE app == If(~receipt.hadApp, "app")
           env == If(~receipt.hadEnv /\ ~receipt.preserveEnv, "env")
           both == Originals(receipt) \o app
<1>1. Originals(receipt) \in Seq(Originators) /\ "manifest" \in ToSet(Originals(receipt))
      /\ (receipt.hadApp => "app" \in ToSet(Originals(receipt)))
  BY OriginalsTyped
<1>2. app \in Seq(Originators) /\ (~receipt.hadApp => ToSet(app) = {"app"})
  BY Single, EmptySeq DEF If, Originators
<1>3. env \in Seq(Originators)
  BY Single, EmptySeq DEF If, Originators
<1>4. Restorations(receipt) = both \o env
  BY DEF Restorations
<1> HIDE DEF app, env
<1>5. both \in Seq(Originators) /\ ToSet(both) = ToSet(Originals(receipt)) \union ToSet(app)
  BY <1>1, <1>2, Concatenated
<1> HIDE DEF both
<1>6. ToSet(both \o env) = ToSet(both) \union ToSet(env)
  BY <1>3, <1>5, Concatenated
<1> QED BY <1>1, <1>2, <1>4, <1>5, <1>6

LEMMA RestoresApart ==
    ASSUME TrialInv, UNCHANGED stage, Restore \/ CopiedBack \/ SkipFailed \/ Dropped
    PROVE  Aside /\ TrialJob'
<1>1. /\ Aside /\ DeliveryInv /\ TrialDisk /\ Orphans /\ TrialJob /\ job \in Jobs
      /\ UNCHANGED <<files, unsynced>>
  BY StillAside DEF Restore, CopiedBack, SkipFailed, Dropped, disk, TrialInv, DeliveryInv,
                    JobOK
<1>2. /\ (OnTrial' <=> OnTrial) /\ Phase' = Phase /\ stage' = stage
      /\ files'.oldManifest = files.oldManifest
      /\ (Returned' <=> Returned)
  BY <1>1, AsideKeeps DEF Aside, Returned, OldApp
<1>3. /\ job.at \in {"restore", "copy", "drop"} /\ Stop = job.at
      /\ OnTrial => Phase \in {"Prepared", "Restored"}
  BY <1>1 DEF Restore, CopiedBack, SkipFailed, Dropped, Stop, TrialJob, AtPhases,
              ReadyUnsynced
<1>4. job'.then = job.then /\ (job.then = "install" => stage = NoFile)
  BY <1>1 DEF Restore, CopiedBack, SkipFailed, Dropped, Goto, SyncThen, Jobs, TrialJob, AtTrial
<1>5. CASE Restore
  <2>1. CASE Phase = "Prepared"
    <3>1. job' = [job EXCEPT !.at = "copy", !.todo = Restorations(files.receipt)]
      BY <1>5, <2>1 DEF Restore
    <3>2. job'.at = "copy" /\ job'.todo = Restorations(files.receipt)
      BY <1>1, <3>1 DEF Jobs
    <3>3. "app" \in Left' /\ "manifest" \in Left'
      BY <3>2, RestorationsAll DEF Left
    <3> QED BY <1>1, <1>2, <1>3, <1>4, <3>2, <3>3
            DEF TrialJob, AtPhases, AtTrial, AtReturn, AtStage, Stop
  <2>2. CASE Phase # "Prepared"
    <3>1. job'.at = "sync" /\ Stop' = "restored"
      BY <1>1, <1>5, <2>2 DEF Restore, Jobs, Stop
    <3>2. OnTrial => Returned
      <4>1. OnTrial => files.receipt \in Known /\ files.receipt.phase = "Restored"
        BY <1>1, <1>3, <2>2, PhaseFacts
      <4> QED BY <1>1, <4>1 DEF TrialDisk, EndsReturned
    <3> QED BY <1>1, <1>2, <1>3, <1>4, <3>1, <3>2
            DEF TrialJob, AtPhases, AtTrial, AtReturn, AtStage
  <2> QED BY <2>1, <2>2
<1>6. CASE CopiedBack
  <2>1. CASE job.failed
    <3>1. job'.at = "resume"
      BY <1>1, <1>6, <2>1 DEF CopiedBack, Goto, Jobs
    <3> QED BY <1>1, <1>2, <1>3, <1>4, <3>1, ApartLands DEF Apart, Stop
  <2>2. CASE ~job.failed
    <3>1. job'.at = "sync" /\ Stop' = "restored"
      BY <1>1, <1>6, <2>2 DEF CopiedBack, SyncThen, Jobs, Stop
    <3>2. Returned
      <4>1. job.at = "copy" /\ Left = {}
        BY <1>6, NoElements DEF CopiedBack, Left
      <4> QED BY <1>1, <1>3, <2>2, <4>1 DEF TrialJob, AtReturn, Returned
    <3> QED BY <1>1, <1>2, <1>3, <1>4, <3>1, <3>2
            DEF TrialJob, AtPhases, AtTrial, AtReturn, AtStage
  <2> QED BY <2>1, <2>2
<1>7. CASE SkipFailed
  <2>1. job'.at = job.at /\ job'.failed /\ Stop' = Stop
    BY <1>1, <1>3, <1>7 DEF SkipFailed, Jobs, Stop
  <2> QED BY <1>1, <1>2, <1>3, <1>4, <2>1
          DEF TrialJob, AtPhases, AtTrial, AtReturn, AtStage
<1>8. CASE Dropped
  <2>1. job'.at = "sync" /\ Stop' \in {"forget", "resume"}
    BY <1>1, <1>8 DEF Dropped, SyncThen, Jobs, Stop
  <2>2. ~OnTrial
    BY <1>1, <1>8 DEF Dropped, TrialJob, AtPhases
  <2> QED BY <1>1, <1>2, <1>4, <2>1, <2>2
          DEF TrialJob, AtPhases, AtTrial, AtReturn, AtStage
<1> QED BY <1>5, <1>6, <1>7, <1>8

(* Nowhere: the job stays where it is.                                     *)
LEMMA StaysApart ==
    ASSUME TrialInv, Aside, UNCHANGED job
    PROVE  TrialJob'
<1>1. UNCHANGED <<main, stage>> /\ DeliveryInv /\ TrialDisk /\ Orphans /\ TrialJob
  BY DEF Aside, TrialInv
<1>2. /\ (OnTrial' <=> OnTrial) /\ Phase' = Phase
  BY <1>1, AsideKeeps
<1>3. /\ files'.app = files.app /\ files'.manifest = files.manifest
      /\ files'.receipt = files.receipt
      /\ files'.oldApp = files.oldApp /\ files'.oldManifest = files.oldManifest
      /\ unsynced'.app = unsynced.app /\ unsynced'.manifest = unsynced.manifest
      /\ unsynced'.receipt = unsynced.receipt
      /\ unsynced'.oldApp = unsynced.oldApp /\ unsynced'.oldManifest = unsynced.oldManifest
  BY DEF Aside, Entries
<1>4. /\ Stop' = Stop /\ Left' = Left /\ Expected' = Expected /\ OldApp' = OldApp
      /\ (ReadyUnsynced' <=> ReadyUnsynced)
      /\ Logged' = Logged
  BY <1>1, <1>3 DEF Stop, Left, Expected, OldApp, ReadyUnsynced, Logged
<1>5. (Settled' <=> Settled) /\ (Returned' <=> Returned)
      /\ (\A e \in Artifacts : Current(e)' = Current(e) /\ Staged(e)' = Staged(e))
  BY <1>1, <1>3, <1>4 DEF Settled, Returned, Current, Staged, StagedManifest, Artifacts
<1>6. AtPhases' /\ AtReturn'
  BY <1>1, <1>2, <1>3, <1>4, <1>5 DEF TrialJob, AtPhases, AtReturn
<1>7. AtTrial'
  BY <1>1, <1>2, <1>3, <1>4, <1>5 DEF TrialJob, AtTrial
<1>8. AtStage'
  <2>1. stage # NoFile => ToSet(Replaced(stage.kind)) \subseteq Artifacts
                          /\ Logged \subseteq Artifacts
    BY <1>1, StageTyped, ReplacedTyped DEF DeliveryInv
  <2>2. Stop \in {"disarm", "save", "replace", "revert"} => stage # NoFile
    BY <1>1 DEF DeliveryInv, JobFits, AtPublication
  <2>3. CASE stage = NoFile
    BY <1>1, <1>4, <2>2, <2>3 DEF TrialJob, AtStage
  <2>4. CASE stage # NoFile
    BY <1>1, <1>3, <1>4, <1>5, <2>1, <2>4 DEF TrialJob, AtStage
  <2> QED BY <2>3, <2>4
<1> QED BY <1>6, <1>7, <1>8 DEF TrialJob

(* Main's child and the operator act.                                      *)
LEMMA EnvironmentAside == ASSUME DeliveryInv, Environment PROVE Aside /\ UNCHANGED job
<1>1. UNCHANGED <<main, job, stage>>
  BY DEF Environment, BecomesReady, Relaunches, OperatorEdits, disk
<1>2. CASE BecomesReady \/ Relaunches
  BY <1>1, <1>2, StillAside DEF BecomesReady, Relaunches, disk
<1>3. CASE \E lines \in Settings : OperatorEdits(lines)
  <2>1. PICK env : /\ files' = [files EXCEPT !.env = env]
                   /\ unsynced' = [unsynced EXCEPT !.env = {env}]
    BY <1>3 DEF OperatorEdits
  <2> QED BY <1>1, <2>1 DEF DeliveryInv, DiskOK, FilesOK, UnsyncedOK, Aside
<1> QED BY <1>2, <1>3 DEF Environment

-----------------------------------------------------------------------------
(* The publication: steps that write none of its files.                    *)

(* Where a publication is, it has its stage, and no application is on      *)
(* trial.                                                                  *)
LEMMA Publishing ==
    ASSUME TrialInv, stage # NoFile
    PROVE  /\ ~OnTrial /\ DeliveryInv /\ TrialDisk /\ Orphans /\ AtStage /\ JobOK
           /\ stage \in Stages /\ stage.kind \in Kinds
           /\ stage.log \in Seq(Artifacts) /\ Logged = ToSet(stage.log)
           /\ Logged \subseteq Artifacts
           /\ Proven = [app |-> Journaled("app"), main |-> Journaled("main"),
                        manifest |-> Journaled("manifest")]
           /\ Trial = Matching(stage.app, stage.main) /\ Trial # NoFile
<1>1. /\ DeliveryInv /\ TrialDisk /\ Orphans /\ AtStage /\ StageOK /\ JobOK
  BY DEF TrialInv, TrialJob, DeliveryInv
<1>2. ~OnTrial
  BY <1>1 DEF TrialDisk
<1>3. /\ Proven = [app |-> Journaled("app"), main |-> Journaled("main"),
                   manifest |-> Journaled("manifest")]
      /\ Trial = Matching(stage.app, stage.main) /\ Trial # NoFile
  BY <1>1, SetsAre, TrialTyped
<1> QED BY <1>1, <1>2, <1>3, StageTyped

(* The journal, last entry first.                                          *)
LEMMA RevertLands ==
    ASSUME stage' # NoFile, ~OnTrial', job'.then = "reply", job'.at = "revert",
           job'.failed \/ \A e \in Logged' \ Left' : Current(e)' = stage'.saved[e]
    PROVE  TrialJob'
  BY DEF TrialJob, AtPhases, AtTrial, AtReturn, AtStage, Stop

LEMMA PublicationsApart ==
    ASSUME TrialInv, UNCHANGED stage,
           \/ Disarm \/ ReloadHealthy \/ Reverted
           \/ PublishFails \/ RevertFails \/ RestoreStage \/ FinishStage
    PROVE  Aside /\ TrialJob'
<1>1. /\ stage # NoFile /\ DeliveryInv /\ AtStage /\ JobOK /\ TrialDisk /\ Orphans
      /\ stage.kind \in Kinds /\ stage.log \in Seq(Artifacts) /\ Logged = ToSet(stage.log)
      /\ Logged \subseteq Artifacts /\ ~OnTrial
  <2>1. stage # NoFile
    BY DEF Disarm, ReloadHealthy, Reverted, PublishFails, RevertFails, RestoreStage,
           FinishStage, TrialInv, DeliveryInv, JobFits, AtPublication, Stop
  <2> QED BY <2>1, Publishing
<1>2. Aside
  <2>1. CASE Disarm
    BY <1>1, <2>1, EnvAside DEF Disarm
  <2>2. CASE ~Disarm
    BY <2>2, StillAside
       DEF disk, ReloadHealthy, Reverted, PublishFails, RevertFails, RestoreStage, FinishStage
  <2> QED BY <2>1, <2>2
<1>3. /\ ~OnTrial' /\ Phase' = Phase /\ Logged' = Logged /\ stage' # NoFile
      /\ files'.app = files.app /\ files'.manifest = files.manifest
      /\ \A e \in Artifacts : Current(e)' = Current(e) /\ Staged(e)' = Staged(e)
  <2>1. /\ files'.app = files.app /\ files'.manifest = files.manifest /\ main' = main
        /\ stage' = stage
    BY <1>2 DEF Aside, Entries
  <2> QED BY <1>1, <1>2, <2>1, AsideKeeps
          DEF Logged, Current, Staged, StagedManifest, Artifacts
<1>4. ToSet(Reverse(stage.log)) = Logged
  BY <1>1, Reversed
<1>5. job.at \in {"disarm", "save", "replace", "revert"} => job.then = "reply"
  BY <1>1 DEF DeliveryInv, JobFits, AtPublication, Stop
<1>6. CASE Disarm
  <2>1. /\ job.at = "disarm" /\ Stop = "disarm"
        /\ job'.at = "save" /\ Stop' = "save" /\ Left' = Left
        /\ job'.task = job.task /\ job'.todo = job.todo /\ job'.then = job.then
    BY <1>1, <1>6 DEF Disarm, Goto, JobOK, Jobs, Stop, Left
  <2>2. /\ job.task = "publish" /\ Distinct(job.todo) /\ Logged \intersect Left = {}
        /\ \A e \in ToSet(Replaced(stage.kind)) \ Left : Current(e) = Staged(e)
        /\ stage.kind = "local-main" => files.app = stage.app
    BY <1>1, <2>1 DEF AtStage
  <2>3. ToSet(Replaced(stage.kind)) \subseteq Artifacts
    BY <1>1, ReplacedTyped
  <2>4. AtStage'
    BY <1>3, <2>1, <2>2, <2>3 DEF AtStage
  <2> QED BY <1>2, <1>3, <1>5, <2>1, <2>4 DEF TrialJob, AtPhases, AtTrial, AtReturn
<1>7. CASE ReloadHealthy
  <2>1. /\ job.at = "save" /\ Stop = "save" /\ Left = {} /\ stage.kind = "local-main"
        /\ job'.at = "discard" /\ Stop' = "discard" /\ job'.task = job.task
        /\ job'.then = job.then
    BY <1>1, <1>7, NoElements DEF ReloadHealthy, Goto, JobOK, Jobs, Stop, Left
  <2>2. "main" \in ToSet(Replaced(stage.kind)) /\ "manifest" \in ToSet(Replaced(stage.kind))
    BY <2>1 DEF Replaced, ToSet
  <2>3. /\ job.task = "publish" /\ Current("main") = Staged("main")
        /\ Current("manifest") = Staged("manifest") /\ files.app = stage.app
    BY <1>1, <2>1, <2>2 DEF AtStage
  <2>4. Current("app") = Staged("app")
    BY <2>3 DEF Current, Staged
  <2>5. AtStage'
    BY <1>3, <2>1, <2>3, <2>4 DEF AtStage, Artifacts
  <2> QED BY <1>2, <1>3, <1>5, <2>1, <2>5 DEF TrialJob, AtPhases, AtTrial, AtReturn
<1>8. CASE Reverted
  <2>1. CASE job.task = "restore-stage" /\ ~job.failed
    <3>1. /\ job.at = "revert" /\ Stop = "revert" /\ Left = {}
          /\ job'.at = "discard" /\ Stop' = "discard" /\ job'.task = job.task
          /\ job'.then = job.then
      BY <1>1, <1>8, <2>1, NoElements DEF Reverted, Goto, JobOK, Jobs, Stop, Left
    <3>2. \A e \in Logged : Current(e) = stage.saved[e]
      BY <1>1, <2>1, <3>1 DEF AtStage
    <3>3. AtStage'
      BY <1>1, <1>2, <1>3, <2>1, <3>1, <3>2 DEF AtStage, Aside
    <3> QED BY <1>2, <1>3, <1>5, <3>1, <3>3 DEF TrialJob, AtPhases, AtTrial, AtReturn
  <2>2. CASE ~(job.task = "restore-stage" /\ ~job.failed)
    <3>1. job.at = "revert" /\ job'.at = "resume-main" /\ job'.then = job.then
      BY <1>1, <1>8, <2>2 DEF Reverted, Goto, JobOK, Jobs
    <3> QED BY <1>2, <1>3, <1>5, <3>1, ApartLands DEF Apart, Stop
  <2> QED BY <2>1, <2>2
<1>9. CASE PublishFails \/ RestoreStage
  <2>1. /\ job'.at = "revert" /\ job'.todo = Reverse(stage.log) /\ job'.then = job.then
        /\ job.at \in {"disarm", "save", "replace", "idle"}
    BY <1>1, <1>9 DEF PublishFails, RestoreStage, IsIdle, ToRevert, JobOK, Jobs
  <2>2. job.then = "reply"
    BY <1>1, <1>5, <2>1 DEF DeliveryInv, JobFits, AtInstall
  <2>3. Logged' \ Left' = {}
    BY <1>3, <1>4, <2>1 DEF Left
  <2> QED BY <1>2, <1>3, <2>1, <2>2, <2>3, RevertLands
<1>10. CASE RevertFails
  <2>1. job.at = "revert" /\ job'.at = "revert" /\ job'.failed /\ job'.then = job.then
    BY <1>1, <1>10 DEF RevertFails, JobOK, Jobs
  <2> QED BY <1>2, <1>3, <1>5, <2>1, RevertLands
<1>11. CASE FinishStage
  <2>1. job'.at = "discard" /\ job'.task = "finish-stage" /\ job'.then = "reply"
    BY <1>11 DEF FinishStage, Idle
  <2>2. /\ files.manifest = [gui |-> files.app, main |-> main]
        /\ files.manifest = [gui |-> stage.app, main |-> stage.main]
    BY <1>11 DEF FinishStage, StagedManifest
  <2>3. \A e \in Artifacts : Current(e) = Staged(e)
    BY <2>2 DEF Artifacts, Current, Staged, StagedManifest
  <2>4. AtStage'
    BY <1>3, <2>1, <2>3 DEF AtStage, Stop
  <2> QED BY <1>2, <1>3, <2>1, <2>4 DEF TrialJob, AtPhases, AtTrial, AtReturn, Stop
<1> QED BY <1>6, <1>7, <1>8, <1>9, <1>10, <1>11

-----------------------------------------------------------------------------
(* The publication: its stage, its journal and the files it replaces.      *)

LEMMA DistinctTail ==
    ASSUME NEW S, NEW s \in Seq(S), s # << >>, Distinct(s)
    PROVE  Distinct(Tail(s)) /\ Head(s) \notin ToSet(Tail(s))
<1>1. /\ Head(s) = s[1] /\ Tail(s) \in Seq(S) /\ Len(Tail(s)) = Len(s) - 1
      /\ \A i \in 1 .. Len(Tail(s)) : Tail(s)[i] = s[i + 1]
  BY HeadTailProperties
<1>2. Len(s) \in Nat /\ DOMAIN s = 1 .. Len(s) /\ DOMAIN Tail(s) = 1 .. Len(Tail(s))
      /\ Len(s) # 0
  BY <1>1, LenProperties, EmptySeq
<1>3. \A i \in DOMAIN Tail(s) : /\ i \in Int /\ i + 1 \in DOMAIN s /\ i + 1 # 1
                                /\ Tail(s)[i] = s[i + 1]
  BY <1>1, <1>2
<1>4. Distinct(Tail(s))
  <2>1. ASSUME NEW i \in DOMAIN Tail(s), NEW j \in DOMAIN Tail(s), Tail(s)[i] = Tail(s)[j]
        PROVE  i = j
    <3>1. i + 1 = j + 1
      BY <1>3, <2>1 DEF Distinct
    <3> QED BY <1>3, <3>1
  <2> QED BY <2>1 DEF Distinct
<1>5. Head(s) \notin ToSet(Tail(s))
  <2>1. 1 \in DOMAIN s
    BY <1>2
  <2>2. \A i \in DOMAIN Tail(s) : Tail(s)[i] # s[1]
    BY <1>3, <2>1 DEF Distinct
  <2> QED BY <1>1, <2>2 DEF ToSet
<1> QED BY <1>4, <1>5

LEMMA ReplacedDistinct == ASSUME NEW kind \in Kinds PROVE Distinct(Replaced(kind))
<1>1. CASE kind = "platform"
  BY <1>1 DEF Replaced, Distinct
<1>2. CASE kind # "platform"
  BY <1>2 DEF Replaced, Distinct
<1> QED BY <1>1, <1>2

LEMMA PublishBegins ==
    ASSUME TrialInv, ~Outstanding, ~Legacy,
           NEW kind \in Kinds, NEW app \in Apps, NEW build \in Mains,
           Publish(kind, app, build)
    PROVE  TrialDisk' /\ Orphans' /\ SwitchStep /\ TrialJob'
<1>1. /\ job.at = "idle" /\ stage = NoFile /\ (kind = "local-main" => files.app = app)
      /\ stage' = [kind |-> kind, app |-> app, main |-> build, rebooted |-> FALSE,
                   log |-> << >>, saved |-> [e \in Artifacts |-> NoFile]]
      /\ job' = [Idle EXCEPT !.at = "disarm", !.task = "publish", !.todo = Replaced(kind)]
      /\ UNCHANGED <<files, unsynced, main>>
      /\ DeliveryInv /\ TrialDisk /\ Orphans /\ AtPhases
  BY DEF Publish, IsIdle, disk, TrialInv, TrialJob
<1>2. ~OnTrial /\ ~LegacyTrial
  BY <1>1 DEF AtPhases, Outstanding, ReadyUnsynced, LegacyTrial
<1>3. /\ stage'.kind = kind /\ stage'.app = app /\ stage'.main = build
      /\ stage'.log = << >>
  BY <1>1
<1>4. stage' # NoFile
  <2>1. << >> \in Seq(Artifacts) /\ [e \in Artifacts |-> NoFile] \in
            [Artifacts -> Apps \union Mains \union Manifests \union {NoFile}]
    BY EmptySeq
  <2>2. stage' \in Stages
    BY <1>1, <2>1 DEF Stages
  <2> QED BY <2>2, NamesAssumption
<1>5. Logged' = {}
  BY <1>3, NoElements DEF Logged, ToSet
<1>6. ~OnTrial' /\ Settled' /\ TrialDisk'
  BY <1>1, <1>2 DEF OnTrial, TrialDisk, Settled
<1>7. Orphans'
  <2> SUFFICES ASSUME NoFile \in unsynced.receipt PROVE unsynced.oldManifest = {NoFile}
    BY <1>1, <1>6 DEF Orphans
  <2>1. CASE unsynced.receipt = {NoFile} /\ OldPairComplete
    <3>1. Phase = "None"
      BY <1>1, <2>1, DiskFacts, PhaseFacts
    <3> QED BY <2>1, <3>1 DEF Legacy, NoBackups, OldPairComplete
  <2> QED BY <1>1, <1>2, <2>1 DEF Orphans
<1>8. SwitchStep
  <2>1. Proven = Installed /\ Trial = NoFile
    BY <1>1, <1>2, SetsAre
  <2>2. (stage # NoFile =>
           /\ Proven = [app |-> Journaled("app"), main |-> Journaled("main"),
                        manifest |-> Journaled("manifest")]
           /\ Trial = Matching(stage.app, stage.main))'
    BY SetsAre, PTL
  <2>3. /\ Journaled("app")' = files.app /\ Journaled("main")' = main
        /\ Journaled("manifest")' = files.manifest
    BY <1>1, <1>5 DEF Journaled, Current
  <2>4. Proven' = Proven
    BY <1>4, <2>1, <2>2, <2>3 DEF Installed
  <2>5. Trial' = Matching(app, build)
    BY <1>3, <1>4, <2>2 DEF Matching
  <2>6. Matching(app, build) \in Sets
    BY Matched
  <2> QED BY <2>1, <2>4, <2>5, <2>6, Begun
<1>9. /\ job'.at = "disarm" /\ Stop' = "disarm" /\ job'.task = "publish"
      /\ job'.todo = Replaced(kind) /\ job'.then = "reply" /\ Left' = ToSet(Replaced(kind))
  BY <1>1 DEF Idle, Stop, Left
<1>10. AtStage'
  BY <1>1, <1>3, <1>5, <1>9, ReplacedDistinct DEF AtStage
<1>11. TrialJob'
  BY <1>6, <1>9, <1>10 DEF TrialJob, AtPhases, AtTrial, AtReturn
<1> QED BY <1>6, <1>7, <1>8, <1>11

LEMMA SaveKeepsTrial ==
    ASSUME TrialInv, SaveEntry
    PROVE  TrialDisk' /\ Orphans' /\ SwitchStep /\ TrialJob'
<1> DEFINE h == Head(job.todo)
<1>1. /\ job.at = "save" /\ job.todo # << >>
      /\ stage' = [stage EXCEPT !.log = Append(@, h), !.saved[h] = Current(h)]
      /\ job' = [job EXCEPT !.at = "replace"]
      /\ UNCHANGED <<files, unsynced, main>>
  BY DEF SaveEntry, Goto, disk
<1>2. Stop = "save" /\ stage # NoFile
  BY <1>1 DEF Stop, TrialInv, DeliveryInv, JobFits, AtPublication
<1>3. /\ ~OnTrial /\ DeliveryInv /\ TrialDisk /\ Orphans /\ AtStage /\ JobOK
      /\ stage \in Stages /\ stage.log \in Seq(Artifacts) /\ Logged = ToSet(stage.log)
      /\ Logged \subseteq Artifacts
      /\ Proven = [app |-> Journaled("app"), main |-> Journaled("main"),
                   manifest |-> Journaled("manifest")]
      /\ Trial = Matching(stage.app, stage.main)
  BY <1>2, Publishing
<1>4. /\ h \in Left /\ Left \subseteq Artifacts /\ h \notin ToSet(Tail(job.todo))
      /\ ToSet(Tail(job.todo)) \subseteq Left
      /\ job.task = "publish" /\ Distinct(job.todo) /\ Logged \intersect Left = {}
  <2>1. /\ Left \subseteq Artifacts /\ job.task = "publish" /\ Distinct(job.todo)
        /\ Logged \intersect Left = {}
    BY <1>2, <1>3 DEF AtStage, DeliveryInv, JobFits, AtPublication
  <2>2. h \in Left /\ ToSet(Tail(job.todo)) \subseteq Left
    BY <1>1, <1>3, TodoShrinks DEF Left
  <2>3. h \notin ToSet(Tail(job.todo))
    BY <1>1, <1>3, <2>1, DistinctTail DEF JobOK, Jobs
  <2> QED BY <2>1, <2>2, <2>3
<1>5. h \in Artifacts /\ h \notin Logged
  BY <1>4
<1> HIDE DEF h
<1>6. /\ stage'.log = Append(stage.log, h)
      /\ stage'.kind = stage.kind /\ stage'.app = stage.app /\ stage'.main = stage.main
      /\ stage'.saved[h] = Current(h)
      /\ \A e \in Artifacts \ {h} : stage'.saved[e] = stage.saved[e]
      /\ DOMAIN stage'.saved = Artifacts
  BY <1>1, <1>3, <1>5 DEF Stages
<1>7. stage' # NoFile
  <2>1. Append(stage.log, h) \in Seq(Artifacts)
    BY <1>3, <1>5, Appended
  <2>2. Current(h) \in Apps \union Mains \union Manifests \union {NoFile}
    BY <1>3, <1>5, CurrentTyped DEF DeliveryInv, ArtifactOf, Artifacts
  <2>3. stage' \in Stages
    BY <1>1, <1>3, <1>5, <2>1, <2>2 DEF Stages
  <2> QED BY <2>3, NamesAssumption
<1>8. Logged' = Logged \union {h}
  BY <1>3, <1>5, <1>6, Appended DEF Logged, ToSet
<1>9. ~OnTrial' /\ TrialDisk'
  BY <1>1, <1>3 DEF OnTrial, TrialDisk, Settled
<1>10. Orphans'
  BY <1>1, <1>2, <1>3, <1>9 DEF Orphans
<1>11. \A e \in Artifacts : Current(e)' = Current(e) /\ Journaled(e)' = Journaled(e)
  <2>1. \A e \in Artifacts : Current(e)' = Current(e)
    BY <1>1 DEF Current
  <2>2. ASSUME NEW e \in Artifacts PROVE Journaled(e)' = Journaled(e)
    <3>1. CASE e = h
      BY <1>5, <1>6, <1>8, <3>1 DEF Journaled
    <3>2. CASE e # h
      BY <1>6, <1>8, <2>1, <3>2 DEF Journaled
    <3> QED BY <3>1, <3>2
  <2> QED BY <2>1, <2>2
<1>12. SwitchStep
  <2>1. (stage # NoFile =>
           /\ Proven = [app |-> Journaled("app"), main |-> Journaled("main"),
                        manifest |-> Journaled("manifest")]
           /\ Trial = Matching(stage.app, stage.main))'
    BY SetsAre, PTL
  <2>2. Proven' = Proven
    BY <1>3, <1>7, <1>11, <2>1 DEF Artifacts
  <2>3. Trial' = Trial
    BY <1>3, <1>6, <1>7, <2>1 DEF Matching
  <2> QED BY <2>2, <2>3 DEF SwitchStep
<1>13. /\ job'.at = "replace" /\ Stop' = "replace" /\ job'.task = job.task
       /\ job'.todo = job.todo /\ job'.then = job.then /\ Left' = Left
  BY <1>1, <1>3 DEF JobOK, Jobs, Stop, Left
<1>14. job.then = "reply"
  BY <1>2, <1>3 DEF DeliveryInv, JobFits, AtPublication
<1>15. AtStage'
  <2>1. /\ \A e \in ToSet(Replaced(stage.kind)) \ Left : Current(e) = Staged(e)
        /\ stage.kind = "local-main" => files.app = stage.app
    BY <1>2, <1>3 DEF AtStage
  <2>2. \A e \in Artifacts : Staged(e)' = Staged(e)
    BY <1>6 DEF Staged, StagedManifest, Artifacts
  <2>3. ToSet(Replaced(stage.kind)) \subseteq Artifacts
    BY <1>3, ReplacedTyped DEF Stages
  <2>4. \A e \in ToSet(Replaced(stage'.kind)) \ Left' : Current(e)' = Staged(e)'
    BY <1>6, <1>11, <1>13, <2>1, <2>2, <2>3
  <2>5. Head(job'.todo) \in Logged' /\ Logged' \intersect ToSet(Tail(job'.todo)) = {}
    BY <1>4, <1>8, <1>13 DEF h
  <2> QED BY <1>1, <1>4, <1>6, <1>13, <2>1, <2>4, <2>5 DEF AtStage
<1>16. TrialJob'
  BY <1>9, <1>13, <1>14, <1>15 DEF TrialJob, AtPhases, AtTrial, AtReturn
<1> QED BY <1>9, <1>10, <1>12, <1>16

(* A file of the set is renamed into place, which syncs its directory.     *)
LEMMA Placed ==
    ASSUME TrialInv, stage # NoFile, UNCHANGED stage, NEW e \in Logged, NEW f, Place(e, f)
    PROVE  /\ TrialDisk' /\ Orphans' /\ SwitchStep /\ ~OnTrial'
           /\ Current(e)' = f
           /\ \A x \in Artifacts \ {e} : Current(x)' = Current(x)
<1>1. /\ ~OnTrial /\ DeliveryInv /\ TrialDisk /\ Orphans /\ e \in Artifacts
      /\ Proven = [app |-> Journaled("app"), main |-> Journaled("main"),
                   manifest |-> Journaled("manifest")]
      /\ Trial = Matching(stage.app, stage.main)
  BY Publishing
<1>2. /\ Current(e)' = f
      /\ \A x \in Artifacts \ {e} : Current(x)' = Current(x)
      /\ files'.receipt = files.receipt /\ files'.oldManifest = files.oldManifest
  BY <1>1 DEF Place, Current, Artifacts, DeliveryInv, DiskOK, FilesOK, Entries
<1>3. \/ UNCHANGED <<files, unsynced>>
      \/ /\ unsynced'.app = {files'.app} /\ unsynced'.manifest = {files'.manifest}
         /\ unsynced'.receipt = {files'.receipt}
         /\ unsynced'.oldManifest = {files'.oldManifest}
  BY DEF Place, Entries
<1>4. files.receipt \in unsynced.receipt /\ files.oldManifest \in unsynced.oldManifest
  BY <1>1, DiskFacts
<1>5. ~OnTrial'
  BY <1>1, <1>2, <1>3, <1>4 DEF OnTrial
<1>6. TrialDisk'
  BY <1>1, <1>3, <1>5 DEF TrialDisk, Settled
<1>7. Orphans'
  BY <1>1, <1>2, <1>3, <1>4, <1>5 DEF Orphans
<1>8. SwitchStep
  <2>1. (stage # NoFile =>
           /\ Proven = [app |-> Journaled("app"), main |-> Journaled("main"),
                        manifest |-> Journaled("manifest")]
           /\ Trial = Matching(stage.app, stage.main))'
    BY SetsAre, PTL
  <2>2. \A x \in Artifacts : Journaled(x)' = Journaled(x)
    BY <1>2 DEF Journaled, Logged
  <2>3. Proven' = Proven
    BY <1>1, <2>1, <2>2 DEF Artifacts
  <2>4. Trial' = Trial
    BY <1>1, <2>1 DEF Matching
  <2> QED BY <2>3, <2>4 DEF SwitchStep
<1> QED BY <1>2, <1>5, <1>6, <1>7, <1>8

LEMMA ReplaceKeepsTrial ==
    ASSUME TrialInv, UNCHANGED stage, ReplaceEntry
    PROVE  TrialDisk' /\ Orphans' /\ SwitchStep /\ TrialJob'
<1>1. PICK h : h = Head(job.todo)
  OBVIOUS
<1>2. /\ job.at = "replace" /\ Place(h, Staged(h))
      /\ job' = [job EXCEPT !.at = "save", !.todo = Tail(@)]
  BY <1>1 DEF ReplaceEntry
<1>3. Stop = "replace" /\ stage # NoFile /\ job.todo # << >> /\ job.then = "reply"
  BY <1>2 DEF Stop, TrialInv, DeliveryInv, JobFits, AtPublication
<1>4. AtStage /\ JobOK /\ stage.kind \in Kinds /\ Logged \subseteq Artifacts
  BY <1>3, Publishing
<1>5. /\ job.task = "publish" /\ Distinct(job.todo)
      /\ h \in Logged /\ Logged \intersect ToSet(Tail(job.todo)) = {}
      /\ \A e \in ToSet(Replaced(stage.kind)) \ Left : Current(e) = Staged(e)
      /\ stage.kind = "local-main" => files.app = stage.app
  BY <1>1, <1>3, <1>4 DEF AtStage
<1>6. /\ Distinct(Tail(job.todo))
      /\ Left \subseteq {h} \union ToSet(Tail(job.todo))
  BY <1>1, <1>3, <1>4, <1>5, DistinctTail, TodoShrinks DEF JobOK, Jobs, Left
<1>7. /\ job'.at = "save" /\ Stop' = "save" /\ job'.task = job.task
      /\ job'.todo = Tail(job.todo) /\ job'.then = job.then
      /\ Left' = ToSet(Tail(job.todo))
  <2>1. Tail(job.todo) \in Seq(Entries \union Artifacts)
    BY <1>3, <1>4, TodoShrinks
  <2> QED BY <1>2, <1>4, <2>1 DEF JobOK, Jobs, Stop, Left
<1>8. /\ TrialDisk' /\ Orphans' /\ SwitchStep /\ ~OnTrial'
      /\ Current(h)' = Staged(h)
      /\ \A x \in Artifacts \ {h} : Current(x)' = Current(x)
  BY <1>2, <1>3, <1>5, Placed
<1>9. \A e \in Artifacts : Staged(e)' = Staged(e)
  BY DEF Staged, StagedManifest
<1>10. ToSet(Replaced(stage.kind)) \subseteq Artifacts
  BY <1>4, ReplacedTyped
<1>11. \A e \in ToSet(Replaced(stage.kind)) \ Left' : Current(e)' = Staged(e)
  BY <1>5, <1>6, <1>7, <1>8, <1>10
<1>12. stage.kind = "local-main" => files'.app = stage.app
  <2>1. Current("app")' = files'.app /\ Current("app") = files.app
        /\ Staged("app") = stage.app
    BY DEF Current, Staged
  <2> QED BY <1>5, <1>8, <2>1 DEF Artifacts
<1>13. Logged' = Logged
  BY DEF Logged
<1>14. AtStage'
  BY <1>5, <1>6, <1>7, <1>9, <1>10, <1>11, <1>12, <1>13 DEF AtStage
<1>15. TrialJob'
  BY <1>3, <1>7, <1>8, <1>14 DEF TrialJob, AtPhases, AtTrial, AtReturn
<1> QED BY <1>8, <1>15

LEMMA RevertKeepsTrial ==
    ASSUME TrialInv, UNCHANGED stage, RevertEntry
    PROVE  TrialDisk' /\ Orphans' /\ SwitchStep /\ TrialJob'
<1>1. PICK h : h = Head(job.todo)
  OBVIOUS
<1>2. /\ job.at = "revert" /\ job.todo # << >> /\ Place(h, stage.saved[h])
      /\ job' = [job EXCEPT !.todo = Tail(@)]
  BY <1>1 DEF RevertEntry
<1>3. Stop = "revert" /\ stage # NoFile /\ Left \subseteq Logged /\ job.then = "reply"
  BY <1>2 DEF Stop, TrialInv, DeliveryInv, JobFits, AtPublication
<1>4. AtStage /\ JobOK /\ Logged \subseteq Artifacts
  BY <1>3, Publishing
<1>5. /\ h \in Left /\ Left \subseteq {h} \union ToSet(Tail(job.todo))
      /\ Tail(job.todo) \in Seq(Entries \union Artifacts)
  BY <1>1, <1>2, <1>4, TodoShrinks DEF Left
<1>6. /\ job'.at = "revert" /\ job'.then = job.then /\ job'.failed = job.failed
      /\ Left' = ToSet(Tail(job.todo))
  BY <1>2, <1>4, <1>5 DEF JobOK, Jobs, Left
<1>7. /\ TrialDisk' /\ Orphans' /\ SwitchStep /\ ~OnTrial'
      /\ Current(h)' = stage.saved[h]
      /\ \A x \in Artifacts \ {h} : Current(x)' = Current(x)
  BY <1>2, <1>3, <1>5, Placed
<1>8. ~job.failed => \A e \in Logged \ Left' : Current(e)' = stage.saved[e]
  <2>1. ~job.failed => \A e \in Logged \ Left : Current(e) = stage.saved[e]
    BY <1>3, <1>4 DEF AtStage
  <2> QED BY <1>4, <1>5, <1>6, <1>7, <2>1
<1>9. Logged' = Logged
  BY DEF Logged
<1>10. TrialJob'
  BY <1>3, <1>6, <1>7, <1>8, <1>9, RevertLands
<1> QED BY <1>7, <1>10

(* The stage goes when the whole set is the new one, or the one of before. *)
LEMMA DiscardEnds ==
    ASSUME TrialInv, Discard
    PROVE  TrialDisk' /\ Orphans' /\ SwitchStep /\ TrialJob'
<1>1. /\ job.at = "discard" /\ stage' = NoFile /\ UNCHANGED <<files, unsynced, main>>
      /\ IF job.task = "restore-stage" THEN job' = [job EXCEPT !.at = "resume-main"]
         ELSE job' = Idle
  BY DEF Discard, Goto, disk
<1>2. Stop = "discard" /\ job.then = "reply" /\ stage # NoFile
  BY <1>1 DEF Stop, TrialInv, TrialJob, AtStage, DeliveryInv, JobFits, AtPublication
<1>3. /\ ~OnTrial /\ DeliveryInv /\ TrialDisk /\ Orphans /\ AtStage /\ JobOK
      /\ Proven = [app |-> Journaled("app"), main |-> Journaled("main"),
                   manifest |-> Journaled("manifest")]
      /\ Trial = Matching(stage.app, stage.main) /\ Trial # NoFile
  BY <1>2, Publishing
<1>4. ~OnTrial' /\ TrialDisk'
  BY <1>1, <1>3 DEF OnTrial, TrialDisk, Settled
<1>5. NoFile \in unsynced.receipt => unsynced.oldManifest = {NoFile}
  BY <1>2, <1>3 DEF Orphans
<1>6. Orphans'
  BY <1>1, <1>4, <1>5 DEF Orphans
<1>7. ~LegacyTrial'
  <2>1. Phase = "None" => files.oldManifest = NoFile
    BY <1>3, <1>5, DiskFacts, PhaseFacts
  <2> QED BY <1>1, <2>1 DEF LegacyTrial, Legacy, OldPairComplete, Phase
<1>8. Proven' = Installed /\ Trial' = NoFile
  <2>1. (stage = NoFile /\ ~OnTrial /\ ~LegacyTrial => Proven = Installed /\ Trial = NoFile)'
    BY SetsAre, PTL
  <2> QED BY <1>1, <1>4, <1>7, <2>1 DEF Installed
<1>9. SwitchStep
  <2>1. CASE job.task = "restore-stage"
    <3>1. \A e \in Logged : Current(e) = stage.saved[e]
      BY <1>2, <1>3, <2>1 DEF AtStage
    <3>2. \A e : Journaled(e) = Current(e)
      BY <3>1 DEF Journaled
    <3>3. Proven = Installed
      BY <1>3, <3>2 DEF Installed, Current
    <3> QED BY <1>3, <1>8, <3>3, Abandoned
  <2>2. CASE job.task # "restore-stage"
    <3>1. \A e \in Artifacts : Current(e) = Staged(e)
      BY <1>2, <1>3, <2>2 DEF AtStage
    <3>2. files.app = stage.app /\ main = stage.main /\ files.manifest = StagedManifest
      BY <3>1 DEF Artifacts, Current, Staged
    <3>3. Trial = Installed
      BY <1>3, <3>2 DEF Matching, Installed, StagedManifest
    <3> QED BY <1>3, <1>8, <3>3, Kept
  <2> QED BY <2>1, <2>2
<1>10. job'.at \in {"resume-main", "idle"} /\ job'.then = "reply"
  BY <1>1, <1>2, <1>3 DEF JobOK, Jobs, Idle
<1>11. TrialJob'
  BY <1>4, <1>10, ApartLands DEF Apart, Stop
<1> QED BY <1>4, <1>6, <1>9, <1>11

-----------------------------------------------------------------------------
(* A boot, with the power gone or not.                                     *)

LEMMA BootsSurvive ==
    ASSUME TrialInv, Reboot \/ PowerLoss
    PROVE  TrialDisk' /\ Orphans' /\ SwitchStep /\ TrialJob'
<1>1. /\ DeliveryInv /\ Boots
      /\ \A e \in Entries : files[e] \in unsynced[e]
  BY DEF TrialInv, DeliveryInv, DiskFits, FilesStand, Reboot, PowerLoss
<1>2. /\ UNCHANGED main /\ job' = Idle
      /\ unsynced' = [e \in Entries |-> {files'[e]}]
      /\ stage' = IF stage = NoFile THEN NoFile ELSE [stage EXCEPT !.rebooted = TRUE]
  BY <1>1 DEF Boots
<1>3. \A e \in Entries \ {"env"} : files'[e] \in unsynced[e]
  <2>1. CASE Reboot
    <3>1. files' = [files EXCEPT !.env = NoFile] /\ DOMAIN files = Entries
      BY <1>1, <2>1 DEF Reboot, DeliveryInv, DiskOK, FilesOK
    <3> QED BY <1>1, <3>1
  <2>2. CASE PowerLoss
    BY <2>2 DEF PowerLoss, Entries
  <2> QED BY <2>1, <2>2
<1>4. stage # NoFile => /\ stage' # NoFile
                        /\ stage'.app = stage.app /\ stage'.main = stage.main
                        /\ stage'.log = stage.log /\ stage'.saved = stage.saved
  <2> SUFFICES ASSUME stage # NoFile
               PROVE  /\ stage' # NoFile
                      /\ stage'.app = stage.app /\ stage'.main = stage.main
                      /\ stage'.log = stage.log /\ stage'.saved = stage.saved
    OBVIOUS
  <2>1. stage \in Stages
    BY <1>1, StageTyped DEF DeliveryInv
  <2>2. stage' \in Stages
    BY <1>2, <2>1 DEF Stages
  <2> QED BY <1>2, <2>1, <2>2, NamesAssumption DEF Stages
<1>5. Survives
  BY <1>2, <1>3, <1>4 DEF Survives
<1>6. /\ OnTrial' <=> Phase' = "Prepared"
      /\ TrialDisk' /\ Orphans' /\ SwitchStep
  BY <1>5, SurvivesOnTrial
<1>7. Stop' = "idle" /\ job'.then = "reply"
  BY <1>2 DEF Idle, Stop
<1>8. TrialJob'
  BY <1>6, <1>7, ApartLands DEF Apart
<1> QED BY <1>6, <1>8

-----------------------------------------------------------------------------
(* Every step.                                                             *)

(* A step that leaves all files but launcher.env changes neither set.      *)
LEMMA AsideSwitches ==
    ASSUME TrialInv, Aside PROVE TrialDisk' /\ Orphans' /\ SwitchStep
  BY AsideKeeps DEF TrialInv, SwitchStep

(* The step of each operation, with its lemma.                             *)
LEMMA TrialKept ==
    ASSUME HostReconciles, ~DiesUnsynced, TrialInv, FinishesDurably, Next
    PROVE  TrialDisk' /\ Orphans' /\ SwitchStep /\ TrialJob'
<1>1. CASE Request
  <2>1. CASE RestoreStage \/ FinishStage
    <3>1. UNCHANGED stage
      BY <2>1 DEF RestoreStage, FinishStage
    <3> QED BY <2>1, <3>1, PublicationsApart, AsideSwitches
  <2>2. CASE /\ HostReconciles => ~Outstanding /\ ~Legacy
             /\ \E kind \in Kinds, app \in Apps, build \in Mains : Publish(kind, app, build)
    BY <2>2, PublishBegins
  <2>3. CASE /\ \/ /\ HostReconciles => stage = NoFile
                   /\ \E app \in Apps : Upload(app)
                \/ /\ HostReconciles => ~Legacy
                   /\ StartRunning \/ StartManaged
                \/ Recover
             /\ UNCHANGED stage
    BY <2>3, RequestsApart, AsideSwitches
  <2> QED BY <1>1, <2>1, <2>2, <2>3 DEF Request
<1>2. CASE (AppStep \/ Sync) /\ UNCHANGED stage
  <2>1. CASE Sync
    BY <1>2, <2>1, SyncOnTrial, SyncLands
  <2>2. CASE SavePreparing \/ SavePrepared \/ RecoverLegacyPair
    BY <1>2, <2>2, PreparingOnTrial, PreparedOnTrial, LegacyOnTrial
  <2>3. CASE SaveReady \/ SaveRestored \/ RemoveReceipt
    BY <1>2, <2>3, ReadyOnTrial, RestoredOnTrial, ForgetKeepsTrial
  <2>4. CASE BackupStarts \/ BackupEnds \/ Drop
    BY <1>2, <2>4, BackupStartsTrial, BackupEndsTrial, DropOnTrial
  <2>5. CASE PublishApp \/ PublishManifest \/ CopyBack
    BY <1>2, <2>5, AppOnTrial, ManifestOnTrial, CopyOnTrial
  <2>6. CASE Arm \/ Launch \/ Verified \/ StartFails \/ NotFinished
             \/ RecoverVerified \/ RecoverNothing \/ RecoverOutstanding \/ Unmanage
    BY <1>2, <2>6, LeavesApart, AsideSwitches
  <2>7. CASE Resumes
    BY <1>2, <2>7, ResumesApart, AsideSwitches
  <2>8. CASE RecoverReady \/ RecoverLegacyRest \/ FinishWithoutReceipt
    BY <1>2, <2>8, CleanupApart, AsideSwitches
  <2>9. CASE Restore \/ CopiedBack \/ Dropped
    BY <1>2, <2>9, RestoresApart, AsideSwitches
  <2> QED BY <1>2, <2>1, <2>2, <2>3, <2>4, <2>5, <2>6, <2>7, <2>8, <2>9 DEF AppStep
<1>3. CASE (ReadyUnsynced => DiesUnsynced) /\ AppFails /\ UNCHANGED stage
  <2>1. CASE BackupFails
    BY <1>3, <2>1, BackupFailsTrial
  <2>2. CASE SkipFailed
    BY <1>3, <2>2, RestoresApart, AsideSwitches
  <2>3. CASE InstallFails \/ StepFails \/ StartFails
    BY <1>3, <2>3, LeavesApart, AsideSwitches
  <2> QED BY <1>3, <2>1, <2>2, <2>3 DEF AppFails
<1>4. CASE PublicationStep \/ PublicationFails
  <2>1. CASE Disarm \/ ReloadHealthy \/ Reverted \/ PublishFails \/ RevertFails
    <3>1. UNCHANGED stage
      BY <2>1 DEF Disarm, ReloadHealthy, Reverted, PublishFails, RevertFails
    <3> QED BY <2>1, <3>1, PublicationsApart, AsideSwitches
  <2>2. CASE AwaitReboot \/ ResumesMain
    <3>1. UNCHANGED stage
      BY <2>2 DEF AwaitReboot, ResumesMain
    <3> QED BY <2>2, <3>1, LeavesApart, AsideSwitches
  <2>3. CASE SaveEntry \/ Discard
    BY <2>3, SaveKeepsTrial, DiscardEnds
  <2>4. CASE ReplaceEntry \/ RevertEntry
    <3>1. UNCHANGED stage
      BY <2>4 DEF ReplaceEntry, RevertEntry
    <3> QED BY <2>4, <3>1, ReplaceKeepsTrial, RevertKeepsTrial
  <2> QED BY <1>4, <2>1, <2>2, <2>3, <2>4 DEF PublicationStep, PublicationFails
<1>5. CASE AgentDies
  <2>1. UNCHANGED stage
    BY <1>5 DEF AgentDies
  <2> QED BY <1>5, <2>1, LeavesApart, AsideSwitches
<1>6. CASE Reboot \/ PowerLoss
  BY <1>6, BootsSurvive
<1>7. CASE Environment
  <2>1. Aside /\ UNCHANGED job
    BY <1>7, EnvironmentAside DEF TrialInv
  <2> QED BY <2>1, StaysApart, AsideSwitches
<1> QED BY <1>1, <1>2, <1>3, <1>4, <1>5, <1>6, <1>7 DEF Next, Step, Fails

(* A step, or none, keeps the invariant and switches sets if at all.       *)
LEMMA TrialStep ==
    ASSUME HostReconciles, ~DiesUnsynced, TrialInv, [Next]_vars, [FinishesDurably]_vars
    PROVE  TrialInv' /\ SwitchStep
<1>1. CASE Next /\ ~UNCHANGED vars
  <2>1. DeliveryInv'
    BY <1>1, NextKeeps DEF TrialInv
  <2>2. TrialDisk' /\ Orphans' /\ SwitchStep /\ TrialJob'
    BY <1>1, TrialKept
  <2>3. ProvenBinds'
    BY <2>2, BindsKept
  <2> QED BY <2>1, <2>2, <2>3 DEF TrialInv
<1>2. CASE UNCHANGED vars
  <2>1. Aside /\ Still /\ UNCHANGED <<job, running, launcher>>
    BY <1>2 DEF vars, Aside, Still
  <2>2. DeliveryInv'
    <3>1. running' \in Mains /\ launcher' \in Launchers
      BY <2>1 DEF TrialInv, DeliveryInv, MachineOK
    <3> QED BY <2>1, <3>1, LauncherKeeps DEF TrialInv
  <2>3. TrialDisk' /\ Orphans' /\ SwitchStep /\ TrialJob'
    BY <2>1, StaysApart, AsideSwitches
  <2>4. ProvenBinds'
    BY <2>3, BindsKept
  <2> QED BY <2>2, <2>3, <2>4 DEF TrialInv
<1> QED BY <1>1, <1>2

(* At first nothing is on trial but what an older agent left.              *)
LEMMA TrialInit == ASSUME Init PROVE TrialInv /\ Switch!Init
<1>1. PICK app \in Apps, build \in Mains, lines \in Settings, first \in BOOLEAN,
           old \in Apps \union {NoFile}, gui \in Apps, whole \in BOOLEAN :
           /\ main = build /\ running = build /\ settings = lines
           /\ first => old = NoFile
           /\ ~whole => gui = app
           /\ whole => old # NoFile /\ gui \in {app, old}
           /\ files = [app |-> IF first THEN NoFile ELSE app,
                       manifest |-> [gui |-> gui, main |-> build],
                       env |-> IF lines = NoLines THEN NoFile
                               ELSE [lines |-> lines, block |-> NoFile],
                       receipt |-> NoFile, oldApp |-> old, oldEnv |-> NoFile,
                       oldManifest |-> IF whole THEN [gui |-> old, main |-> build]
                                       ELSE NoFile]
  BY DEF Init
<1>2. /\ files.app \in Apps \union {NoFile} /\ files.manifest = [gui |-> gui, main |-> build]
      /\ files.receipt = NoFile /\ files.oldApp = old
      /\ files.oldManifest = (IF whole THEN [gui |-> old, main |-> build] ELSE NoFile)
      /\ main = build
      /\ ~whole => files.app \in {NoFile, gui}
      /\ stage = NoFile /\ job = Idle
  BY <1>1 DEF Init
<1>3. /\ unsynced.app = {files.app} /\ unsynced.manifest = {files.manifest}
      /\ unsynced.receipt = {NoFile} /\ unsynced.oldManifest = {files.oldManifest}
  BY <1>2 DEF Init, Entries
<1>4. DeliveryInv
  BY InitHolds
<1>5. ~OnTrial /\ Phase = "None" /\ TrialDisk
  BY <1>2, <1>3 DEF OnTrial, Phase, TrialDisk, Settled
<1>6. whole => files.oldManifest # NoFile /\ files.oldManifest.gui = files.oldApp
               /\ files.oldManifest.main = main /\ old \in Apps
  <2>1. whole => [gui |-> old, main |-> build] \in Manifests /\ old \in Apps
    BY <1>1 DEF Manifests
  <2>2. whole => files.oldManifest = [gui |-> old, main |-> build]
    BY <1>2
  <2>3. whole => files.oldManifest.gui = old /\ files.oldManifest.main = build
    BY <2>2
  <2> QED BY <1>2, <2>1, <2>2, <2>3, NamesAssumption
<1>7. Orphans
  BY <1>2, <1>3, <1>5, <1>6 DEF Orphans, OldPairComplete
<1>8. ASSUME whole
      PROVE  Proven \in Sets /\ Trial \in Sets \union {NoFile} /\ ProvenBinds
  <2>1. LegacyTrial
    BY <1>2, <1>5, <1>6, <1>8 DEF LegacyTrial, Legacy, NoBackups, OldPairComplete
  <2>2. /\ Proven = [app |-> files.oldApp, main |-> main, manifest |-> files.oldManifest]
        /\ Trial = Matching(NoFile, main)
    BY <1>2, <1>5, <2>1, SetsAre
  <2>3. files.oldManifest = [gui |-> old, main |-> build]
    BY <1>2, <1>8
  <2>4. Proven = Matching(old, build)
    <3>1. Proven = [app |-> old, main |-> build, manifest |-> files.oldManifest]
      BY <1>2, <2>2
    <3> QED BY <2>3, <3>1 DEF Matching
  <2>5. /\ Matching(old, build) \in Sets /\ Matching(NoFile, build) \in Sets
        /\ Matching(old, build).app = old /\ Matching(old, build).main = build
        /\ Matching(old, build).manifest.gui = old
        /\ Matching(old, build).manifest.main = build
    BY <1>1, Matched
  <2>6. ProvenBinds
    BY <2>4, <2>5 DEF ProvenBinds
  <2> QED BY <1>2, <2>2, <2>4, <2>5, <2>6
<1>9. ASSUME ~whole
      PROVE  Proven \in Sets /\ Trial \in Sets \union {NoFile} /\ ProvenBinds
  <2>1. ~LegacyTrial
    BY <1>2, <1>9 DEF LegacyTrial, OldPairComplete
  <2>2. Proven = Installed /\ Trial = NoFile
    BY <1>2, <1>5, <2>1, SetsAre
  <2>3. files.manifest \in [gui : Apps \union {NoFile}, main : Mains]
    BY <1>1, <1>2
  <2>4. Installed \in Sets
    BY <1>1, <1>2, <2>3 DEF Installed, Sets
  <2>5. /\ Installed.app = files.app /\ Installed.main = main
        /\ Installed.manifest.gui = gui /\ Installed.manifest.main = build
    BY <1>2 DEF Installed
  <2>6. files.app \in {NoFile, gui} /\ main = build
    BY <1>2, <1>9
  <2>7. /\ Proven.app = files.app /\ Proven.main = main
        /\ Proven.manifest.gui = gui /\ Proven.manifest.main = build
    BY <2>2, <2>5
  <2>8. ProvenBinds
    BY <2>6, <2>7 DEF ProvenBinds
  <2> QED BY <2>2, <2>4, <2>8
<1>10. Proven \in Sets /\ Trial \in Sets \union {NoFile} /\ ProvenBinds
  BY <1>8, <1>9
<1>11. TrialJob
  BY <1>2, <1>5
     DEF TrialJob, AtPhases, AtTrial, AtReturn, AtStage, Stop, Idle
<1> QED BY <1>4, <1>5, <1>7, <1>10, <1>11 DEF TrialInv, Switch!Init

(* Nothing said of a trial needs more than the condition.                  *)
LEMMA TrialInvHolds ==
    HostReconciles /\ ~DiesUnsynced => (Spec /\ [][FinishesDurably]_vars => []TrialInv)
<1> SUFFICES ASSUME HostReconciles, ~DiesUnsynced
             PROVE  Spec /\ [][FinishesDurably]_vars => []TrialInv
  OBVIOUS
<1>1. TrialInv /\ [Next]_vars /\ [FinishesDurably]_vars => TrialInv'
  BY TrialStep
<1> QED BY <1>1, TrialInit, PTL DEF Spec

-----------------------------------------------------------------------------
(***************************************************************************)
(* Between deliveries the installed files belong together, whatever failed *)
(* or died before: publish_app and recover_app_install end a trial only    *)
(* where the application, its manifest and Main are those of one set.      *)
(* Under the condition above, like the two theorems that follow.           *)
(***************************************************************************)
THEOREM ManifestBindsCorrect ==
    HostReconciles /\ ~DiesUnsynced => (Spec /\ [][FinishesDurably]_vars => []ManifestBinds)
<1>1. TrialInv => ManifestBinds
  <2> SUFFICES ASSUME TrialInv, AtRest
               PROVE  /\ files.app \in {NoFile, files.manifest.gui}
                      /\ files.manifest.main = main
    BY DEF ManifestBinds
  <2>1. ~OnTrial /\ ~LegacyTrial /\ stage = NoFile
    BY DEF AtRest, IsIdle, Outstanding, LegacyTrial, TrialInv, TrialJob, AtPhases,
           ReadyUnsynced
  <2>2. Proven = Installed
    BY <2>1, SetsAre
  <2> QED BY <2>2 DEF TrialInv, ProvenBinds, Installed
<1> QED BY <1>1, TrialInvHolds, PTL

(***************************************************************************)
(* Whatever receipt may be found, a restoration that it asks for finds its *)
(* backups whole and belonging together ("preserves backup sources until   *)
(* all restores succeed", magik/docs/desktop-api.md).                      *)
(***************************************************************************)
THEOREM BackupsWholeCorrect ==
    HostReconciles /\ ~DiesUnsynced => (Spec /\ [][FinishesDurably]_vars => []BackupsWhole)
<1>1. TrialInv => BackupsWhole
  <2> SUFFICES ASSUME TrialInv, NEW receipt \in unsynced.receipt \ {NoFile},
                      receipt.phase = "Prepared"
               PROVE  /\ unsynced.oldManifest \subseteq Manifests
                      /\ receipt.hadApp => /\ unsynced.oldApp \subseteq Apps
                                           /\ unsynced.oldApp = {m.gui : m \in unsynced.oldManifest}
                      /\ receipt.hadEnv => unsynced.oldEnv \subseteq Envs
    BY DEF BackupsWhole, BackupsPresent, BackupsMatch
  <2>1. BackupsStand /\ receipt \in Known
    BY DEF TrialInv, TrialDisk, OnTrial, Known
  <2>2. receipt.hadApp = files.receipt.hadApp /\ receipt.hadEnv = files.receipt.hadEnv
    BY <2>1 DEF BackupsStand
  <2>3. files.oldManifest \in Manifests /\ unsynced.oldManifest = {files.oldManifest}
    BY <2>1 DEF BackupsStand
  <2>4. receipt.hadApp => unsynced.oldApp = {files.oldManifest.gui}
    BY <2>1, <2>2 DEF BackupsStand
  <2>5. files.oldManifest.gui \in Apps
    BY <2>3 DEF Manifests
  <2> QED BY <2>1, <2>2, <2>3, <2>4, <2>5 DEF BackupsStand
<1> QED BY <1>1, TrialInvHolds, PTL

(***************************************************************************)
(* Both deliveries implement TrialSwitch (Staged::publish with its         *)
(* receipt, and the publication with its journal): the set a recovery      *)
(* leads to changes in one step, to the whole new one, and else stays.     *)
(***************************************************************************)
THEOREM OneSetOrTheOtherCorrect ==
    HostReconciles /\ ~DiesUnsynced =>
        (Spec /\ [][FinishesDurably]_vars => OneSetOrTheOther)
<1> SUFFICES ASSUME HostReconciles, ~DiesUnsynced
             PROVE  Spec /\ [][FinishesDurably]_vars => OneSetOrTheOther
  OBVIOUS
<1>1. Spec /\ [][FinishesDurably]_vars => []TrialInv
  BY TrialInvHolds
<1>2. TrialInv /\ [Next]_vars /\ [FinishesDurably]_vars => [Switch!Next]_(Switch!vars)
  BY TrialStep DEF SwitchStep, Switch!vars
<1>3. Init => Switch!Init
  BY TrialInit
<1> QED BY <1>1, <1>2, <1>3, PTL DEF Spec, OneSetOrTheOther, Switch!Spec
=============================================================================
