------------------------ MODULE DeviceDeliveryProofs ------------------------
(***************************************************************************)
(* Type correctness and the safety properties of DeviceDelivery that hold  *)
(* under any number of failures, deaths of the agent and losses of power.  *)
(***************************************************************************)
EXTENDS DeviceDelivery, SequenceTheorems, TLAPS

-----------------------------------------------------------------------------
(* Sequences, by their elements.                                           *)

LEMMA HeadAndTail ==
    ASSUME NEW S, NEW s \in Seq(S), s # << >>
    PROVE  /\ Head(s) \in S /\ Tail(s) \in Seq(S)
           /\ ToSet(s) = {Head(s)} \union ToSet(Tail(s))
<1>1. /\ Head(s) = s[1] /\ Head(s) \in S /\ Tail(s) \in Seq(S)
      /\ Len(Tail(s)) = Len(s) - 1
      /\ \A i \in 1 .. Len(Tail(s)) : Tail(s)[i] = s[i + 1]
  BY HeadTailProperties
<1>2. Len(s) \in Nat /\ DOMAIN s = 1 .. Len(s) /\ DOMAIN Tail(s) = 1 .. Len(Tail(s))
  BY <1>1, LenProperties
<1>3. Len(s) # 0
  BY EmptySeq
<1>4. \A i \in DOMAIN s : i = 1 \/ (i - 1 \in DOMAIN Tail(s) /\ Tail(s)[i - 1] = s[i])
  BY <1>1, <1>2, <1>3
<1>5. \A i \in DOMAIN Tail(s) : i + 1 \in DOMAIN s /\ Tail(s)[i] = s[i + 1]
  BY <1>1, <1>2, <1>3
<1>6. ToSet(s) \subseteq {Head(s)} \union ToSet(Tail(s))
  <2>1. ASSUME NEW i \in DOMAIN s PROVE s[i] \in {Head(s)} \union ToSet(Tail(s))
    <3>1. CASE i = 1
      BY <1>1, <3>1
    <3>2. CASE i # 1
      BY <1>4, <3>2 DEF ToSet
    <3> QED BY <3>1, <3>2
  <2> QED BY <2>1 DEF ToSet
<1>7. Head(s) \in ToSet(s)
  BY <1>1, <1>2, <1>3 DEF ToSet
<1>8. ToSet(Tail(s)) \subseteq ToSet(s)
  BY <1>5 DEF ToSet
<1> QED BY <1>1, <1>6, <1>7, <1>8

LEMMA Elements == ASSUME NEW S, NEW s \in Seq(S) PROVE ToSet(s) \subseteq S
  BY LenProperties DEF ToSet

LEMMA NoElements == ToSet(<< >>) = {}
  BY DEF ToSet

LEMMA Concatenated ==
    ASSUME NEW S, NEW s \in Seq(S), NEW t \in Seq(S)
    PROVE  /\ s \o t \in Seq(S)
           /\ ToSet(s \o t) = ToSet(s) \union ToSet(t)
<1>1. /\ s \o t \in Seq(S) /\ Len(s \o t) = Len(s) + Len(t)
      /\ \A i \in 1 .. Len(s) + Len(t) :
            (s \o t)[i] = IF i <= Len(s) THEN s[i] ELSE t[i - Len(s)]
  BY ConcatProperties
<1>2. /\ Len(s) \in Nat /\ Len(t) \in Nat
      /\ DOMAIN s = 1 .. Len(s) /\ DOMAIN t = 1 .. Len(t)
      /\ DOMAIN (s \o t) = 1 .. Len(s) + Len(t)
  BY <1>1, LenProperties
<1>3. \A i \in DOMAIN (s \o t) :
          \/ i \in DOMAIN s /\ (s \o t)[i] = s[i]
          \/ i - Len(s) \in DOMAIN t /\ (s \o t)[i] = t[i - Len(s)]
  BY <1>1, <1>2
<1>4. \A i \in DOMAIN s : i \in DOMAIN (s \o t) /\ (s \o t)[i] = s[i]
  BY <1>1, <1>2
<1>5. \A i \in DOMAIN t : i + Len(s) \in DOMAIN (s \o t) /\ (s \o t)[i + Len(s)] = t[i]
  BY <1>1, <1>2
<1>6. ToSet(s \o t) \subseteq ToSet(s) \union ToSet(t)
  BY <1>3 DEF ToSet
<1>7. ToSet(s) \subseteq ToSet(s \o t)
  BY <1>4 DEF ToSet
<1>8. ToSet(t) \subseteq ToSet(s \o t)
  BY <1>5 DEF ToSet
<1> QED BY <1>1, <1>6, <1>7, <1>8

LEMMA Single ==
    ASSUME NEW S, NEW e \in S PROVE <<e>> \in Seq(S) /\ ToSet(<<e>>) = {e}
<1>1. <<e>> \in Seq(S) /\ Len(<<e>>) = 1 /\ <<e>>[1] = e
  OBVIOUS
<1>2. DOMAIN <<e>> = {1}
  OBVIOUS
<1>3. ToSet(<<e>>) = {<<e>>[i] : i \in {1}}
  BY <1>2 DEF ToSet
<1> QED BY <1>1, <1>3

LEMMA Reversed ==
    ASSUME NEW S, NEW s \in Seq(S)
    PROVE  Reverse(s) \in Seq(S) /\ ToSet(Reverse(s)) = ToSet(s)
<1>1. Len(s) \in Nat /\ DOMAIN s = 1 .. Len(s) /\ \A i \in DOMAIN s : s[i] \in S
  BY LenProperties
<1>2. DOMAIN Reverse(s) = DOMAIN s /\ \A i \in DOMAIN s : Reverse(s)[i] = s[Len(s) - i + 1]
  BY <1>1 DEF Reverse
<1>3. \A i \in DOMAIN s : Len(s) - i + 1 \in DOMAIN s /\ Len(s) - (Len(s) - i + 1) + 1 = i
  BY <1>1
<1>4. Reverse(s) \in Seq(S)
  BY <1>1, <1>3, IsASeq DEF Reverse
<1>5. ToSet(Reverse(s)) \subseteq ToSet(s)
  BY <1>2, <1>3 DEF ToSet
<1>6. ToSet(s) \subseteq ToSet(Reverse(s))
  <2>1. ASSUME NEW i \in DOMAIN s PROVE s[i] \in ToSet(Reverse(s))
    <3>1. Reverse(s)[Len(s) - i + 1] = s[i] /\ Len(s) - i + 1 \in DOMAIN Reverse(s)
      BY <1>2, <1>3
    <3> QED BY <3>1 DEF ToSet
  <2> QED BY <2>1 DEF ToSet
<1> QED BY <1>4, <1>5, <1>6

LEMMA Appended ==
    ASSUME NEW S, NEW s \in Seq(S), NEW e \in S
    PROVE  Append(s, e) \in Seq(S) /\ ToSet(Append(s, e)) = ToSet(s) \union {e}
<1>1. /\ Append(s, e) \in Seq(S) /\ Len(Append(s, e)) = Len(s) + 1
      /\ \A i \in 1 .. Len(s) : Append(s, e)[i] = s[i]
      /\ Append(s, e)[Len(s) + 1] = e
  BY AppendProperties
<1>2. /\ Len(s) \in Nat /\ DOMAIN s = 1 .. Len(s)
      /\ DOMAIN Append(s, e) = 1 .. Len(s) + 1
  BY <1>1, LenProperties
<1>3. \A i \in DOMAIN Append(s, e) : i \in DOMAIN s \/ i = Len(s) + 1
  BY <1>2
<1>4. \A i \in DOMAIN s : i \in DOMAIN Append(s, e)
  BY <1>2
<1>5. Len(s) + 1 \in DOMAIN Append(s, e)
  BY <1>2
<1> QED BY <1>1, <1>2, <1>3, <1>4, <1>5 DEF ToSet

-----------------------------------------------------------------------------
(* The files.                                                              *)

Old == {"oldApp", "oldManifest", "oldEnv"}

Originators == {"manifest", "app", "env"}

FilesOK == DOMAIN files = Entries /\ \A e \in Entries : files[e] \in FileOf[e]

UnsyncedOK ==
    DOMAIN unsynced = Entries /\ \A e \in Entries : unsynced[e] \subseteq FileOf[e]

DiskOK == FilesOK /\ UnsyncedOK

LEMMA PutKeeps ==
    ASSUME DiskOK, NEW e \in Entries, NEW f \in FileOf[e], Put(e, f)
    PROVE  /\ DiskOK'
           /\ files'[e] = f /\ unsynced'[e] = unsynced[e] \union {f}
           /\ \A x \in Entries \ {e} : files'[x] = files[x] /\ unsynced'[x] = unsynced[x]
  BY DEF DiskOK, FilesOK, UnsyncedOK, Put

LEMMA SyncKeeps ==
    ASSUME DiskOK, unsynced' = [e \in Entries |-> {files'[e]}], FilesOK' PROVE DiskOK'
  BY DEF DiskOK, FilesOK, UnsyncedOK

LEMMA FileTypes ==
    /\ FileOf["app"] = Apps \union {NoFile} /\ FileOf["manifest"] = Manifests
    /\ FileOf["env"] = Envs \union {NoFile} /\ FileOf["receipt"] = Receipts \union {NoFile}
    /\ FileOf["oldApp"] = Apps \union {NoFile, Torn}
    /\ FileOf["oldManifest"] = Manifests \union {NoFile, Torn}
    /\ FileOf["oldEnv"] = Envs \union {NoFile, Torn}
    /\ Entries = Old \union Originators \union {"receipt"}
    /\ \A e \in Old : NoFile \in FileOf[e] /\ Torn \in FileOf[e]
    /\ \A e \in Originators : Backup[e] \in Old /\ FileOf[e] \subseteq FileOf[Backup[e]]
  BY DEF FileOf, Entries, Old, Originators, Backup

LEMMA BlockKeepsLines ==
    ASSUME NEW env \in Envs \union {NoFile}, NEW block \in Apps \union {NoFile}
    PROVE  /\ WithBlock(env, block) \in Envs \union {NoFile}
           /\ Lines(WithBlock(env, block)) = Lines(env)
  BY NamesAssumption, SettingsAssumption DEF WithBlock, Lines, Envs

-----------------------------------------------------------------------------
(* The invariant.  First the disk, at any time.                            *)

Clean == \A e \in Old : files[e] = NoFile

(* Losing power may leave what is there.                                   *)
FilesStand == \A e \in Entries : files[e] \in unsynced[e]

(* A backup whose writing has not ended is none that a receipt promises.   *)
TornUnpromised ==
    \A e \in Old, receipt \in unsynced.receipt :
        Torn \in unsynced[e] =>
            receipt # NoFile /\ receipt.phase \in {"Preparing", "Restored", "Ready"}

(* Where there may be no receipt, a backup is one of an older agent: whole *)
(* and synced as long as it is there, and never of launcher.env.           *)
UnreceiptedSettled ==
    NoFile \in unsynced.receipt =>
        /\ unsynced.oldEnv = {NoFile}
        /\ \A e \in Old : files[e] # NoFile => unsynced[e] = {files[e]}

DiskFits == FilesStand /\ TornUnpromised /\ UnreceiptedSettled

(* Where the job is, or goes after the directory is synced.                *)
Stop == IF job.at = "sync" THEN job.to ELSE job.at

Left == ToSet(job.todo)

MayInstall == Clean /\ Phase \in {"None", "Ready"}

(* Then what holds at each place of a job.                                 *)
AtInstall ==
    /\ job.then = "install" \/ Stop \in {"install", "backup", "copying", "app", "manifest"}
          => job.build \in Apps
    /\ Stop = "install" => MayInstall
    /\ Stop = "resume" /\ job.then = "install" => job.failed \/ MayInstall
    /\ job.at = "idle" \/ Stop = "undo" => job.then = "reply"

(* Backups are made under a durable receipt that promises none; those that *)
(* are not left to do are whole, on disk too.                              *)
BackedUp ==
    /\ \A receipt \in unsynced.receipt : receipt # NoFile /\ receipt.phase = "Preparing"
    /\ \A e \in Originators :
           Torn \in unsynced[Backup[e]] => job.at = "copying" /\ e = Head(job.todo)
    /\ "manifest" \notin Left => unsynced.oldManifest \subseteq Manifests
    /\ files.receipt.hadApp /\ "app" \notin Left => unsynced.oldApp \subseteq Apps
    /\ files.receipt.hadEnv /\ "env" \notin Left => unsynced.oldEnv \subseteq Envs

AtBackup ==
    /\ Stop \in {"backup", "copying"} =>
          /\ Left \subseteq Originators /\ Phase = "Preparing"
          /\ files.receipt.hadApp => files.app # NoFile
          /\ files.receipt.hadEnv => files.env # NoFile
    /\ Stop \in {"backup", "copying"} /\ job.at = "sync" =>
          /\ Stop = "backup" /\ Clean /\ "manifest" \in Left
          /\ files.receipt.hadApp => "app" \in Left
          /\ files.receipt.hadEnv => "env" \in Left
    /\ job.at \in {"backup", "copying"} => BackedUp
    /\ Stop = "copying" => job.todo # << >>

AtRestore ==
    /\ Stop = "copy" => Left \subseteq Originators /\ Phase = "Prepared"
    /\ Stop \in {"restore", "restored"} => Phase \in {"Preparing", "Prepared", "Restored"}
    /\ Stop \in {"restore", "copy", "restored"} => job.task = "restore"

AtCleanup ==
    /\ Stop = "finish" => job.task = "finish"
    /\ Stop = "drop" =>
          /\ Left \subseteq Old
          /\ IF job.task = "restore" THEN Phase = "Restored" ELSE Phase \in {"None", "Ready"}
          /\ job.failed \/ \A e \in Old \ Left : files[e] = NoFile
    /\ Stop = "forget" => Phase = "Restored" /\ Clean
    /\ job.at = "forget" => \A e \in Old : unsynced[e] = {NoFile}
    /\ Stop = "unmanage" => Phase = "None" /\ Clean

ArtifactOf == [main |-> Mains, app |-> Apps \union {NoFile}, manifest |-> Manifests]

AtPublication ==
    /\ Stop \in {"disarm", "save", "replace", "revert", "discard", "resume-main"} =>
           job.then = "reply"
    /\ stage # NoFile => \A e \in Logged : stage.saved[e] \in ArtifactOf[e]
    /\ Stop \in {"disarm", "save", "replace"} => stage # NoFile /\ Left \subseteq Artifacts
    /\ Stop = "revert" => stage # NoFile /\ Left \subseteq Logged
    /\ Stop = "replace" => job.todo # << >>

JobFits == AtInstall /\ AtBackup /\ AtRestore /\ AtCleanup /\ AtPublication

JobOK == job \in Jobs

StageOK == stage \in Stages \union {NoFile}

Launchers == [active : BOOLEAN, app : Apps \union {NoFile}, ready : BOOLEAN,
              block : Apps \union {NoFile}]

MachineOK ==
    main \in Mains /\ running \in Mains /\ settings \in Settings /\ launcher \in Launchers

DeliveryInv == DiskOK /\ MachineOK /\ JobOK /\ StageOK /\ SettingsKept /\ DiskFits /\ JobFits

-----------------------------------------------------------------------------
(* The job.                                                                *)

LEMMA Names ==
    /\ "idle" \in Places /\ "sync" \in Places /\ "recover" \in Places /\ "undo" \in Places
    /\ "install" \in Places /\ "backup" \in Places /\ "copying" \in Places
    /\ "app" \in Places /\ "manifest" \in Places /\ "arm" \in Places
    /\ "launch" \in Places /\ "await" \in Places /\ "finish" \in Places
    /\ "restore" \in Places /\ "copy" \in Places /\ "restored" \in Places
    /\ "drop" \in Places /\ "forget" \in Places /\ "unmanage" \in Places
    /\ "resume" \in Places /\ "disarm" \in Places /\ "save" \in Places
    /\ "replace" \in Places /\ "discard" \in Places /\ "revert" \in Places
    /\ "resume-main" \in Places
    /\ "none" \in Tasks /\ "install" \in Tasks /\ "finish" \in Tasks
    /\ "cleanup" \in Tasks /\ "restore" \in Tasks /\ "publish" \in Tasks
    /\ "restore-stage" \in Tasks /\ "finish-stage" \in Tasks
  BY DEF Places, Tasks

LEMMA IdleTyped == Idle \in Jobs
  BY EmptySeq DEF Jobs, Idle, Places, Tasks

LEMMA CleanupTyped == Backups \in Seq(Entries \union Artifacts) /\ ToSet(Backups) = Old
  BY DEF Backups, Old, ToSet, Entries, Artifacts

LEMMA ReplacedTyped ==
    ASSUME NEW kind \in Kinds
    PROVE  /\ Replaced(kind) \in Seq(Entries \union Artifacts)
           /\ ToSet(Replaced(kind)) \subseteq Artifacts
           /\ "manifest" \in ToSet(Replaced(kind))
<1>1. CASE kind = "platform"
  BY <1>1 DEF Replaced, ToSet, Entries, Artifacts
<1>2. CASE kind # "platform"
  BY <1>2 DEF Replaced, ToSet, Entries, Artifacts
<1> QED BY <1>1, <1>2

LEMMA OriginalsTyped ==
    ASSUME NEW receipt
    PROVE  /\ Originals(receipt) \in Seq(Originators)
           /\ "manifest" \in ToSet(Originals(receipt))
           /\ receipt.hadApp => "app" \in ToSet(Originals(receipt))
           /\ receipt.hadEnv => "env" \in ToSet(Originals(receipt))
<1> DEFINE manifest == <<"manifest">>
           app == If(receipt.hadApp, "app")
           env == If(receipt.hadEnv, "env")
<1>1. manifest \in Seq(Originators) /\ ToSet(manifest) = {"manifest"}
  BY Single DEF Originators
<1>2. app \in Seq(Originators) /\ (receipt.hadApp => ToSet(app) = {"app"})
  BY Single, EmptySeq DEF If, Originators
<1>3. env \in Seq(Originators) /\ (receipt.hadEnv => ToSet(env) = {"env"})
  BY Single, EmptySeq DEF If, Originators
<1> DEFINE both == manifest \o app
<1>4. Originals(receipt) = both \o env
  BY DEF Originals
<1> HIDE DEF manifest, app, env
<1>5. both \in Seq(Originators) /\ ToSet(both) = ToSet(manifest) \union ToSet(app)
  BY <1>1, <1>2, Concatenated
<1> HIDE DEF both
<1>6. both \o env \in Seq(Originators) /\ ToSet(both \o env) = ToSet(both) \union ToSet(env)
  BY <1>3, <1>5, Concatenated
<1> QED BY <1>1, <1>2, <1>3, <1>4, <1>5, <1>6

LEMMA RestorationsTyped ==
    ASSUME NEW receipt PROVE Restorations(receipt) \in Seq(Originators)
<1> DEFINE app == If(~receipt.hadApp, "app")
           env == If(~receipt.hadEnv /\ ~receipt.preserveEnv, "env")
<1>1. app \in Seq(Originators) /\ env \in Seq(Originators)
  BY Single, EmptySeq DEF If, Originators
<1>2. Restorations(receipt) = (Originals(receipt) \o app) \o env
  BY DEF Restorations
<1> HIDE DEF app, env
<1>3. Originals(receipt) \o app \in Seq(Originators)
  BY <1>1, OriginalsTyped, Concatenated
<1> QED BY <1>1, <1>2, <1>3, Concatenated

LEMMA TodoShrinks ==
    ASSUME JobOK, job.todo # << >>
    PROVE  /\ Head(job.todo) \in ToSet(job.todo)
           /\ Tail(job.todo) \in Seq(Entries \union Artifacts)
           /\ ToSet(Tail(job.todo)) \subseteq ToSet(job.todo)
           /\ ToSet(job.todo) \subseteq {Head(job.todo)} \union ToSet(Tail(job.todo))
  BY HeadAndTail DEF JobOK, Jobs

-----------------------------------------------------------------------------
(* Steps that leave the disk as it is.                                     *)

Still == UNCHANGED <<files, unsynced, settings, main, stage>>

(* Places where nothing more is asked of the disk.                         *)
Harmless ==
    {"idle", "recover", "undo", "arm", "launch", "await", "finish", "resume", "discard",
     "resume-main"}

LEMMA StillKeeps ==
    ASSUME DeliveryInv, Still
    PROVE  DiskOK' /\ StageOK' /\ SettingsKept' /\ DiskFits'
  BY DEF DeliveryInv, Still, DiskOK, FilesOK, UnsyncedOK, StageOK, SettingsKept, DiskFits,
         FilesStand, TornUnpromised, UnreceiptedSettled

LEMMA Elsewhere ==
    ASSUME DeliveryInv, Still, job'.at \in Harmless,
           job'.then = "install" => job'.build \in Apps,
           job'.at \in {"idle", "undo", "discard", "resume-main"} => job'.then = "reply",
           job'.at = "finish" => job'.task = "finish",
           job'.at = "resume" /\ job'.then = "install" => job'.failed \/ MayInstall
    PROVE  JobFits'
<1>1. Stop' = job'.at
  BY DEF Stop, Harmless
<1>2. MayInstall' <=> MayInstall
  BY DEF MayInstall, Clean, Phase, Still
<1>3. stage' # NoFile => \A e \in Logged' : stage'.saved[e] \in ArtifactOf[e]
  BY DEF Still, DeliveryInv, JobFits, AtPublication, Logged
<1>4. AtInstall'
  BY <1>1, <1>2 DEF AtInstall, Harmless
<1> QED BY <1>1, <1>3, <1>4
        DEF JobFits, AtBackup, AtRestore, AtCleanup, AtPublication, Harmless

(* Requests that find the agent idle.                                      *)
LEMMA RequestsKeep ==
    ASSUME DeliveryInv, UNCHANGED stage,
           \/ \E app \in Apps : Upload(app)
           \/ StartRunning \/ Recover
    PROVE  JobOK' /\ JobFits'
<1>1. Still
  BY DEF Still, disk, Upload, StartRunning, Recover
<1>2. CASE \E app \in Apps : Upload(app)
  <2>1. PICK app \in Apps : job' = [Idle EXCEPT !.at = "recover", !.then = "install",
                                                !.build = app]
    BY <1>2 DEF Upload
  <2>2. JobOK' /\ job'.at = "recover" /\ job'.build = app
    BY <2>1, Names, IdleTyped DEF JobOK, Jobs
  <2> QED BY <1>1, <2>2, Elsewhere DEF Harmless
<1>3. CASE StartRunning \/ Recover
  <2>1. /\ JobOK' /\ job'.then = "reply"
        /\ job'.at = "recover" \/ (job'.at = "finish" /\ job'.task = "finish")
    BY <1>3, Names, IdleTyped DEF StartRunning, Recover, JobOK, Jobs, Idle
  <2> QED BY <1>1, <2>1, Elsewhere DEF Harmless
<1> QED BY <1>2, <1>3

(* Steps that go where nothing is asked of the disk.                       *)
LEMMA LeavesKeep ==
    ASSUME DeliveryInv, UNCHANGED stage,
           \/ InstallFails \/ Launch \/ Verified \/ StartFails \/ NotFinished
           \/ RecoverVerified \/ RecoverNothing \/ StepFails
           \/ AwaitReboot \/ ReloadHealthy \/ Reverted \/ ResumesMain \/ AgentDies
    PROVE  JobOK' /\ JobFits'
<1>1. Still
  BY DEF Still, disk, InstallFails, Launch, Verified, StartFails, NotFinished,
         RecoverVerified, RecoverNothing, StepFails, AwaitReboot, ReloadHealthy, Reverted,
         ResumesMain, AgentDies
<1>2. /\ JobOK
      /\ job.then = "install" => job.build \in Apps
      /\ job.at \in {"undo", "save", "revert"} => job.then = "reply"
  BY DEF DeliveryInv, JobFits, AtInstall, AtPublication, Stop
<1>3. CASE InstallFails
  <2>1. JobOK' /\ job'.at = "undo" /\ job'.then = "reply"
    BY <1>2, <1>3, Names DEF InstallFails, ToUndo, JobOK, Jobs
  <2> QED BY <1>1, <2>1, Elsewhere DEF Harmless
<1>4. CASE Launch \/ StartFails
  <2>1. JobOK' /\ job'.at \in {"await", "recover"}
        /\ job'.then = job.then /\ job'.build = job.build
    BY <1>2, <1>4, Names DEF Launch, StartFails, Goto, JobOK, Jobs
  <2> QED BY <1>1, <1>2, <2>1, Elsewhere DEF Harmless
<1>5. CASE Verified \/ RecoverVerified
  <2>1. JobOK' /\ job'.at = "finish" /\ job'.task = "finish"
        /\ job'.then = job.then /\ job'.build = job.build
    BY <1>2, <1>5, Names DEF Verified, RecoverVerified, JobOK, Jobs
  <2> QED BY <1>1, <1>2, <2>1, Elsewhere DEF Harmless
<1>6. CASE NotFinished \/ StepFails
  <2>1. JobOK' /\ job'.at = "resume" /\ job'.failed
        /\ job'.then = job.then /\ job'.build = job.build
    BY <1>2, <1>6, Names DEF NotFinished, StepFails, JobOK, Jobs
  <2> QED BY <1>1, <1>2, <2>1, Elsewhere DEF Harmless
<1>7. CASE RecoverNothing
  <2>1. JobOK' /\ job'.at = "resume" /\ job'.then = job.then /\ job'.build = job.build
    BY <1>2, <1>7, Names DEF RecoverNothing, Goto, JobOK, Jobs
  <2>2. job.at = "recover" => MayInstall
    <3>1. files.receipt \in unsynced.receipt /\ files.oldEnv \in unsynced.oldEnv
      BY DEF DeliveryInv, DiskFits, FilesStand, Entries
    <3>2. job.at = "recover" => Phase = "None" /\ NoBackups
      BY <1>7 DEF RecoverNothing
    <3>3. Phase = "None" => files.receipt = NoFile
      BY DEF Phase, DeliveryInv, DiskOK, FilesOK, FileOf, Entries, Receipts, Phases
    <3> QED BY <3>1, <3>2, <3>3
            DEF MayInstall, Clean, Old, NoBackups, DeliveryInv, DiskFits, UnreceiptedSettled
  <2> QED BY <1>1, <1>2, <1>7, <2>1, <2>2, Elsewhere DEF Harmless, RecoverNothing
<1>8. CASE AwaitReboot \/ AgentDies \/ ResumesMain
  <2>1. job' = Idle
    BY <1>8 DEF AwaitReboot, AgentDies, ResumesMain
  <2>2. JobOK' /\ job'.at = "idle" /\ job'.then = "reply"
    BY <2>1, IdleTyped DEF JobOK, Idle
  <2> QED BY <1>1, <2>2, Elsewhere DEF Harmless
<1>9. CASE ReloadHealthy \/ Reverted
  <2>1. JobOK' /\ job'.at \in {"discard", "resume-main"}
        /\ job'.then = job.then /\ job'.build = job.build
    <3>1. Goto("discard") \/ Goto("resume-main")
      BY <1>9 DEF ReloadHealthy, Reverted
    <3> QED BY <1>2, <3>1, Names DEF Goto, JobOK, Jobs
  <2>2. job.then = "reply"
    BY <1>2, <1>9 DEF ReloadHealthy, Reverted
  <2> QED BY <1>1, <1>2, <2>1, <2>2, Elsewhere DEF Harmless
<1> QED BY <1>3, <1>4, <1>5, <1>6, <1>7, <1>8, <1>9

(* Steps of a restoration or a cleanup that leave the disk.                *)
LEMMA Lands ==
    ASSUME DeliveryInv, Still, job'.then = job.then, job'.build = job.build,
           Stop' \in {"restore", "copy", "restored", "drop", "forget"},
           AtRestore', AtCleanup'
    PROVE  JobFits'
<1>1. stage' # NoFile => \A e \in Logged' : stage'.saved[e] \in ArtifactOf[e]
  BY DEF Still, DeliveryInv, JobFits, AtPublication, Logged
<1>2. AtInstall'
  BY DEF DeliveryInv, JobFits, AtInstall, Stop
<1>3. job'.at \notin {"backup", "copying"}
  BY DEF Stop
<1> QED BY <1>1, <1>2, <1>3 DEF JobFits, AtBackup, AtPublication

LEMMA CleanupStarts ==
    ASSUME DeliveryInv,
           UNCHANGED stage, RecoverReady \/ FinishWithoutReceipt \/ RecoverLegacyRest
    PROVE  JobOK' /\ JobFits'
<1>1. Still /\ JobOK /\ Phase' = Phase
  BY DEF Still, disk, RecoverReady, FinishWithoutReceipt, RecoverLegacyRest, DeliveryInv,
         Phase
<1>2. job.at \notin {"sync", "drop"} /\ Phase \in {"None", "Ready"}
  BY DEF RecoverReady, FinishWithoutReceipt, RecoverLegacyRest, Phase
<1>3. /\ job.then = "install" => job.build \in Apps
  BY DEF DeliveryInv, JobFits, AtInstall
<1>4. ASSUME NEW task \in {"cleanup", job.task}, task # "restore",
             job' = [ToCleanup EXCEPT !.task = task]
      PROVE  JobOK' /\ JobFits'
  <2>1. /\ JobOK' /\ job'.at = "drop" /\ job'.task = task /\ job'.todo = Backups
        /\ job'.then = job.then /\ job'.build = job.build
    <3>1. "drop" \in Places /\ task \in Tasks
      BY <1>1, Names DEF JobOK, Jobs
    <3> QED BY <1>1, <1>4, <3>1, CleanupTyped DEF ToCleanup, JobOK, Jobs
  <2>2. Left' = Old
    BY <2>1, CleanupTyped DEF Left
  <2>3. AtCleanup'
    BY <1>1, <1>2, <1>4, <2>1, <2>2 DEF AtCleanup, Stop
  <2>4. AtRestore'
    BY <2>1 DEF AtRestore, Stop
  <2> QED BY <1>1, <2>1, <2>3, <2>4, Lands DEF Stop
<1>5. CASE RecoverReady
  BY <1>4, <1>5 DEF RecoverReady
<1>6. CASE FinishWithoutReceipt
  <2>1. job.task # "restore"
    BY <1>6 DEF FinishWithoutReceipt, DeliveryInv, JobFits, AtCleanup, Stop
  <2>2. job' = [ToCleanup EXCEPT !.task = job.task]
    BY <1>1, <1>6 DEF FinishWithoutReceipt, ToCleanup, JobOK, Jobs
  <2> QED BY <1>4, <2>1, <2>2
<1>7. CASE RecoverLegacyRest
  <2>1. CASE job' = [ToCleanup EXCEPT !.task = "cleanup"]
    BY <1>4, <2>1
  <2>2. CASE job' = [job EXCEPT !.at = "resume", !.failed = TRUE]
    <3>1. /\ JobOK' /\ job'.at = "resume" /\ job'.failed
          /\ job'.then = job.then /\ job'.build = job.build
      BY <1>1, <2>2, Names DEF JobOK, Jobs
    <3> QED BY <1>1, <1>3, <3>1, Elsewhere DEF Harmless
  <2> QED BY <1>7, <2>1, <2>2 DEF RecoverLegacyRest
<1> QED BY <1>5, <1>6, <1>7

LEMMA RestorationsMove ==
    ASSUME DeliveryInv,
           UNCHANGED stage, RecoverOutstanding \/ Restore \/ CopiedBack \/ SkipFailed \/ Dropped
    PROVE  JobOK' /\ JobFits'
<1>1. Still /\ JobOK /\ Phase' = Phase
  BY DEF Still, disk, RecoverOutstanding, Restore, CopiedBack, SkipFailed, Dropped,
         DeliveryInv, Phase
<1>2. Phase \in {"None", "Preparing", "Prepared", "Restored", "Ready"}
  BY NamesAssumption
     DEF Phase, DeliveryInv, DiskOK, FilesOK, FileOf, Entries, Receipts, Phases
<1>3. /\ job.then = "install" => job.build \in Apps
      /\ AtRestore /\ AtCleanup
  BY DEF DeliveryInv, JobFits, AtInstall
<1>4. ASSUME NEW at \in Places, SyncThen(at)
      PROVE  /\ JobOK' /\ job'.at = "sync" /\ Stop' = at /\ Left' = Left
             /\ job'.then = job.then /\ job'.build = job.build
             /\ job'.failed = job.failed /\ job'.task = job.task
  BY <1>1, <1>4, Names DEF SyncThen, JobOK, Jobs, Stop, Left
<1>5. CASE RecoverOutstanding
  <2>1. /\ JobOK' /\ job'.at = "restore" /\ job'.task = "restore"
        /\ job'.then = job.then /\ job'.build = job.build
    BY <1>1, <1>5, Names DEF RecoverOutstanding, ToRestore, JobOK, Jobs
  <2>2. AtRestore' /\ AtCleanup'
    BY <1>1, <1>2, <1>5, <2>1 DEF AtRestore, AtCleanup, Stop, RecoverOutstanding
  <2> QED BY <1>1, <2>1, <2>2, Lands DEF Stop
<1>6. CASE Restore
  <2>1. CASE Phase = "Prepared"
    <3>1. Restorations(files.receipt) \in Seq(Originators)
      BY RestorationsTyped
    <3>2. Restorations(files.receipt) \in Seq(Entries \union Artifacts)
      BY <3>1, SeqMonotonic DEF Originators, Entries
    <3>3. /\ JobOK' /\ job'.at = "copy" /\ job'.todo = Restorations(files.receipt)
          /\ job'.task = job.task /\ job.at = "restore"
          /\ job'.then = job.then /\ job'.build = job.build
      BY <1>1, <1>6, <2>1, <3>2, Names DEF Restore, JobOK, Jobs
    <3>4. Left' \subseteq Originators
      BY <3>1, <3>3, Elements DEF Left
    <3>5. AtRestore' /\ AtCleanup'
      BY <1>1, <1>3, <2>1, <3>3, <3>4 DEF AtRestore, AtCleanup, Stop
    <3> QED BY <1>1, <3>3, <3>5, Lands DEF Stop
  <2>2. CASE Phase # "Prepared"
    <3>1. job.at = "restore" /\ job' = [job EXCEPT !.at = "sync", !.to = "restored"]
      BY <1>6, <2>2 DEF Restore
    <3>2. JobOK' /\ Stop' = "restored" /\ job'.at = "sync" /\ job'.task = job.task
          /\ job'.then = job.then /\ job'.build = job.build
      BY <1>4, <3>1, Names DEF SyncThen
    <3>3. AtRestore' /\ AtCleanup'
      BY <1>1, <1>3, <3>1, <3>2 DEF AtRestore, AtCleanup, Stop
    <3> QED BY <1>1, <3>2, <3>3, Lands
  <2> QED BY <2>1, <2>2
<1>7. CASE CopiedBack
  <2>1. CASE job.failed
    <3>1. /\ JobOK' /\ job'.at = "resume" /\ job'.failed
          /\ job'.then = job.then /\ job'.build = job.build
      BY <1>1, <1>7, <2>1, Names DEF CopiedBack, Goto, JobOK, Jobs
    <3> QED BY <1>1, <1>3, <3>1, Elsewhere DEF Harmless
  <2>2. CASE ~job.failed
    <3>1. job.at = "copy" /\ SyncThen("restored")
      BY <1>7, <2>2 DEF CopiedBack
    <3>2. JobOK' /\ Stop' = "restored" /\ job'.at = "sync" /\ job'.task = job.task
          /\ job'.then = job.then /\ job'.build = job.build
      BY <1>4, <3>1, Names
    <3>3. AtRestore' /\ AtCleanup'
      BY <1>1, <1>3, <3>1, <3>2 DEF AtRestore, AtCleanup, Stop
    <3> QED BY <1>1, <3>2, <3>3, Lands
  <2> QED BY <2>1, <2>2
<1>8. CASE SkipFailed
  <2>1. job.at \in {"copy", "drop"} /\ job.todo # << >>
        /\ job' = [job EXCEPT !.todo = Tail(@), !.failed = TRUE]
    BY <1>8 DEF SkipFailed
  <2>2. Tail(job.todo) \in Seq(Entries \union Artifacts)
        /\ ToSet(Tail(job.todo)) \subseteq ToSet(job.todo)
    BY <1>1, <2>1, TodoShrinks
  <2>3. /\ JobOK' /\ job'.at = job.at /\ job'.todo = Tail(job.todo) /\ job'.failed
        /\ job'.then = job.then /\ job'.build = job.build /\ job'.task = job.task
    BY <1>1, <2>1, <2>2 DEF JobOK, Jobs
  <2>4. Left' \subseteq Left /\ Stop' = job.at /\ Stop = job.at
    BY <2>1, <2>2, <2>3 DEF Left, Stop
  <2>5. AtRestore' /\ AtCleanup'
    BY <1>1, <1>3, <2>1, <2>3, <2>4 DEF AtRestore, AtCleanup
  <2> QED BY <1>1, <2>1, <2>3, <2>4, <2>5, Lands
<1>9. CASE Dropped
  <2>1. job.at = "drop" /\ Left = {}
    BY <1>9, NoElements DEF Dropped, Left
  <2>2. CASE job.task = "restore" /\ ~job.failed
    <3>1. SyncThen("forget")
      BY <1>9, <2>2 DEF Dropped
    <3>2. JobOK' /\ Stop' = "forget" /\ job'.at = "sync"
          /\ job'.then = job.then /\ job'.build = job.build
      BY <1>4, <3>1, Names
    <3>3. Phase = "Restored" /\ Clean
      BY <1>3, <2>1, <2>2 DEF AtCleanup, Stop, Clean
    <3>4. AtRestore' /\ AtCleanup'
      BY <1>1, <3>2, <3>3 DEF AtRestore, AtCleanup, Clean, Still
    <3> QED BY <1>1, <3>2, <3>4, Lands
  <2>3. CASE ~(job.task = "restore" /\ ~job.failed)
    <3>1. SyncThen("resume")
      BY <1>9, <2>3 DEF Dropped
    <3>2. JobOK' /\ Stop' = "resume" /\ job'.at = "sync" /\ job'.failed = job.failed
          /\ job'.then = job.then /\ job'.build = job.build
      BY <1>4, <3>1, Names
    <3>3. job.failed \/ MayInstall
      BY <1>3, <2>1, <2>3 DEF AtCleanup, Stop, Clean, MayInstall
    <3>4. job'.failed \/ MayInstall'
      BY <1>1, <3>2, <3>3 DEF MayInstall, Clean, Still
    <3>5. AtInstall'
      BY <1>3, <3>2, <3>4 DEF AtInstall
    <3>6. stage' # NoFile => \A e \in Logged' : stage'.saved[e] \in ArtifactOf[e]
      BY <1>1 DEF Still, DeliveryInv, JobFits, AtPublication, Logged
    <3>7. AtBackup' /\ AtRestore' /\ AtCleanup' /\ AtPublication'
      BY <3>2, <3>6 DEF AtBackup, AtRestore, AtCleanup, AtPublication
    <3> QED BY <3>2, <3>5, <3>7 DEF JobFits
  <2> QED BY <2>2, <2>3
<1> QED BY <1>5, <1>6, <1>7, <1>8, <1>9

LEMMA ResumesKeep ==
    ASSUME DeliveryInv, UNCHANGED stage, Resumes PROVE JobOK' /\ JobFits'
<1>1. Still /\ JobOK /\ AtInstall /\ job.at = "resume"
  BY DEF Still, disk, Resumes, DeliveryInv, JobFits
<1>2. CASE job.then = "install" /\ ~job.failed
  <2>1. job.build \in Apps /\ MayInstall
    BY <1>1, <1>2 DEF AtInstall, Stop
  <2>2. job' = [Idle EXCEPT !.at = "install", !.build = job.build, !.task = "install"]
    BY <1>2 DEF Resumes
  <2>3. JobOK' /\ job'.at = "install" /\ job'.build = job.build
    BY <2>1, <2>2, Names, IdleTyped DEF JobOK, Jobs
  <2>4. MayInstall'
    BY <1>1, <2>1 DEF MayInstall, Clean, Phase, Still
  <2>5. AtInstall'
    BY <2>1, <2>3, <2>4 DEF AtInstall, Stop
  <2>6. stage' # NoFile => \A e \in Logged' : stage'.saved[e] \in ArtifactOf[e]
    BY <1>1 DEF Still, DeliveryInv, JobFits, AtPublication, Logged
  <2>7. AtBackup' /\ AtRestore' /\ AtCleanup' /\ AtPublication'
    BY <2>3, <2>6 DEF AtBackup, AtRestore, AtCleanup, AtPublication, Stop
  <2> QED BY <2>3, <2>5, <2>7 DEF JobFits
<1>3. CASE ~(job.then = "install" /\ ~job.failed)
  <2>1. job' = Idle
    BY <1>3 DEF Resumes
  <2>2. JobOK' /\ job'.at = "idle" /\ job'.then = "reply"
    BY <2>1, IdleTyped DEF JobOK, Idle
  <2> QED BY <1>1, <2>2, Elsewhere DEF Harmless
<1> QED BY <1>2, <1>3

-----------------------------------------------------------------------------
(* Steps of a publication that leave the files.                            *)

LEMMA StageTyped ==
    ASSUME StageOK, stage # NoFile
    PROVE  /\ stage \in Stages /\ stage.kind \in Kinds
           /\ stage.app \in Apps /\ stage.main \in Mains
           /\ stage.log \in Seq(Artifacts) /\ DOMAIN stage.saved = Artifacts
           /\ Logged = ToSet(stage.log) /\ Logged \subseteq Artifacts
<1>1. stage \in Stages
  BY DEF StageOK
<1>2. /\ stage.kind \in Kinds /\ stage.app \in Apps /\ stage.main \in Mains
      /\ stage.log \in Seq(Artifacts) /\ DOMAIN stage.saved = Artifacts
  BY <1>1 DEF Stages
<1>3. Logged = ToSet(stage.log)
  BY DEF Logged, ToSet
<1> QED BY <1>1, <1>2, <1>3, Elements

(* What is installed is of its type.                                       *)
LEMMA CurrentTyped ==
    ASSUME DiskOK, MachineOK, NEW e \in Artifacts PROVE Current(e) \in ArtifactOf[e]
  BY FileTypes DEF Current, ArtifactOf, DiskOK, FilesOK, Artifacts, Old, Originators,
                   MachineOK

(* Wherever a publication goes, with the stage as it is by then.           *)
LEMMA PublicationLands ==
    ASSUME job'.then = "reply",
           Stop' \in {"disarm", "save", "replace", "revert", "discard", "resume-main", "idle"},
           job'.at = Stop', AtPublication'
    PROVE  JobFits'
<1>1. AtInstall'
  BY DEF AtInstall
<1>2. AtBackup' /\ AtRestore' /\ AtCleanup'
  BY DEF AtBackup, AtRestore, AtCleanup
<1> QED BY <1>1, <1>2 DEF JobFits

LEMMA PublicationMoves ==
    ASSUME DeliveryInv,
           \/ \E kind \in Kinds, app \in Apps, build \in Mains : Publish(kind, app, build)
           \/ SaveEntry \/ PublishFails \/ RevertFails \/ RestoreStage \/ FinishStage
           \/ Discard
    PROVE  JobOK' /\ StageOK' /\ JobFits'
<1>1. JobOK /\ StageOK /\ AtPublication
  BY DEF DeliveryInv, JobFits
<1>2. CASE \E kind \in Kinds, app \in Apps, build \in Mains : Publish(kind, app, build)
  <2>1. PICK kind \in Kinds, app \in Apps, build \in Mains : Publish(kind, app, build)
    BY <1>2
  <2>2. stage' = [kind |-> kind, app |-> app, main |-> build, rebooted |-> FALSE,
                  log |-> << >>, saved |-> [e \in Artifacts |-> NoFile]]
        /\ job' = [Idle EXCEPT !.at = "disarm", !.task = "publish", !.todo = Replaced(kind)]
    BY <2>1 DEF Publish
  <2>3. stage' \in Stages /\ Logged' = {}
    <3>1. << >> \in Seq(Artifacts) /\ [e \in Artifacts |-> NoFile] \in
              [Artifacts -> Apps \union Mains \union Manifests \union {NoFile}]
      BY EmptySeq
    <3> QED BY <2>2, <3>1 DEF Stages, Logged
  <2>4. /\ JobOK' /\ job'.at = "disarm" /\ job'.then = "reply"
        /\ job'.todo = Replaced(kind)
    <3>1. job'.then = "reply"
      BY <2>2 DEF Idle
    <3> QED BY <2>2, <3>1, Names, IdleTyped, ReplacedTyped DEF JobOK, Jobs
  <2>5. Left' \subseteq Artifacts
    BY <2>4, ReplacedTyped DEF Left
  <2>6. stage' # NoFile
    BY <2>3, NamesAssumption
  <2>7. AtPublication'
    BY <2>3, <2>4, <2>5, <2>6 DEF AtPublication, Stop
  <2> QED BY <2>3, <2>4, <2>7, PublicationLands DEF StageOK, Stop
<1>3. CASE SaveEntry
  <2> DEFINE e == Head(job.todo)
  <2>1. /\ job.at = "save" /\ job.todo # << >> /\ Goto("replace")
        /\ stage' = [stage EXCEPT !.log = Append(@, e), !.saved[e] = Current(e)]
    BY <1>3 DEF SaveEntry
  <2>2. stage # NoFile /\ Left \subseteq Artifacts /\ e \in Left
    BY <1>1, <2>1, TodoShrinks DEF AtPublication, Stop, Left
  <2>3. e \in Artifacts /\ Current(e) \in ArtifactOf[e]
    BY <2>2, CurrentTyped DEF DeliveryInv
  <2> HIDE DEF e
  <2>4. /\ Append(stage.log, e) \in Seq(Artifacts)
        /\ ToSet(Append(stage.log, e)) = Logged \union {e}
    BY <1>1, <2>2, <2>3, StageTyped, Appended
  <2>5. /\ stage'.log = Append(stage.log, e)
        /\ stage'.saved = [stage.saved EXCEPT ![e] = Current(e)]
        /\ stage' \in Stages
    <3>1. Current(e) \in Apps \union Mains \union Manifests \union {NoFile}
      BY <2>3 DEF ArtifactOf, Artifacts
    <3> QED BY <1>1, <2>1, <2>2, <2>3, <2>4, <3>1, StageTyped DEF Stages
  <2>6. Logged' = Logged \union {e}
    BY <2>4, <2>5 DEF Logged, ToSet
  <2>7. \A x \in Logged' : stage'.saved[x] \in ArtifactOf[x]
    BY <1>1, <2>2, <2>3, <2>5, <2>6, StageTyped DEF AtPublication
  <2>8. JobOK' /\ job'.at = "replace" /\ job'.todo = job.todo /\ job'.then = "reply"
    BY <1>1, <2>1, Names DEF Goto, JobOK, Jobs, AtPublication, Stop
  <2>9. stage' # NoFile
    BY <2>5, NamesAssumption
  <2>10. AtPublication'
    BY <2>1, <2>2, <2>7, <2>8, <2>9 DEF AtPublication, Stop, Left
  <2> QED BY <2>5, <2>8, <2>10, PublicationLands DEF StageOK, Stop

<1>4. ASSUME job' = [ToRevert EXCEPT !.task = job'.task], job'.task \in Tasks,
             stage # NoFile, UNCHANGED stage, job.then = "reply"
      PROVE  JobOK' /\ StageOK' /\ JobFits'
  <2>1. /\ Reverse(stage.log) \in Seq(Artifacts)
        /\ ToSet(Reverse(stage.log)) = Logged
    BY <1>1, <1>4, StageTyped, Reversed
  <2>2. Reverse(stage.log) \in Seq(Entries \union Artifacts)
    BY <2>1, SeqMonotonic
  <2>3. /\ JobOK' /\ job'.at = "revert" /\ job'.then = "reply"
        /\ job'.todo = Reverse(stage.log)
    BY <1>1, <1>4, <2>2, Names DEF ToRevert, JobOK, Jobs
  <2>4. Left' = Logged' /\ Logged' = Logged
    BY <1>4, <2>1, <2>3 DEF Left, Logged
  <2>5. AtPublication'
    BY <1>1, <1>4, <2>3, <2>4 DEF AtPublication, Stop
  <2> QED BY <1>1, <1>4, <2>3, <2>5, PublicationLands DEF StageOK, Stop
<1>5. CASE PublishFails
  <2>1. /\ job.at \in {"disarm", "save", "replace"} /\ UNCHANGED stage /\ job' = ToRevert
    BY <1>5 DEF PublishFails
  <2>2. stage # NoFile /\ job.then = "reply"
    BY <1>1, <2>1 DEF AtPublication, Stop
  <2>3. job'.task \in Tasks /\ job' = [ToRevert EXCEPT !.task = job'.task]
    BY <1>1, <2>1 DEF ToRevert, JobOK, Jobs
  <2> QED BY <1>4, <2>1, <2>2, <2>3
<1>6. CASE RestoreStage
  <2>1. /\ IsIdle /\ stage # NoFile /\ UNCHANGED stage
        /\ job' = [ToRevert EXCEPT !.task = "restore-stage"]
    BY <1>6 DEF RestoreStage
  <2>2. job.then = "reply"
    BY <2>1 DEF IsIdle, DeliveryInv, JobFits, AtInstall
  <2>3. job'.task = "restore-stage" /\ "restore-stage" \in Tasks
    BY <1>1, <2>1, Names DEF ToRevert, JobOK, Jobs
  <2> QED BY <1>4, <2>1, <2>2, <2>3
<1>7. CASE RevertFails
  <2>1. /\ job.at = "revert" /\ job.todo # << >> /\ UNCHANGED stage
        /\ job' = [job EXCEPT !.todo = Tail(@), !.failed = TRUE]
    BY <1>7 DEF RevertFails
  <2>2. /\ Tail(job.todo) \in Seq(Entries \union Artifacts)
        /\ ToSet(Tail(job.todo)) \subseteq ToSet(job.todo)
    BY <1>1, <2>1, TodoShrinks
  <2>3. JobOK' /\ job'.at = "revert" /\ job'.todo = Tail(job.todo) /\ job'.then = job.then
    BY <1>1, <2>1, <2>2 DEF JobOK, Jobs
  <2>4. AtPublication' /\ job'.then = "reply"
    BY <1>1, <2>1, <2>2, <2>3 DEF AtPublication, Stop, Left, Logged
  <2> QED BY <1>1, <2>1, <2>3, <2>4, PublicationLands DEF StageOK, Stop
<1>8. CASE FinishStage
  <2>1. /\ JobOK' /\ job'.at = "discard" /\ job'.then = "reply" /\ UNCHANGED stage
    BY <1>8, Names, IdleTyped DEF FinishStage, JobOK, Jobs, Idle
  <2>2. AtPublication'
    BY <1>1, <2>1 DEF AtPublication, Stop, Logged
  <2> QED BY <1>1, <2>1, <2>2, PublicationLands DEF StageOK, Stop
<1>9. CASE Discard
  <2>1. job.at = "discard" /\ stage' = NoFile /\ job.then = "reply"
    BY <1>1, <1>9 DEF Discard, AtPublication, Stop
  <2>2. /\ JobOK' /\ job'.at \in {"resume-main", "idle"} /\ job'.then = "reply"
    <3>1. CASE Goto("resume-main")
      BY <1>1, <2>1, <3>1, Names DEF Goto, JobOK, Jobs
    <3>2. CASE job' = Idle
      BY <3>2, IdleTyped DEF JobOK, Idle
    <3> QED BY <1>9, <3>1, <3>2 DEF Discard
  <2>3. AtPublication'
    BY <2>1, <2>2 DEF AtPublication, Stop
  <2> QED BY <2>1, <2>2, <2>3, PublicationLands DEF StageOK, Stop
<1> QED BY <1>2, <1>3, <1>5, <1>6, <1>7, <1>8, <1>9

-----------------------------------------------------------------------------
(* Steps after which the whole directory is durable.                       *)

Synced == unsynced' = [e \in Entries |-> {files'[e]}]

LEMMA SyncedFits ==
    ASSUME DeliveryInv, FilesOK', Synced,
           \A e \in Old \union {"receipt"} : files'[e] \in unsynced[e]
    PROVE  DiskOK' /\ DiskFits'
<1>1. DiskOK'
  BY DEF DiskOK, FilesOK, UnsyncedOK, Synced
<1>2. \A e \in Entries : unsynced'[e] = {files'[e]}
  BY DEF Synced
<1>3. /\ \A e \in Old : e \in Entries
      /\ "receipt" \in Entries /\ "oldEnv" \in Old
  BY FileTypes DEF Old
<1>4. /\ \A e \in Old, receipt \in unsynced.receipt :
             Torn \in unsynced[e] =>
                 receipt # NoFile /\ receipt.phase \in {"Preparing", "Restored", "Ready"}
      /\ NoFile \in unsynced.receipt => unsynced.oldEnv = {NoFile}
  BY DEF DeliveryInv, DiskFits, TornUnpromised, UnreceiptedSettled
<1>5. TornUnpromised'
  BY <1>2, <1>3, <1>4 DEF TornUnpromised
<1>6. UnreceiptedSettled'
  BY <1>2, <1>3, <1>4 DEF UnreceiptedSettled
<1> QED BY <1>1, <1>2, <1>5, <1>6 DEF DiskFits, FilesStand

LEMMA SyncKeepsAll ==
    ASSUME DeliveryInv, UNCHANGED stage, Sync
    PROVE  /\ DiskOK' /\ JobOK' /\ StageOK' /\ SettingsKept' /\ DiskFits' /\ JobFits'
<1>1. /\ job.at = "sync" /\ UNCHANGED <<files, settings, main>> /\ Synced
      /\ job' = IF job.to = "idle" THEN Idle ELSE [job EXCEPT !.at = job.to, !.to = "idle"]
  BY DEF Sync, SyncDirectory, Synced
<1>2. /\ FilesOK /\ JobOK /\ JobFits /\ FilesStand
      /\ \A e \in Old \union {"receipt"} : e \in Entries
  BY FileTypes DEF DeliveryInv, DiskOK, DiskFits
<1>3. DiskOK' /\ DiskFits' /\ SettingsKept' /\ StageOK'
  <2>1. FilesOK' /\ \A e \in Old \union {"receipt"} : files'[e] \in unsynced[e]
    BY <1>1, <1>2 DEF FilesOK, FilesStand
  <2> QED BY <1>1, <2>1, SyncedFits DEF DeliveryInv, SettingsKept, StageOK
<1>4. CASE job.to = "idle"
  <2>1. JobOK' /\ job'.at = "idle" /\ job'.then = "reply"
    BY <1>1, <1>4, IdleTyped DEF JobOK, Idle
  <2>2. stage' # NoFile => \A e \in Logged' : stage'.saved[e] \in ArtifactOf[e]
    BY <1>2 DEF JobFits, AtPublication, Logged
  <2> QED BY <1>3, <2>1, <2>2
          DEF JobFits, AtInstall, AtBackup, AtRestore, AtCleanup, AtPublication, Stop
<1>5. CASE job.to # "idle"
  <2>1. /\ JobOK' /\ job'.at = job.to /\ job'.to = "idle" /\ job'.todo = job.todo
        /\ job'.then = job.then /\ job'.build = job.build
        /\ job'.failed = job.failed /\ job'.task = job.task
    BY <1>1, <1>2, <1>5, Names DEF JobOK, Jobs
  <2>2. /\ Stop' = job.to \/ (job.to = "sync" /\ Stop' = "idle")
        /\ Stop = job.to /\ Left' = Left
    BY <1>1, <2>1 DEF Stop, Left
  <2>3. /\ \A e \in Entries : files'[e] = files[e] /\ unsynced'[e] = {files[e]}
        /\ Phase' = Phase
    BY <1>1 DEF Synced, Phase
  <2>4. AtInstall' /\ AtRestore' /\ AtPublication'
    <3>1. MayInstall' <=> MayInstall
      BY <1>1, <2>3 DEF MayInstall, Clean
    <3>2. AtInstall'
      BY <1>1, <1>2, <1>5, <2>1, <2>2, <3>1 DEF JobFits, AtInstall
    <3>3. AtRestore'
      BY <1>2, <2>1, <2>2, <2>3 DEF JobFits, AtRestore
    <3>4. AtPublication'
      BY <1>2, <2>1, <2>2 DEF JobFits, AtPublication, Logged
    <3> QED BY <3>2, <3>3, <3>4
  <2>5. AtBackup'
    <3>1. CASE job.to # "backup"
      BY <1>1, <1>2, <2>1, <2>2, <3>1 DEF JobFits, AtBackup
    <3>2. CASE job.to = "backup"
      <4>1. /\ Left \subseteq Originators /\ Phase = "Preparing" /\ Clean
            /\ "manifest" \in Left
            /\ files.receipt.hadApp => files.app # NoFile /\ "app" \in Left
            /\ files.receipt.hadEnv => files.env # NoFile /\ "env" \in Left
        BY <1>1, <1>2, <2>2, <3>2 DEF JobFits, AtBackup
      <4>2. files.receipt # NoFile /\ files.receipt.phase = "Preparing"
        BY <4>1 DEF Phase
      <4>3. \A e \in Originators : unsynced'[Backup[e]] = {NoFile}
        BY <2>3, <4>1, FileTypes DEF Clean, Old, Originators
      <4>4. unsynced'.receipt = {files.receipt}
        BY <2>3 DEF Entries
      <4>5. BackedUp'
        BY <1>1, <2>1, <2>2, <4>1, <4>2, <4>3, <4>4, NoFileAssumption DEF BackedUp
      <4> QED BY <1>1, <2>1, <2>2, <2>3, <3>2, <4>1, <4>5 DEF AtBackup
    <3> QED BY <3>1, <3>2
  <2>6. AtCleanup'
    <3>1. job'.at = "forget" => Clean
      BY <1>1, <1>2, <2>1, <2>2 DEF JobFits, AtCleanup
    <3>2. job'.at = "forget" => \A e \in Old : unsynced'[e] = {NoFile}
      BY <1>2, <2>3, <3>1 DEF Clean
    <3> QED BY <1>1, <1>2, <2>1, <2>2, <2>3, <3>2 DEF JobFits, AtCleanup, Clean
  <2> QED BY <1>3, <2>1, <2>4, <2>5, <2>6 DEF JobFits
<1> QED BY <1>4, <1>5

-----------------------------------------------------------------------------
(* Boots, and what Main and its launcher are.                              *)

LEMMA LauncherTypes ==
    ASSUME FilesOK
    PROVE  /\ Suspended \in Launchers /\ Resumed \in Launchers
           /\ [Resumed EXCEPT !.ready = TRUE] \in Launchers
           /\ [active |-> TRUE, app |-> files.app, ready |-> FALSE,
               block |-> IF files.env = NoFile THEN NoFile ELSE files.env.block]
                 \in Launchers
<1>1. files.app \in Apps \union {NoFile}
  BY FileTypes DEF FilesOK, Originators
<1>2. (IF files.env = NoFile THEN NoFile ELSE files.env.block) \in Apps \union {NoFile}
  <2>1. files.env \in Envs \union {NoFile}
    BY FileTypes DEF FilesOK, Originators
  <2> QED BY <2>1 DEF Envs
<1> QED BY <1>1, <1>2 DEF Suspended, Resumed, Launchers

LEMMA LinesTyped ==
    ASSUME NEW env \in Envs \union {NoFile} PROVE Lines(env) \in Settings
  BY SettingsAssumption DEF Lines, Envs

LEMMA Restarted ==
    ASSUME DeliveryInv, Boots, FilesOK', SettingsKept',
           \A e \in Old \union {"receipt"} : files'[e] \in unsynced[e]
    PROVE  DeliveryInv'
<1>1. /\ Synced /\ job' = Idle /\ running' = main /\ main' = main
      /\ stage' = IF stage = NoFile THEN NoFile ELSE [stage EXCEPT !.rebooted = TRUE]
  BY DEF Boots, Synced
<1>2. DiskOK' /\ DiskFits'
  BY <1>1, SyncedFits
<1>3. MachineOK'
  <2>1. launcher' \in Launchers
    <3>1. (FilesOK => [active |-> TRUE, app |-> files.app, ready |-> FALSE,
               block |-> IF files.env = NoFile THEN NoFile ELSE files.env.block]
                 \in Launchers)'
      BY LauncherTypes, PTL
    <3> QED BY <3>1 DEF Boots, Launchers
  <2>2. settings' \in Settings
    <3>1. files'.env \in Envs \union {NoFile}
      BY FileTypes DEF FilesOK, Originators
    <3>2. settings' = Lines(files'.env)
      BY DEF SettingsKept, Lines
    <3> QED BY <3>1, <3>2, LinesTyped
  <2> QED BY <1>1, <2>1, <2>2 DEF MachineOK, DeliveryInv
<1>4. JobOK' /\ job'.at = "idle" /\ job'.then = "reply"
  BY <1>1, IdleTyped DEF JobOK, Idle
<1>5. StageOK' /\ (stage' # NoFile => \A e \in Logged' : stage'.saved[e] \in ArtifactOf[e])
  <2>1. CASE stage = NoFile
    BY <1>1, <2>1 DEF StageOK
  <2>2. CASE stage # NoFile
    <3>1. stage \in Stages /\ \A e \in Logged : stage.saved[e] \in ArtifactOf[e]
      BY <2>2 DEF DeliveryInv, StageOK, JobFits, AtPublication
    <3>2. stage' \in Stages /\ stage'.log = stage.log /\ stage'.saved = stage.saved
      BY <1>1, <2>2, <3>1 DEF Stages
    <3> QED BY <3>1, <3>2 DEF StageOK, Logged
  <2> QED BY <2>1, <2>2
<1>6. JobFits'
  BY <1>4, <1>5 DEF JobFits, AtInstall, AtBackup, AtRestore, AtCleanup, AtPublication, Stop
<1> QED BY <1>2, <1>3, <1>4, <1>5, <1>6 DEF DeliveryInv

LEMMA BootsKeep == ASSUME DeliveryInv, Reboot \/ PowerLoss PROVE DeliveryInv'
<1>1. CASE Reboot
  <2>1. /\ Boots /\ files' = [files EXCEPT !.env = NoFile] /\ settings' = NoLines
    BY <1>1 DEF Reboot
  <2>2. FilesOK' /\ files'.env = NoFile
    BY <2>1, FileTypes DEF FilesOK, DeliveryInv, DiskOK, FileOf, Originators
  <2>3. \A e \in Old \union {"receipt"} : files'[e] \in unsynced[e]
    BY <2>1, FileTypes DEF DeliveryInv, DiskOK, FilesOK, DiskFits, FilesStand, Old
  <2>4. SettingsKept'
    BY <2>1, <2>2 DEF SettingsKept, Lines
  <2> QED BY <2>1, <2>2, <2>3, <2>4, Restarted
<1>2. CASE PowerLoss
  <2>1. Boots /\ settings' = Lines(files'.env)
    BY <1>2 DEF PowerLoss
  <2>2. PICK app \in unsynced.app, manifest \in unsynced.manifest, env \in unsynced.env,
             receipt \in unsynced.receipt, oldApp \in unsynced.oldApp,
             oldManifest \in unsynced.oldManifest, oldEnv \in unsynced.oldEnv :
           files' = [app |-> app, manifest |-> manifest, env |-> env, receipt |-> receipt,
                     oldApp |-> oldApp, oldManifest |-> oldManifest, oldEnv |-> oldEnv]
    BY <1>2 DEF PowerLoss
  <2>3. /\ files'.app \in unsynced.app /\ files'.manifest \in unsynced.manifest
        /\ files'.env \in unsynced.env /\ files'.receipt \in unsynced.receipt
        /\ files'.oldApp \in unsynced.oldApp /\ files'.oldEnv \in unsynced.oldEnv
        /\ files'.oldManifest \in unsynced.oldManifest
        /\ DOMAIN files' = Entries
    BY <2>2 DEF Entries
  <2>4. \A e \in Entries : files'[e] \in unsynced[e]
    BY <2>3 DEF Entries
  <2>5. FilesOK'
    BY <2>3, <2>4 DEF FilesOK, DeliveryInv, DiskOK, UnsyncedOK
  <2>6. SettingsKept'
    BY <2>1 DEF SettingsKept, Lines
  <2> QED BY <2>1, <2>4, <2>5, <2>6, FileTypes, Restarted
<1> QED BY <1>1, <1>2

-----------------------------------------------------------------------------
(* Steps that write a receipt.                                             *)

LEMMA ReceiptPut ==
    ASSUME DeliveryInv, UNCHANGED settings,
           NEW r \in Receipts \union {NoFile}, Put("receipt", r),
           \/ r # NoFile /\ r.phase \in {"Preparing", "Restored", "Ready"}
           \/ \A e \in Old : Torn \notin unsynced[e],
           r = NoFile => \A e \in Old : unsynced[e] = {NoFile}
    PROVE  /\ DiskOK' /\ SettingsKept' /\ DiskFits'
           /\ files'.receipt = r /\ unsynced'.receipt = unsynced.receipt \union {r}
           /\ \A e \in Entries \ {"receipt"} : files'[e] = files[e] /\ unsynced'[e] = unsynced[e]
<1>1. "receipt" \in Entries /\ r \in FileOf["receipt"] /\ DiskOK
  BY FileTypes DEF DeliveryInv
<1>2. /\ DiskOK'
      /\ files'.receipt = r /\ unsynced'.receipt = unsynced.receipt \union {r}
      /\ \A e \in Entries \ {"receipt"} : files'[e] = files[e] /\ unsynced'[e] = unsynced[e]
  BY <1>1, PutKeeps
<1>3. \A e \in Old : files'[e] = files[e] /\ unsynced'[e] = unsynced[e]
  BY <1>2, FileTypes DEF Old
<1>4. SettingsKept'
  BY <1>2 DEF DeliveryInv, SettingsKept, Lines, Entries
<1>5. FilesStand /\ TornUnpromised /\ UnreceiptedSettled
  BY DEF DeliveryInv, DiskFits
<1>6. FilesStand'
  BY <1>2, <1>5 DEF FilesStand
<1>7. TornUnpromised'
  BY <1>2, <1>3, <1>5 DEF TornUnpromised
<1>8. UnreceiptedSettled'
  <2>1. CASE r = NoFile
    <3>1. \A e \in Old : files[e] = NoFile
      BY <1>5, <2>1, FileTypes DEF FilesStand
    <3> QED BY <1>3, <2>1, <3>1 DEF UnreceiptedSettled, Old
  <2>2. CASE r # NoFile
    BY <1>2, <1>3, <1>5, <2>2 DEF UnreceiptedSettled, Old
  <2> QED BY <2>1, <2>2
<1> QED BY <1>2, <1>4, <1>6, <1>7, <1>8 DEF DiskFits

(* Wherever an installation or a reconciliation goes.                      *)
LEMMA AppLands ==
    ASSUME DeliveryInv, UNCHANGED stage, job'.at # "idle",
           job'.then = "reply" \/ (job'.then = job.then /\ job'.build = job.build),
           Stop' \in {"app", "manifest", "idle", "arm", "launch", "restore", "copy", "restored",
                      "drop", "forget", "unmanage", "resume", "recover"},
           Stop' \in {"app", "manifest"} => job'.build \in Apps,
           Stop' = "resume" /\ job'.then = "install" => MayInstall',
           AtRestore', AtCleanup'
    PROVE  JobFits'
<1>1. stage' # NoFile => \A e \in Logged' : stage'.saved[e] \in ArtifactOf[e]
  BY DEF DeliveryInv, JobFits, AtPublication, Logged
<1>2. job.then = "install" => job.build \in Apps
  BY DEF DeliveryInv, JobFits, AtInstall
<1>3. job'.at \notin {"idle", "backup", "copying"}
  BY DEF Stop
<1>4. AtInstall'
  BY <1>2, <1>3 DEF AtInstall
<1> QED BY <1>1, <1>3, <1>4 DEF JobFits, AtBackup, AtPublication

LEMMA PreparingSaved ==
    ASSUME DeliveryInv, UNCHANGED stage, SavePreparing
    PROVE  DiskOK' /\ JobOK' /\ StageOK' /\ SettingsKept' /\ DiskFits' /\ JobFits'
<1>1. /\ job.at = "install" /\ Put("receipt", NewReceipt) /\ UNCHANGED settings
      /\ job' = [job EXCEPT !.at = "sync", !.to = "backup", !.todo = Originals(NewReceipt)]
      /\ JobOK
  BY DEF SavePreparing, DeliveryInv
<1>2. Stop = "install" /\ job.build \in Apps /\ MayInstall
  BY <1>1 DEF DeliveryInv, JobFits, AtInstall, Stop
<1>3. NewReceipt \in Receipts /\ NewReceipt.phase = "Preparing" /\ NewReceipt # NoFile
  <2>1. NewReceipt \in Receipts /\ NewReceipt.phase = "Preparing"
    BY <1>2 DEF NewReceipt, Receipts, Phases
  <2> QED BY <2>1, NamesAssumption
<1>4. /\ DiskOK' /\ SettingsKept' /\ DiskFits' /\ files'.receipt = NewReceipt
      /\ \A e \in Entries \ {"receipt"} : files'[e] = files[e]
  BY <1>1, <1>3, ReceiptPut
<1>5. /\ Originals(NewReceipt) \in Seq(Originators)
      /\ "manifest" \in ToSet(Originals(NewReceipt))
      /\ NewReceipt.hadApp => "app" \in ToSet(Originals(NewReceipt))
      /\ NewReceipt.hadEnv => "env" \in ToSet(Originals(NewReceipt))
      /\ ToSet(Originals(NewReceipt)) \subseteq Originators
  BY OriginalsTyped, Elements
<1>6. Originals(NewReceipt) \in Seq(Entries \union Artifacts)
  BY <1>5, SeqMonotonic DEF Originators, Entries
<1>7. /\ JobOK' /\ job'.at = "sync" /\ job'.to = "backup" /\ job'.build = job.build
      /\ job'.then = job.then /\ job'.todo = Originals(NewReceipt)
  BY <1>1, <1>6, Names DEF JobOK, Jobs
<1>8. Stop' = "backup" /\ Left' = ToSet(Originals(NewReceipt))
  BY <1>7 DEF Stop, Left
<1>9. /\ Clean' /\ Phase' = "Preparing"
      /\ files'.receipt.hadApp => files'.app # NoFile
      /\ files'.receipt.hadEnv => files'.env # NoFile
  <2>1. files'.app = files.app /\ files'.env = files.env
    BY <1>4 DEF Entries
  <2>2. Clean'
    BY <1>2, <1>4, FileTypes DEF MayInstall, Clean, Old
  <2>3. Phase' = "Preparing"
    BY <1>3, <1>4 DEF Phase
  <2>4. NewReceipt.hadApp = (files.app # NoFile) /\ NewReceipt.hadEnv = (files.env # NoFile)
    BY DEF NewReceipt
  <2>5. /\ NewReceipt.hadApp => files.app # NoFile
        /\ NewReceipt.hadEnv => files.env # NoFile
    BY <2>4
  <2> QED BY <1>4, <2>1, <2>2, <2>3, <2>5
<1>10. AtBackup'
  BY <1>4, <1>5, <1>7, <1>8, <1>9 DEF AtBackup
<1>11. AtInstall'
  BY <1>2, <1>7, <1>8 DEF AtInstall
<1>12. AtRestore' /\ AtCleanup'
  BY <1>7, <1>8 DEF AtRestore, AtCleanup
<1>13. AtPublication' /\ StageOK'
  BY <1>8 DEF AtPublication, DeliveryInv, JobFits, Logged, StageOK
<1> QED BY <1>4, <1>7, <1>10, <1>11, <1>12, <1>13 DEF JobFits

LEMMA Phased ==
    ASSUME DiskOK, Phase # "None", NEW phase \in Phases
    PROVE  /\ [files.receipt EXCEPT !.phase = phase] \in Receipts
           /\ [files.receipt EXCEPT !.phase = phase] # NoFile
           /\ [files.receipt EXCEPT !.phase = phase].phase = phase
<1>1. files.receipt \in Receipts
  BY FileTypes DEF Phase, DiskOK, FilesOK
<1>2. /\ [files.receipt EXCEPT !.phase = phase] \in Receipts
      /\ [files.receipt EXCEPT !.phase = phase].phase = phase
  BY <1>1 DEF Receipts
<1> QED BY <1>2, NamesAssumption

(* Without a receipt, or with no backup left to make, none is torn.        *)
LEMMA NoneTorn ==
    ASSUME DeliveryInv, Phase = "None" \/ (job.at = "backup" /\ job.todo = << >>)
    PROVE  \A e \in Old : Torn \notin unsynced[e]
<1>1. CASE Phase = "None"
  <2>1. files.receipt = NoFile
    BY <1>1, NamesAssumption, FileTypes
       DEF Phase, DeliveryInv, DiskOK, FilesOK, Receipts, Phases
  <2> QED BY <2>1 DEF DeliveryInv, DiskFits, FilesStand, TornUnpromised, Entries
<1>2. CASE job.at = "backup" /\ job.todo = << >>
  <2>1. \A e \in Originators : Torn \notin unsynced[Backup[e]]
    BY <1>2 DEF DeliveryInv, JobFits, AtBackup, BackedUp
  <2>2. \A b \in Old : \E e \in Originators : b = Backup[e]
    BY DEF Old, Originators, Backup
  <2> QED BY <2>1, <2>2
<1> QED BY <1>1, <1>2

LEMMA ReceiptsKeep ==
    ASSUME DeliveryInv, UNCHANGED stage,
           \/ SavePrepared \/ SaveReady \/ SaveRestored \/ RecoverLegacyPair
           \/ RemoveReceipt
    PROVE  DiskOK' /\ JobOK' /\ StageOK' /\ SettingsKept' /\ DiskFits' /\ JobFits'
<1>1. UNCHANGED settings /\ JobOK /\ JobFits /\ DiskOK /\ StageOK'
  BY DEF SavePrepared, SaveReady, SaveRestored, RecoverLegacyPair, RemoveReceipt,
         DeliveryInv, StageOK
<1>2. ASSUME NEW phase \in {"Prepared", "Restored", "Ready"}, Phase # "None",
             SaveReceipt(phase), phase = "Prepared" => \A e \in Old : Torn \notin unsynced[e]
      PROVE  DiskOK' /\ SettingsKept' /\ DiskFits' /\ Phase' = phase
  <2> DEFINE r == [files.receipt EXCEPT !.phase = phase]
  <2>1. /\ r \in Receipts \union {NoFile} /\ r # NoFile /\ r.phase = phase
        /\ Put("receipt", r)
    BY <1>1, <1>2, Phased DEF Phases, SaveReceipt
  <2> HIDE DEF r
  <2> QED BY <1>1, <1>2, <2>1, ReceiptPut DEF Phase
<1>3. CASE SavePrepared
  <2>1. job.at = "backup" /\ job.todo = << >> /\ SaveReceipt("Prepared") /\ SyncThen("app")
    BY <1>3 DEF SavePrepared
  <2>2. Phase = "Preparing" /\ job.build \in Apps
    BY <1>1, <2>1 DEF JobFits, AtBackup, AtInstall, Stop
  <2>3. DiskOK' /\ SettingsKept' /\ DiskFits'
    BY <1>2, <2>1, <2>2, NoneTorn
  <2>4. /\ JobOK' /\ Stop' = "app" /\ job'.at = "sync"
        /\ job'.then = job.then /\ job'.build = job.build
    BY <1>1, <2>1, Names DEF SyncThen, JobOK, Jobs, Stop
  <2>5. AtRestore' /\ AtCleanup'
    BY <2>4 DEF AtRestore, AtCleanup
  <2> QED BY <1>1, <2>2, <2>3, <2>4, <2>5, AppLands
<1>4. CASE SaveReady \/ SaveRestored
  <2> DEFINE phase == IF SaveReady THEN "Ready" ELSE "Restored"
  <2>1. /\ SaveReceipt(phase) /\ phase \in {"Restored", "Ready"}
        /\ job' = [ToCleanup EXCEPT !.at = "sync", !.to = "drop"]
    BY <1>4 DEF SaveReady, SaveRestored
  <2>2. /\ Phase # "None"
        /\ job.task = "restore" => phase = "Restored"
        /\ job.task # "restore" => phase = "Ready"
    <3>1. CASE SaveReady
      <4>1. job.at = "finish" /\ files.receipt # NoFile
        BY <3>1 DEF SaveReady
      <4>2. job.task = "finish"
        BY <1>1, <4>1 DEF JobFits, AtCleanup, Stop
      <4>3. Phase # "None"
        BY <1>1, <4>1, FileTypes DEF Phase, DiskOK, FilesOK, Receipts, Phases
      <4> QED BY <3>1, <4>2, <4>3
    <3>2. CASE ~SaveReady
      <4>1. job.at = "restored"
        BY <1>4, <3>2 DEF SaveRestored
      <4>2. Phase # "None" /\ job.task = "restore"
        BY <1>1, <4>1 DEF JobFits, AtRestore, Stop
      <4> QED BY <3>2, <4>2
    <3> QED BY <3>1, <3>2
  <2> HIDE DEF phase
  <2>3. DiskOK' /\ SettingsKept' /\ DiskFits' /\ Phase' = phase
    BY <1>2, <2>1, <2>2
  <2>4. /\ JobOK' /\ job'.at = "sync" /\ job'.to = "drop" /\ job'.task = job.task
        /\ job'.todo = Backups
        /\ job'.then = job.then /\ job'.build = job.build
    BY <1>1, <2>1, Names, CleanupTyped DEF ToCleanup, JobOK, Jobs
  <2>5. Left' = Old /\ Stop' = "drop"
    BY <2>4, CleanupTyped DEF Left, Stop
  <2>6. AtRestore' /\ AtCleanup'
    BY <2>1, <2>2, <2>3, <2>4, <2>5 DEF AtRestore, AtCleanup
  <2> QED BY <1>1, <2>3, <2>4, <2>5, <2>6, AppLands
<1>5. CASE RecoverLegacyPair
  <2> DEFINE r == [phase |-> "Prepared", expected |-> NoFile, hadApp |-> TRUE,
                   hadEnv |-> FALSE, preserveEnv |-> TRUE]
  <2>1. /\ Phase = "None" /\ Put("receipt", r)
        /\ job' = [job EXCEPT !.at = "sync", !.to = "recover", !.task = "restore"]
    BY <1>5 DEF RecoverLegacyPair
  <2>2. r \in Receipts \union {NoFile} /\ r # NoFile
    <3>1. r \in Receipts
      BY DEF Receipts, Phases
    <3> QED BY <3>1, NamesAssumption
  <2> HIDE DEF r
  <2>3. DiskOK' /\ SettingsKept' /\ DiskFits'
    BY <1>1, <2>1, <2>2, NoneTorn, ReceiptPut
  <2>4. /\ JobOK' /\ job'.at = "sync" /\ job'.to = "recover"
        /\ job'.then = job.then /\ job'.build = job.build
    BY <1>1, <2>1, Names DEF JobOK, Jobs
  <2>5. Stop' = "recover"
    BY <2>4 DEF Stop
  <2>6. AtRestore' /\ AtCleanup'
    BY <2>4, <2>5 DEF AtRestore, AtCleanup
  <2> QED BY <1>1, <2>3, <2>4, <2>5, <2>6, AppLands
<1>6. CASE RemoveReceipt
  <2>1. /\ job.at = "forget" /\ Put("receipt", NoFile)
        /\ SyncThen("unmanage") \/ SyncThen("resume")
    BY <1>6 DEF RemoveReceipt
  <2>2. Clean /\ \A e \in Old : unsynced[e] = {NoFile}
    BY <1>1, <2>1 DEF JobFits, AtCleanup, Stop
  <2>3. \A e \in Old : Torn \notin unsynced[e]
    BY <2>2, NoFileAssumption
  <2>4. /\ DiskOK' /\ SettingsKept' /\ DiskFits' /\ files'.receipt = NoFile
        /\ \A e \in Entries \ {"receipt"} : files'[e] = files[e]
    BY <1>1, <2>1, <2>2, <2>3, ReceiptPut
  <2>5. Clean' /\ Phase' = "None"
    BY <2>2, <2>4, FileTypes DEF Clean, Phase, Old
  <2>6. /\ JobOK' /\ job'.at = "sync" /\ Stop' \in {"unmanage", "resume"}
        /\ job'.then = job.then /\ job'.build = job.build
    BY <1>1, <2>1, Names DEF SyncThen, JobOK, Jobs, Stop
  <2>7. AtRestore' /\ AtCleanup'
    BY <2>5, <2>6 DEF AtRestore, AtCleanup
  <2>8. MayInstall'
    BY <2>5 DEF MayInstall
  <2> QED BY <1>1, <2>4, <2>6, <2>7, <2>8, AppLands
<1> QED BY <1>3, <1>4, <1>5, <1>6

-----------------------------------------------------------------------------
(* Steps that write a backup.  No receipt promises one while they are      *)
(* made, and none has its name while they are dropped.                     *)

LEMMA BackupPut ==
    ASSUME DeliveryInv, UNCHANGED settings, NEW e \in Old,
           NEW f \in FileOf[e], Put(e, f),
           \/ f = NoFile
           \/ \A receipt \in unsynced.receipt : receipt # NoFile /\ receipt.phase = "Preparing"
    PROVE  /\ DiskOK' /\ SettingsKept' /\ DiskFits'
           /\ files'[e] = f /\ unsynced'[e] = unsynced[e] \union {f}
           /\ \A x \in Entries \ {e} : files'[x] = files[x] /\ unsynced'[x] = unsynced[x]
<1>1. e \in Entries /\ e \notin {"receipt", "env"} /\ DiskOK
  BY FileTypes DEF DeliveryInv, Old
<1>2. /\ DiskOK' /\ files'[e] = f /\ unsynced'[e] = unsynced[e] \union {f}
      /\ \A x \in Entries \ {e} : files'[x] = files[x] /\ unsynced'[x] = unsynced[x]
  BY <1>1, PutKeeps
<1>3. /\ files'.env = files.env /\ unsynced'.receipt = unsynced.receipt
      /\ Old \subseteq Entries
  BY <1>1, <1>2, FileTypes DEF Entries
<1>4. SettingsKept' /\ FilesStand /\ TornUnpromised /\ UnreceiptedSettled
  BY <1>3 DEF DeliveryInv, DiskFits, SettingsKept, Lines
<1>5. FilesStand'
  BY <1>2, <1>4 DEF FilesStand
<1>6. CASE f = NoFile
  <2>1. TornUnpromised'
    BY <1>2, <1>3, <1>4, <1>6, NoFileAssumption DEF TornUnpromised
  <2>2. UnreceiptedSettled'
    BY <1>2, <1>3, <1>4, <1>6 DEF UnreceiptedSettled, Old
  <2> QED BY <1>2, <1>4, <1>5, <2>1, <2>2 DEF DiskFits
<1>7. CASE \A receipt \in unsynced.receipt : receipt # NoFile /\ receipt.phase = "Preparing"
  BY <1>2, <1>3, <1>4, <1>5, <1>7 DEF DiskFits, TornUnpromised, UnreceiptedSettled
<1> QED BY <1>6, <1>7

(* Where a job that makes backups is.                                      *)
LEMMA BackingUp ==
    ASSUME DeliveryInv, job.at \in {"backup", "copying"}
    PROVE  /\ Stop = job.at /\ Left \subseteq Originators /\ Phase = "Preparing" /\ BackedUp
           /\ files.receipt \in unsynced.receipt /\ job.build \in Apps
           /\ job.todo # << >> =>
                 /\ Head(job.todo) \in Left
                 /\ Tail(job.todo) \in Seq(Entries \union Artifacts)
                 /\ ToSet(Tail(job.todo)) \subseteq Left
                 /\ Left \subseteq {Head(job.todo)} \union ToSet(Tail(job.todo))
<1>1. Stop = job.at /\ AtBackup /\ AtInstall /\ JobOK
  BY DEF Stop, DeliveryInv, JobFits
<1>2. files.receipt \in unsynced.receipt
  BY DEF DeliveryInv, DiskFits, FilesStand, Entries
<1> QED BY <1>1, <1>2, TodoShrinks DEF AtBackup, AtInstall, Left

(* Each file has its backup.                                               *)
LEMMA BackupsApart ==
    /\ \A e \in Originators : Backup[e] \in Old
    /\ \A e, x \in Originators : Backup[e] = Backup[x] => e = x
    /\ Backup["manifest"] = "oldManifest" /\ Backup["app"] = "oldApp"
    /\ Backup["env"] = "oldEnv"
  BY DEF Originators, Backup, Old

LEMMA BackupStarted ==
    ASSUME DeliveryInv, UNCHANGED stage, BackupStarts
    PROVE  DiskOK' /\ JobOK' /\ StageOK' /\ SettingsKept' /\ DiskFits' /\ JobFits'
<1> DEFINE e == Head(job.todo)
           b == Backup[Head(job.todo)]
<1>1. /\ job.at = "backup" /\ job.todo # << >> /\ Put(b, Torn) /\ Goto("copying")
      /\ UNCHANGED settings /\ JobOK /\ JobFits /\ StageOK'
  BY DEF BackupStarts, DeliveryInv, StageOK
<1>2. /\ Stop = "backup" /\ Left \subseteq Originators /\ Phase = "Preparing" /\ BackedUp
      /\ e \in Left /\ job.build \in Apps
  BY <1>1, BackingUp
<1>3. /\ e \in Originators /\ b \in Old /\ Torn \in FileOf[b]
      /\ \A x \in Originators : Backup[x] = b => x = e
      /\ b = "oldManifest" => e = "manifest"
      /\ b = "oldApp" => e = "app"
      /\ b = "oldEnv" => e = "env"
  BY <1>2, BackupsApart, FileTypes DEF Originators
<1> HIDE DEF e, b
<1>4. /\ DiskOK' /\ SettingsKept' /\ DiskFits'
      /\ files'[b] = Torn /\ unsynced'[b] = unsynced[b] \union {Torn}
      /\ \A x \in Entries \ {b} : files'[x] = files[x] /\ unsynced'[x] = unsynced[x]
  BY <1>1, <1>2, <1>3, BackupPut DEF BackedUp
<1>5. /\ JobOK' /\ job'.at = "copying" /\ job'.todo = job.todo
      /\ job'.then = job.then /\ job'.build = job.build
  BY <1>1, Names DEF Goto, JobOK, Jobs
<1>6. Stop' = "copying" /\ Left' = Left
  BY <1>5 DEF Stop, Left
<1>7. /\ files'.receipt = files.receipt /\ unsynced'.receipt = unsynced.receipt
      /\ files'.app = files.app /\ files'.env = files.env /\ Phase' = Phase
  BY <1>3, <1>4 DEF Old, Entries, Phase
<1>8. BackedUp'
  <2>1. \A x \in Originators : Torn \in unsynced'[Backup[x]] => x = e
    BY <1>1, <1>2, <1>3, <1>4, BackupsApart, FileTypes DEF BackedUp
  <2>2. "manifest" \notin Left' => unsynced'.oldManifest \subseteq Manifests
    BY <1>2, <1>3, <1>4, <1>6 DEF BackedUp, Entries
  <2>3. files'.receipt.hadApp /\ "app" \notin Left' => unsynced'.oldApp \subseteq Apps
    BY <1>2, <1>3, <1>4, <1>6, <1>7 DEF BackedUp, Entries
  <2>4. files'.receipt.hadEnv /\ "env" \notin Left' => unsynced'.oldEnv \subseteq Envs
    BY <1>2, <1>3, <1>4, <1>6, <1>7 DEF BackedUp, Entries
  <2>5. Head(job'.todo) = e
    BY <1>5 DEF e
  <2> QED BY <1>2, <1>5, <1>7, <2>1, <2>2, <2>3, <2>4, <2>5 DEF BackedUp
<1>9. AtBackup'
  <2>1. /\ files.receipt.hadApp => files.app # NoFile
        /\ files.receipt.hadEnv => files.env # NoFile
    BY <1>1, <1>2 DEF JobFits, AtBackup
  <2> QED BY <1>1, <1>2, <1>5, <1>6, <1>7, <1>8, <2>1 DEF AtBackup
<1>10. AtInstall'
  BY <1>2, <1>5, <1>6 DEF AtInstall
<1>11. AtRestore' /\ AtCleanup' /\ AtPublication'
  BY <1>1, <1>5, <1>6 DEF AtRestore, AtCleanup, AtPublication, JobFits, Logged
<1> QED BY <1>1, <1>4, <1>5, <1>9, <1>10, <1>11 DEF JobFits

LEMMA BackupEnded ==
    ASSUME DeliveryInv, UNCHANGED stage, BackupEnds
    PROVE  DiskOK' /\ JobOK' /\ StageOK' /\ SettingsKept' /\ DiskFits' /\ JobFits'
<1> DEFINE e == Head(job.todo)
           b == Backup[Head(job.todo)]
<1>1. /\ job.at = "copying" /\ UNCHANGED settings /\ JobOK /\ JobFits /\ StageOK'
      /\ files' = [files EXCEPT ![b] = files[e]]
      /\ unsynced' = [unsynced EXCEPT ![b] = {files[e]}]
      /\ job' = [job EXCEPT !.at = "backup", !.todo = Tail(@)]
  BY DEF BackupEnds, DeliveryInv, StageOK
<1>2. /\ Stop = "copying" /\ Left \subseteq Originators /\ Phase = "Preparing" /\ BackedUp
      /\ job.todo # << >> /\ e \in Left /\ job.build \in Apps
      /\ Tail(job.todo) \in Seq(Entries \union Artifacts)
      /\ ToSet(Tail(job.todo)) \subseteq Left
      /\ Left \subseteq {e} \union ToSet(Tail(job.todo))
  <2>1. job.todo # << >>
    BY <1>1 DEF JobFits, AtBackup, Stop
  <2> QED BY <1>1, <2>1, BackingUp
<1>3. /\ e \in Originators /\ b \in Old /\ b \in Entries /\ files[e] \in FileOf[b]
      /\ \A x \in Originators : Backup[x] = b => x = e
      /\ b = "oldManifest" <=> e = "manifest"
      /\ b = "oldApp" <=> e = "app"
      /\ b = "oldEnv" <=> e = "env"
  <2>1. e \in Originators
    BY <1>2
  <2>2. files[e] \in FileOf[e] /\ FileOf[e] \subseteq FileOf[Backup[e]]
    BY <2>1, FileTypes DEF DeliveryInv, DiskOK, FilesOK
  <2>3. b \in Old /\ b \in Entries
    BY <2>1, BackupsApart, FileTypes
  <2> QED BY <2>1, <2>2, <2>3, BackupsApart DEF Originators
<1>4. JobOK' /\ job'.at = "backup" /\ job'.todo = Tail(job.todo)
      /\ job'.then = job.then /\ job'.build = job.build
  BY <1>1, <1>2, Names DEF JobOK, Jobs
<1> HIDE DEF e, b
<1>5. /\ DiskOK' /\ unsynced'[b] = {files[e]} /\ files'[b] = files[e]
      /\ \A x \in Entries \ {b} : files'[x] = files[x] /\ unsynced'[x] = unsynced[x]
  BY <1>1, <1>3 DEF DeliveryInv, DiskOK, FilesOK, UnsyncedOK
<1>6. Stop' = "backup" /\ Left' = ToSet(Tail(job.todo))
  BY <1>4 DEF Stop, Left
<1>7. /\ files'.receipt = files.receipt /\ unsynced'.receipt = unsynced.receipt
      /\ files'.app = files.app /\ files'.env = files.env /\ Phase' = Phase
      /\ SettingsKept'
  BY <1>1, <1>3, <1>5 DEF Old, Entries, Phase, SettingsKept, DeliveryInv, Lines
<1>8. DiskFits'
  <2>1. FilesStand'
    BY <1>5 DEF DeliveryInv, DiskFits, FilesStand
  <2> QED BY <1>2, <1>7, <2>1 DEF DiskFits, TornUnpromised, UnreceiptedSettled, BackedUp
<1>9. /\ files.receipt.hadApp => files.app # NoFile
      /\ files.receipt.hadEnv => files.env # NoFile
  BY <1>1, <1>2 DEF JobFits, AtBackup
<1>10. /\ files.manifest \in Manifests /\ files.app \in Apps \union {NoFile}
       /\ files.env \in Envs \union {NoFile}
  BY FileTypes DEF DeliveryInv, DiskOK, FilesOK, Originators
<1>11. BackedUp'
  <2>1. \A x \in Originators : Torn \notin unsynced'[Backup[x]]
    <3>1. Torn # files[e]
      BY <1>3, <1>10, NamesAssumption, NoFileAssumption DEF Originators
    <3>2. ASSUME NEW x \in Originators, x # e PROVE Torn \notin unsynced'[Backup[x]]
      <4>1. Backup[x] \in Entries \ {b} /\ Torn \notin unsynced[Backup[x]]
        BY <1>2, <1>3, <3>2, BackupsApart, FileTypes DEF BackedUp, e
      <4> QED BY <1>5, <4>1
    <3> QED BY <1>3, <1>5, <3>1, <3>2, NoFileAssumption DEF b, e
  <2>2. "manifest" \notin Left' => unsynced'.oldManifest \subseteq Manifests
    <3>1. CASE e = "manifest"
      BY <1>3, <1>5, <1>10, <3>1
    <3>2. CASE e # "manifest"
      BY <1>2, <1>3, <1>5, <1>6, <3>2 DEF BackedUp, Entries
    <3> QED BY <3>1, <3>2
  <2>3. files'.receipt.hadApp /\ "app" \notin Left' => unsynced'.oldApp \subseteq Apps
    <3>1. CASE e = "app"
      BY <1>3, <1>5, <1>7, <1>9, <1>10, <3>1
    <3>2. CASE e # "app"
      BY <1>2, <1>3, <1>5, <1>6, <1>7, <3>2 DEF BackedUp, Entries
    <3> QED BY <3>1, <3>2
  <2>4. files'.receipt.hadEnv /\ "env" \notin Left' => unsynced'.oldEnv \subseteq Envs
    <3>1. CASE e = "env"
      BY <1>3, <1>5, <1>7, <1>9, <1>10, <3>1
    <3>2. CASE e # "env"
      BY <1>2, <1>3, <1>5, <1>6, <1>7, <3>2 DEF BackedUp, Entries
    <3> QED BY <3>1, <3>2
  <2> QED BY <1>2, <1>7, <2>1, <2>2, <2>3, <2>4 DEF BackedUp
<1>12. AtBackup'
  BY <1>2, <1>4, <1>6, <1>7, <1>9, <1>11 DEF AtBackup
<1>13. AtInstall'
  BY <1>2, <1>4, <1>6 DEF AtInstall
<1>14. AtRestore' /\ AtCleanup' /\ AtPublication'
  BY <1>1, <1>4, <1>6 DEF AtRestore, AtCleanup, AtPublication, JobFits, Logged
<1> QED BY <1>1, <1>4, <1>5, <1>7, <1>8, <1>12, <1>13, <1>14 DEF JobFits

LEMMA BackupFailed ==
    ASSUME DeliveryInv, UNCHANGED stage, BackupFails
    PROVE  DiskOK' /\ JobOK' /\ StageOK' /\ SettingsKept' /\ DiskFits' /\ JobFits'
<1>1. /\ job.at \in {"backup", "copying"} /\ job.todo # << >>
      /\ files' = [e \in Entries |-> IF e \in Created THEN NoFile ELSE files[e]]
      /\ unsynced' = [e \in Entries |-> unsynced[e] \union {files'[e]}]
      /\ job' = [job EXCEPT !.at = "undo", !.then = "reply"]
      /\ UNCHANGED settings /\ JobOK /\ JobFits /\ StageOK'
  BY DEF BackupFails, ToUndo, DeliveryInv, StageOK
<1>2. Created \subseteq Old
  <2>1. Head(job.todo) \in Originators
    BY <1>1, BackingUp
  <2> QED BY <2>1, BackupsApart DEF Created, Originators
<1>3. BackedUp /\ DiskOK
  BY <1>1, BackingUp DEF DeliveryInv
<1>4. \A e \in Entries : files'[e] \in FileOf[e] /\ files'[e] \in unsynced'[e]
  <2>1. ASSUME NEW e \in Entries
        PROVE  files'[e] \in FileOf[e] /\ files'[e] \in unsynced'[e]
    <3>1. CASE e \in Created
      BY <1>1, <1>2, <3>1, FileTypes
    <3>2. CASE e \notin Created
      BY <1>1, <1>3, <3>2 DEF DiskOK, FilesOK
    <3> QED BY <3>1, <3>2
  <2> QED BY <2>1
<1>5. DiskOK'
  <2>1. FilesOK'
    BY <1>1, <1>4 DEF FilesOK
  <2>2. UnsyncedOK'
    BY <1>1, <1>3, <1>4 DEF UnsyncedOK, DiskOK
  <2> QED BY <2>1, <2>2 DEF DiskOK
<1>6. /\ files'.receipt = files.receipt /\ files'.env = files.env
      /\ "receipt" \in Entries /\ "env" \in Entries
  BY <1>1, <1>2 DEF Old, Entries
<1>7. unsynced'.receipt = unsynced.receipt
  BY <1>1, <1>6 DEF DeliveryInv, DiskFits, FilesStand
<1>8. DiskFits' /\ SettingsKept'
  <2>1. FilesStand'
    BY <1>4 DEF FilesStand
  <2>2. SettingsKept'
    BY <1>1, <1>6 DEF DeliveryInv, SettingsKept, Lines
  <2> QED BY <1>3, <1>7, <2>1, <2>2 DEF DiskFits, TornUnpromised, UnreceiptedSettled, BackedUp
<1>9. JobOK' /\ job'.at = "undo" /\ job'.then = "reply" /\ Stop' = "undo"
  BY <1>1, Names DEF JobOK, Jobs, Stop
<1>10. JobFits'
  BY <1>1, <1>9
     DEF JobFits, AtInstall, AtBackup, AtRestore, AtCleanup, AtPublication, Logged
<1> QED BY <1>1, <1>5, <1>8, <1>9, <1>10

LEMMA BackupDropped ==
    ASSUME DeliveryInv, UNCHANGED stage, Drop
    PROVE  DiskOK' /\ JobOK' /\ StageOK' /\ SettingsKept' /\ DiskFits' /\ JobFits'
<1> DEFINE e == Head(job.todo)
<1>1. /\ job.at = "drop" /\ job.todo # << >> /\ Put(e, NoFile)
      /\ job' = [job EXCEPT !.todo = Tail(@)]
      /\ UNCHANGED settings /\ JobOK /\ JobFits /\ StageOK'
  BY DEF Drop, DeliveryInv, StageOK
<1>2. /\ e \in Left /\ Tail(job.todo) \in Seq(Entries \union Artifacts)
      /\ ToSet(Tail(job.todo)) \subseteq Left
      /\ Left \subseteq {e} \union ToSet(Tail(job.todo))
  BY <1>1, TodoShrinks DEF Left
<1>3. /\ Left \subseteq Old
      /\ IF job.task = "restore" THEN Phase = "Restored" ELSE Phase \in {"None", "Ready"}
      /\ job.failed \/ \A x \in Old \ Left : files[x] = NoFile
  BY <1>1 DEF JobFits, AtCleanup, Stop
<1>4. /\ JobOK' /\ job'.at = "drop" /\ job'.todo = Tail(job.todo)
      /\ job'.then = job.then /\ job'.build = job.build
      /\ job'.failed = job.failed /\ job'.task = job.task
  BY <1>1, <1>2 DEF JobOK, Jobs
<1> HIDE DEF e
<1>5. /\ DiskOK' /\ SettingsKept' /\ DiskFits' /\ files'[e] = NoFile
      /\ \A x \in Entries \ {e} : files'[x] = files[x]
  <2>1. e \in Old /\ NoFile \in FileOf[e]
    BY <1>2, <1>3, FileTypes
  <2> QED BY <1>1, <2>1, BackupPut
<1>6. Stop' = "drop" /\ Left' = ToSet(Tail(job.todo)) /\ Phase' = Phase
  <2>1. files'.receipt = files.receipt
    BY <1>2, <1>3, <1>5 DEF Old, Entries
  <2> QED BY <1>4, <2>1 DEF Stop, Left, Phase
<1>7. job.failed \/ \A x \in Old \ Left' : files'[x] = NoFile
  BY <1>2, <1>3, <1>5, <1>6, FileTypes
<1>8. AtRestore' /\ AtCleanup'
  BY <1>2, <1>3, <1>4, <1>6, <1>7 DEF AtRestore, AtCleanup
<1> QED BY <1>1, <1>4, <1>5, <1>6, <1>8, AppLands

-----------------------------------------------------------------------------
(* Steps that write the installed files.                                   *)

LEMMA OriginatorPut ==
    ASSUME DeliveryInv, NEW e \in Originators, NEW f \in FileOf[e], Put(e, f),
           IF e = "env" THEN Lines(f) = settings' ELSE UNCHANGED settings
    PROVE  /\ DiskOK' /\ SettingsKept' /\ DiskFits' /\ files'[e] = f
           /\ \A x \in Entries \ {e} : files'[x] = files[x]
           /\ Phase' = Phase /\ (Clean' <=> Clean)
<1>1. e \in Entries /\ e \notin Old /\ e # "receipt" /\ DiskOK
  BY FileTypes DEF DeliveryInv, Old, Originators
<1>2. /\ DiskOK' /\ files'[e] = f /\ unsynced'[e] = unsynced[e] \union {f}
      /\ \A x \in Entries \ {e} : files'[x] = files[x] /\ unsynced'[x] = unsynced[x]
  BY <1>1, PutKeeps
<1>3. /\ \A x \in Old \union {"receipt"} : files'[x] = files[x] /\ unsynced'[x] = unsynced[x]
      /\ "oldEnv" \in Old
  BY <1>1, <1>2, FileTypes DEF Old
<1>4. FilesStand /\ TornUnpromised /\ UnreceiptedSettled
  BY DEF DeliveryInv, DiskFits
<1>5. FilesStand'
  BY <1>2, <1>4 DEF FilesStand
<1>6. TornUnpromised' /\ UnreceiptedSettled'
  BY <1>3, <1>4 DEF TornUnpromised, UnreceiptedSettled
<1>7. SettingsKept'
  <2>1. CASE e = "env"
    BY <1>2, <2>1 DEF SettingsKept, Lines
  <2>2. CASE e # "env"
    <3>1. files'.env = files.env
      BY <1>2, <2>2 DEF Entries
    <3> QED BY <2>2, <3>1 DEF DeliveryInv, SettingsKept, Lines
  <2> QED BY <2>1, <2>2
<1>8. Phase' = Phase /\ (Clean' <=> Clean)
  BY <1>3 DEF Phase, Clean
<1> QED BY <1>2, <1>5, <1>6, <1>7, <1>8 DEF DiskFits

LEMMA Installing ==
    ASSUME DeliveryInv, UNCHANGED stage, PublishApp \/ PublishManifest
    PROVE  DiskOK' /\ JobOK' /\ StageOK' /\ SettingsKept' /\ DiskFits' /\ JobFits'
<1>1. /\ job.at \in {"app", "manifest"} /\ UNCHANGED settings /\ JobOK /\ JobFits /\ StageOK'
  BY DEF PublishApp, PublishManifest, DeliveryInv, StageOK
<1>2. job.build \in Apps
  BY <1>1 DEF JobFits, AtInstall, Stop
<1>3. DiskOK' /\ SettingsKept' /\ DiskFits'
  <2>1. CASE PublishApp
    <3>1. "app" \in Originators /\ job.build \in FileOf["app"] /\ Put("app", job.build)
      BY <1>2, <2>1, FileTypes DEF PublishApp, Originators
    <3> QED BY <1>1, <3>1, OriginatorPut
  <2>2. CASE PublishManifest
    <3> DEFINE f == [files.manifest EXCEPT !.gui = job.build]
    <3>1. Put("manifest", f) /\ "manifest" \in Originators
      BY <2>2 DEF PublishManifest, Originators
    <3>2. files.manifest \in Manifests
      BY FileTypes DEF DeliveryInv, DiskOK, FilesOK, Originators
    <3>3. f \in Manifests
      BY <1>2, <3>2 DEF Manifests
    <3> HIDE DEF f
    <3>4. f \in FileOf["manifest"]
      BY <3>3, FileTypes
    <3> QED BY <1>1, <3>1, <3>4, OriginatorPut
  <2> QED BY <2>1, <2>2 DEF PublishApp, PublishManifest
<1>4. SyncThen("manifest") \/ SyncThen("idle")
  BY DEF PublishApp, PublishManifest
<1>5. /\ JobOK' /\ job'.at = "sync" /\ Stop' \in {"manifest", "idle"}
      /\ job'.then = job.then /\ job'.build = job.build
  BY <1>1, <1>4, Names DEF SyncThen, JobOK, Jobs, Stop
<1>6. AtRestore' /\ AtCleanup'
  BY <1>5 DEF AtRestore, AtCleanup
<1> QED BY <1>1, <1>2, <1>3, <1>5, <1>6, AppLands

(* A backup that a receipt promises is not torn.                           *)
LEMMA FormerTyped ==
    ASSUME DeliveryInv, Phase = "Prepared", NEW e \in Originators,
           CanRestore(files.receipt, e)
    PROVE  /\ Former(files.receipt, e) \in FileOf[e]
           /\ e = "env" => Lines(Former(files.receipt, e)) = settings
<1>1. files.receipt # NoFile /\ files.receipt.phase = "Prepared"
  BY DEF Phase
<1>2. \A b \in Old : files[b] # Torn
  <2>1. files.receipt \in unsynced.receipt /\ \A b \in Old : files[b] \in unsynced[b]
    BY FileTypes DEF DeliveryInv, DiskFits, FilesStand
  <2> QED BY <1>1, <2>1 DEF DeliveryInv, DiskFits, TornUnpromised
<1>3. /\ files.oldApp \in Apps \union {NoFile} /\ files.oldManifest \in Manifests \union {NoFile}
      /\ files.oldEnv \in Envs \union {NoFile} /\ files.env \in Envs \union {NoFile}
  BY <1>2, FileTypes DEF DeliveryInv, DiskOK, FilesOK, Old, Originators
<1>4. CASE e = "env"
  <2> DEFINE block == IF files.receipt.hadEnv /\ files.oldEnv # NoFile THEN files.oldEnv.block
                      ELSE NoFile
  <2>1. block \in Apps \union {NoFile}
    BY <1>3 DEF Envs
  <2>2. Former(files.receipt, e) = WithBlock(files.env, block)
    BY <1>4 DEF Former, FormerEnv
  <2> HIDE DEF block
  <2>3. /\ WithBlock(files.env, block) \in Envs \union {NoFile}
        /\ Lines(WithBlock(files.env, block)) = settings
    BY <1>3, <2>1, BlockKeepsLines DEF DeliveryInv, SettingsKept
  <2> QED BY <1>4, <2>2, <2>3, FileTypes
<1>5. CASE e = "manifest"
  <2>1. Former(files.receipt, e) = files.oldManifest /\ files.oldManifest # NoFile
    BY <1>5 DEF Former, CanRestore
  <2> QED BY <1>3, <1>5, <2>1, FileTypes
<1>6. CASE e = "app"
  <2>1. Former(files.receipt, e) \in {files.oldApp, NoFile}
    BY <1>6 DEF Former
  <2> QED BY <1>3, <1>6, <2>1, FileTypes
<1> QED BY <1>4, <1>5, <1>6 DEF Originators

LEMMA CopiesKeep ==
    ASSUME DeliveryInv, UNCHANGED stage, CopyBack
    PROVE  DiskOK' /\ JobOK' /\ StageOK' /\ SettingsKept' /\ DiskFits' /\ JobFits'
<1> DEFINE e == Head(job.todo)
<1>1. /\ job.at = "copy" /\ job.todo # << >> /\ UNCHANGED <<main, settings>>
      /\ JobOK /\ JobFits /\ StageOK'
      /\ IF CanRestore(files.receipt, e)
         THEN Put(e, Former(files.receipt, e)) /\ job' = [job EXCEPT !.todo = Tail(@)]
         ELSE /\ job' = [job EXCEPT !.todo = Tail(@), !.failed = TRUE]
              /\ UNCHANGED <<files, unsynced>>
  BY DEF CopyBack, DeliveryInv, StageOK
<1>2. /\ e \in Left /\ Tail(job.todo) \in Seq(Entries \union Artifacts)
      /\ ToSet(Tail(job.todo)) \subseteq Left
  BY <1>1, TodoShrinks DEF Left
<1>3. e \in Originators /\ Left \subseteq Originators /\ Phase = "Prepared"
      /\ job.task = "restore"
  BY <1>1, <1>2 DEF JobFits, AtRestore, Stop
<1>4. /\ JobOK' /\ job'.at = "copy" /\ job'.todo = Tail(job.todo)
      /\ job'.then = job.then /\ job'.build = job.build /\ job'.task = job.task
  BY <1>1, <1>2 DEF JobOK, Jobs
<1> HIDE DEF e
<1>5. DiskOK' /\ SettingsKept' /\ DiskFits' /\ Phase' = Phase
  <2>1. CASE CanRestore(files.receipt, e)
    <3>1. /\ Former(files.receipt, e) \in FileOf[e]
          /\ e = "env" => Lines(Former(files.receipt, e)) = settings'
      BY <1>1, <1>3, <2>1, FormerTyped
    <3> QED BY <1>1, <1>3, <2>1, <3>1, OriginatorPut
  <2>2. CASE ~CanRestore(files.receipt, e)
    <3>1. Still
      BY <1>1, <2>2 DEF Still
    <3> QED BY <3>1, StillKeeps DEF Still, Phase
  <2> QED BY <2>1, <2>2
<1>6. Stop' = "copy" /\ Left' = ToSet(Tail(job.todo))
  BY <1>4 DEF Stop, Left
<1>7. AtRestore' /\ AtCleanup'
  BY <1>2, <1>3, <1>4, <1>5, <1>6 DEF AtRestore, AtCleanup
<1> QED BY <1>1, <1>4, <1>5, <1>6, <1>7, AppLands

(* The managed block is set and removed in the lines that are there.       *)
LEMMA BlockPut ==
    ASSUME DeliveryInv, UNCHANGED settings, NEW block \in Apps \union {NoFile},
           Put("env", WithBlock(files.env, block))
    PROVE  /\ DiskOK' /\ SettingsKept' /\ DiskFits' /\ Phase' = Phase /\ (Clean' <=> Clean)
<1>1. "env" \in Originators /\ files.env \in Envs \union {NoFile}
  BY FileTypes DEF DeliveryInv, DiskOK, FilesOK, Originators
<1>2. /\ WithBlock(files.env, block) \in FileOf["env"]
      /\ Lines(WithBlock(files.env, block)) = settings'
  BY <1>1, BlockKeepsLines, FileTypes DEF DeliveryInv, SettingsKept
<1> QED BY <1>1, <1>2, OriginatorPut

LEMMA ManagedKeeps ==
    ASSUME DeliveryInv, UNCHANGED stage, StartManaged \/ Arm \/ Unmanage
    PROVE  DiskOK' /\ JobOK' /\ StageOK' /\ SettingsKept' /\ DiskFits' /\ JobFits'
<1>1. UNCHANGED <<main, settings>> /\ JobOK /\ JobFits /\ StageOK'
  BY DEF StartManaged, Arm, Unmanage, DeliveryInv, StageOK
<1>2. CASE StartManaged
  <2>1. /\ job' = [Idle EXCEPT !.at = "arm", !.build = files.app] /\ files.app \in Apps
        /\ Put("env", WithBlock(files.env, NoFile)) \/ UNCHANGED <<files, unsynced>>
    <3>1. files.app \in Apps \union {NoFile}
      BY FileTypes DEF DeliveryInv, DiskOK, FilesOK, Originators
    <3> QED BY <1>2, <3>1 DEF StartManaged
  <2>2. DiskOK' /\ SettingsKept' /\ DiskFits'
    <3>1. CASE Put("env", WithBlock(files.env, NoFile))
      BY <1>1, <3>1, BlockPut
    <3>2. CASE UNCHANGED <<files, unsynced>>
      BY <1>1, <3>2, StillKeeps DEF Still
    <3> QED BY <2>1, <3>1, <3>2
  <2>3. JobOK' /\ job'.at = "arm" /\ job'.then = "reply"
    BY <2>1, Names, IdleTyped DEF JobOK, Jobs, Idle
  <2>4. Stop' = "arm"
    BY <2>3 DEF Stop
  <2>5. AtRestore' /\ AtCleanup'
    BY <2>3, <2>4 DEF AtRestore, AtCleanup
  <2> QED BY <1>1, <2>2, <2>3, <2>4, <2>5, AppLands
<1>3. CASE Arm
  <2>1. Put("env", WithBlock(files.env, job.build)) /\ job.build \in Apps \union {NoFile}
    BY <1>1, <1>3 DEF Arm, JobOK, Jobs
  <2>2. DiskOK' /\ SettingsKept' /\ DiskFits'
    BY <1>1, <2>1, BlockPut
  <2>3. JobOK' /\ job'.at = "launch" /\ job'.then = job.then /\ job'.build = job.build
    BY <1>1, <1>3, Names DEF Arm, Goto, JobOK, Jobs
  <2>4. Stop' = "launch"
    BY <2>3 DEF Stop
  <2>5. AtRestore' /\ AtCleanup'
    BY <2>3, <2>4 DEF AtRestore, AtCleanup
  <2> QED BY <1>1, <2>2, <2>3, <2>4, <2>5, AppLands
<1>4. CASE Unmanage
  <2>1. job.at = "unmanage" /\ Put("env", WithBlock(files.env, NoFile)) /\ Goto("resume")
    BY <1>4 DEF Unmanage
  <2>2. DiskOK' /\ SettingsKept' /\ DiskFits' /\ Phase' = Phase /\ (Clean' <=> Clean)
    BY <1>1, <2>1, BlockPut
  <2>3. JobOK' /\ job'.at = "resume" /\ job'.then = job.then /\ job'.build = job.build
    BY <1>1, <2>1, Names DEF Goto, JobOK, Jobs
  <2>4. MayInstall'
    BY <1>1, <2>1, <2>2 DEF MayInstall, JobFits, AtCleanup, Stop
  <2>5. Stop' = "resume"
    BY <2>3 DEF Stop
  <2>6. AtRestore' /\ AtCleanup'
    BY <2>3, <2>5 DEF AtRestore, AtCleanup
  <2> QED BY <1>1, <2>2, <2>3, <2>4, <2>5, <2>6, AppLands
<1> QED BY <1>2, <1>3, <1>4

LEMMA DisarmKeeps ==
    ASSUME DeliveryInv, Disarm
    PROVE  DiskOK' /\ JobOK' /\ StageOK' /\ SettingsKept' /\ DiskFits' /\ JobFits'
<1>1. /\ job.at = "disarm" /\ Put("env", NoFile) /\ settings' = NoLines /\ Goto("save")
      /\ JobOK /\ StageOK' /\ AtPublication /\ UNCHANGED stage
  BY DEF Disarm, DeliveryInv, JobFits, StageOK
<1>2. DiskOK' /\ SettingsKept' /\ DiskFits'
  <2>1. "env" \in Originators /\ NoFile \in FileOf["env"] /\ Lines(NoFile) = NoLines
    BY FileTypes DEF Originators, Lines
  <2> QED BY <1>1, <2>1, OriginatorPut
<1>3. job.then = "reply" /\ stage # NoFile /\ Left \subseteq Artifacts
  BY <1>1 DEF AtPublication, Stop
<1>4. JobOK' /\ job'.at = "save" /\ job'.then = "reply" /\ job'.todo = job.todo
  BY <1>1, <1>3, Names DEF Goto, JobOK, Jobs
<1>5. AtPublication'
  BY <1>1, <1>3, <1>4 DEF AtPublication, Stop, Left, Logged
<1> QED BY <1>1, <1>2, <1>4, <1>5, PublicationLands DEF Stop

(* A rename with the sync of its directory, or the platform's Main.        *)
LEMMA PlaceKeeps ==
    ASSUME DeliveryInv, UNCHANGED settings, NEW e \in Artifacts, NEW f \in ArtifactOf[e],
           Place(e, f)
    PROVE  DiskOK' /\ SettingsKept' /\ DiskFits' /\ main' \in Mains
<1>1. CASE e = "main"
  <2>1. main' = f /\ f \in Mains /\ UNCHANGED <<files, unsynced>>
    BY <1>1 DEF Place, ArtifactOf
  <2> QED BY <2>1
          DEF DeliveryInv, DiskOK, FilesOK, UnsyncedOK, SettingsKept, Lines, DiskFits,
              FilesStand, TornUnpromised, UnreceiptedSettled
<1>2. CASE e # "main"
  <2>1. /\ files' = [files EXCEPT ![e] = f] /\ Synced /\ UNCHANGED main
        /\ e \in {"app", "manifest"}
    BY <1>2 DEF Place, Synced, Artifacts
  <2>2. e \in Entries /\ f \in FileOf[e]
    BY <2>1, FileTypes DEF ArtifactOf, Entries
  <2>3. /\ FilesOK' /\ files'.env = files.env
        /\ \A x \in Entries \ {e} : files'[x] = files[x]
    BY <2>1, <2>2 DEF DeliveryInv, DiskOK, FilesOK, Entries
  <2>4. \A x \in Old \union {"receipt"} : files'[x] \in unsynced[x]
    BY <2>1, <2>3, FileTypes DEF DeliveryInv, DiskFits, FilesStand, Old
  <2>5. SettingsKept'
    BY <2>3 DEF DeliveryInv, SettingsKept, Lines
  <2> QED BY <2>1, <2>3, <2>4, <2>5, SyncedFits DEF DeliveryInv, MachineOK
<1> QED BY <1>1, <1>2

LEMMA PlacesKeep ==
    ASSUME DeliveryInv, ReplaceEntry \/ RevertEntry
    PROVE  /\ DiskOK' /\ JobOK' /\ StageOK' /\ SettingsKept' /\ DiskFits' /\ JobFits'
           /\ main' \in Mains
<1> DEFINE e == Head(job.todo)
<1>1. JobOK /\ StageOK /\ StageOK' /\ AtPublication /\ UNCHANGED <<settings, stage>>
  BY DEF ReplaceEntry, RevertEntry, DeliveryInv, JobFits, StageOK
<1>2. /\ job.at \in {"replace", "revert"} /\ job.todo # << >>
      /\ job' = [job EXCEPT !.at = job'.at, !.todo = Tail(@)]
      /\ job.at = "replace" => job'.at = "save" /\ Place(e, Staged(e))
      /\ job.at = "revert" => job'.at = "revert" /\ Place(e, stage.saved[e])
  <2>1. CASE ReplaceEntry
    <3>1. job.at = "replace" /\ job' = [job EXCEPT !.at = "save", !.todo = Tail(@)]
          /\ Place(e, Staged(e))
      BY <2>1 DEF ReplaceEntry
    <3>2. job'.at = "save"
      BY <1>1, <3>1 DEF JobOK, Jobs
    <3> QED BY <1>1, <3>1, <3>2 DEF AtPublication, Stop
  <2>2. CASE RevertEntry
    <3>1. /\ job.at = "revert" /\ job.todo # << >> /\ job' = [job EXCEPT !.todo = Tail(@)]
          /\ Place(e, stage.saved[e])
      BY <2>2 DEF RevertEntry
    <3>2. job'.at = "revert" /\ job' = [job EXCEPT !.at = job'.at, !.todo = Tail(@)]
      BY <1>1, <3>1 DEF JobOK, Jobs
    <3> QED BY <3>1, <3>2
  <2> QED BY <2>1, <2>2
<1>3. /\ stage # NoFile /\ job.then = "reply" /\ e \in Left
      /\ job.at = "replace" => Left \subseteq Artifacts
      /\ job.at = "revert" => Left \subseteq Logged
      /\ Tail(job.todo) \in Seq(Entries \union Artifacts)
      /\ ToSet(Tail(job.todo)) \subseteq Left
  BY <1>1, <1>2, TodoShrinks DEF AtPublication, Stop, Left
<1>4. e \in Artifacts
  BY <1>1, <1>2, <1>3, StageTyped
<1> HIDE DEF e
<1>5. DiskOK' /\ SettingsKept' /\ DiskFits' /\ main' \in Mains
  <2>1. CASE job.at = "replace"
    <3>1. stage.app \in Apps /\ stage.main \in Mains /\ StagedManifest \in Manifests
      BY <1>1, <1>3, StageTyped DEF StagedManifest, Manifests
    <3>2. Staged(e) \in ArtifactOf[e]
      BY <1>4, <3>1 DEF Staged, ArtifactOf, Artifacts
    <3> QED BY <1>1, <1>2, <1>4, <2>1, <3>2, PlaceKeeps
  <2>2. CASE job.at = "revert"
    <3>1. stage.saved[e] \in ArtifactOf[e]
      BY <1>1, <1>3, <2>2 DEF AtPublication
    <3> QED BY <1>1, <1>2, <1>4, <2>2, <3>1, PlaceKeeps
  <2> QED BY <1>2, <2>1, <2>2
<1>6. /\ JobOK' /\ job'.at \in {"save", "revert"} /\ job'.todo = Tail(job.todo)
      /\ job'.then = "reply"
  <2>1. job'.at \in Places
    BY <1>2, Names
  <2> QED BY <1>1, <1>2, <1>3, <2>1 DEF JobOK, Jobs
<1>7. AtPublication'
  BY <1>1, <1>2, <1>3, <1>6 DEF AtPublication, Stop, Left, Logged
<1> QED BY <1>1, <1>5, <1>6, <1>7, PublicationLands DEF Stop

-----------------------------------------------------------------------------
(* The environment.                                                        *)

LEMMA EditsKeep ==
    ASSUME DeliveryInv, UNCHANGED stage, NEW lines \in Settings, OperatorEdits(lines)
    PROVE  DeliveryInv'
<1> DEFINE block == IF files.env = NoFile THEN NoFile ELSE files.env.block
           env == [lines |-> lines, block |-> block]
<1>1. /\ files' = [files EXCEPT !.env = env] /\ unsynced' = [unsynced EXCEPT !.env = {env}]
      /\ settings' = lines /\ UNCHANGED <<main, running, launcher, job, stage>>
      /\ DiskOK /\ JobFits
  BY DEF OperatorEdits, DeliveryInv
<1>2. env \in Envs
  <2>1. files.env \in Envs \union {NoFile}
    BY <1>1, FileTypes DEF DiskOK, FilesOK, Originators
  <2>2. block \in Apps \union {NoFile}
    BY <2>1 DEF Envs
  <2> QED BY <2>2 DEF Envs
<1>3. env.lines = lines /\ env # NoFile
  BY <1>2, NamesAssumption
<1> HIDE DEF env
<1>4. /\ DOMAIN files' = Entries /\ DOMAIN unsynced' = Entries
      /\ files'.env = env /\ unsynced'.env = {env} /\ "env" \in Entries
      /\ \A e \in Entries \ {"env"} : files'[e] = files[e] /\ unsynced'[e] = unsynced[e]
  BY <1>1 DEF DiskOK, FilesOK, UnsyncedOK, Entries
<1>5. DiskOK'
  <2>1. env \in FileOf["env"]
    BY <1>2, FileTypes
  <2> QED BY <1>1, <1>4, <2>1 DEF DiskOK, FilesOK, UnsyncedOK
<1>6. \A e \in Old \union {"receipt", "app"} : files'[e] = files[e] /\ unsynced'[e] = unsynced[e]
  BY <1>4, FileTypes DEF Old, Originators
<1>7. DiskFits'
  <2>1. FilesStand /\ TornUnpromised /\ UnreceiptedSettled
    BY DEF DeliveryInv, DiskFits
  <2>2. FilesStand'
    BY <1>4, <2>1 DEF FilesStand
  <2>3. TornUnpromised' /\ UnreceiptedSettled'
    BY <1>6, <2>1 DEF TornUnpromised, UnreceiptedSettled, Old
  <2> QED BY <2>2, <2>3 DEF DiskFits
<1>8. SettingsKept'
  BY <1>1, <1>3, <1>4 DEF SettingsKept, Lines
<1>9. /\ Stop' = Stop /\ Left' = Left /\ Logged' = Logged /\ Phase' = Phase
      /\ (Clean' <=> Clean)
  BY <1>1, <1>6 DEF Stop, Left, Logged, Phase, Clean
<1>10. AtInstall'
  BY <1>1, <1>9 DEF JobFits, AtInstall, MayInstall
<1>11. BackedUp => BackedUp'
  BY <1>1, <1>6, <1>9, BackupsApart DEF BackedUp, Old
<1>12. AtBackup'
  BY <1>1, <1>3, <1>4, <1>6, <1>9, <1>11 DEF JobFits, AtBackup
<1>13. AtRestore'
  BY <1>1, <1>9 DEF JobFits, AtRestore
<1>14. AtCleanup'
  BY <1>1, <1>6, <1>9 DEF JobFits, AtCleanup
<1>15. AtPublication'
  BY <1>1, <1>9 DEF JobFits, AtPublication
<1>16. MachineOK' /\ JobOK' /\ StageOK'
  BY <1>1 DEF DeliveryInv, MachineOK, JobOK, StageOK
<1> QED BY <1>5, <1>7, <1>8, <1>10, <1>12, <1>13, <1>14, <1>15, <1>16 DEF DeliveryInv, JobFits

(* Steps of the launcher, and steps that change nothing.                   *)
LEMMA LauncherKeeps ==
    ASSUME DeliveryInv, Still, UNCHANGED job, running' \in Mains, launcher' \in Launchers
    PROVE  DeliveryInv'
<1>1. DiskOK' /\ StageOK' /\ SettingsKept' /\ DiskFits'
  BY StillKeeps
<1>2. MachineOK' /\ JobOK'
  BY DEF DeliveryInv, MachineOK, JobOK, Still
<1>3. /\ Stop' = Stop /\ Left' = Left /\ Logged' = Logged /\ Phase' = Phase
      /\ UNCHANGED <<files, unsynced, job, stage>> /\ (Clean' <=> Clean)
  BY DEF Stop, Left, Logged, Phase, Clean, Still
<1>4. AtInstall' /\ AtRestore' /\ AtCleanup' /\ AtPublication'
  BY <1>3 DEF DeliveryInv, JobFits, AtInstall, MayInstall, AtRestore, AtCleanup, AtPublication
<1>5. AtBackup'
  BY <1>3 DEF DeliveryInv, JobFits, AtBackup, BackedUp
<1> QED BY <1>1, <1>2, <1>4, <1>5 DEF DeliveryInv, JobFits

LEMMA EnvironmentKeeps == ASSUME DeliveryInv, Environment PROVE DeliveryInv'
<1>1. CASE \E lines \in Settings : OperatorEdits(lines)
  BY <1>1, EditsKeep DEF Environment
<1>2. CASE BecomesReady \/ Relaunches
  <2>1. Still /\ UNCHANGED <<job, running>>
    BY <1>2 DEF Environment, BecomesReady, Relaunches, Still, disk
  <2>2. launcher' \in Launchers
    <3>1. launcher \in Launchers /\ Resumed \in Launchers
      BY LauncherTypes DEF DeliveryInv, MachineOK, DiskOK
    <3>2. CASE BecomesReady
      BY <3>1, <3>2 DEF BecomesReady, Launchers
    <3>3. CASE Relaunches
      BY <3>1, <3>3 DEF Relaunches
    <3> QED BY <1>2, <3>2, <3>3
  <2>3. running' \in Mains
    BY <2>1 DEF DeliveryInv, MachineOK
  <2> QED BY <2>1, <2>2, <2>3, LauncherKeeps
<1> QED BY <1>1, <1>2 DEF Environment

-----------------------------------------------------------------------------
(* Main and its launcher, under a step of the agent.                       *)

LEMMA AgentKeepsMachine ==
    ASSUME DeliveryInv, AppStep \/ AppFails \/ Request \/ AgentDies \/ Sync
    PROVE  MachineOK'
<1>1. MachineOK /\ FilesOK
  BY DEF DeliveryInv, DiskOK
<1>2. Suspended \in Launchers /\ Resumed \in Launchers /\ launcher \in Launchers
  BY <1>1, LauncherTypes DEF MachineOK
<1>3. CASE AppStep
  <2>1. UNCHANGED <<main, running, settings>>
    BY <1>3
       DEF AppStep, SavePreparing, BackupStarts, BackupEnds, SavePrepared, PublishApp,
           PublishManifest, Arm, Launch, Verified, SaveReady, FinishWithoutReceipt,
           RecoverVerified, RecoverReady, RecoverOutstanding, RecoverNothing,
           RecoverLegacyPair, RecoverLegacyRest, Restore, CopyBack, CopiedBack, SaveRestored,
           Drop, Dropped, RemoveReceipt, Unmanage, Resumes, NotFinished, StartFails, disk
  <2>2. launcher' \in {launcher, Suspended, Resumed}
    BY <1>3
       DEF AppStep, SavePreparing, BackupStarts, BackupEnds, SavePrepared, PublishApp,
           PublishManifest, Arm, Launch, Verified, SaveReady, FinishWithoutReceipt,
           RecoverVerified, RecoverReady, RecoverOutstanding, RecoverNothing,
           RecoverLegacyPair, RecoverLegacyRest, Restore, CopyBack, CopiedBack, SaveRestored,
           Drop, Dropped, RemoveReceipt, Unmanage, Resumes, NotFinished, StartFails,
           Quiesce, Resume
  <2> QED BY <1>1, <1>2, <2>1, <2>2 DEF MachineOK
<1>4. CASE AppFails \/ AgentDies \/ Sync
  <2>1. UNCHANGED <<main, running, settings, launcher>>
    BY <1>4
       DEF AppFails, BackupFails, InstallFails, SkipFailed, StepFails, StartFails, AgentDies,
           Sync, disk
  <2> QED BY <1>1, <2>1 DEF MachineOK
<1>5. CASE Request
  <2>1. UNCHANGED <<main, running, settings>> /\ launcher' \in {launcher, Suspended}
    BY <1>5
       DEF Request, Upload, StartRunning, StartManaged, Recover, Publish, RestoreStage,
           FinishStage, Quiesce, disk
  <2> QED BY <1>1, <1>2, <2>1 DEF MachineOK
<1> QED BY <1>3, <1>4, <1>5

LEMMA PublicationKeepsMachine ==
    ASSUME DeliveryInv, PublicationStep \/ PublicationFails PROVE MachineOK'
<1>1. MachineOK /\ FilesOK
  BY DEF DeliveryInv, DiskOK
<1>2. /\ Suspended \in Launchers /\ Resumed \in Launchers /\ launcher \in Launchers
      /\ [Resumed EXCEPT !.ready = TRUE] \in Launchers
  BY <1>1, LauncherTypes DEF MachineOK
<1>3. CASE ReplaceEntry \/ RevertEntry
  <2>1. UNCHANGED <<running, launcher, settings>> /\ main' \in Mains
    BY <1>3, PlacesKeep DEF ReplaceEntry, RevertEntry
  <2> QED BY <1>1, <2>1 DEF MachineOK
<1>4. CASE Disarm
  <2>1. UNCHANGED <<main, running>> /\ launcher' = Suspended /\ settings' = NoLines
    BY <1>4 DEF Disarm, Quiesce
  <2> QED BY <1>1, <1>2, <2>1, SettingsAssumption DEF MachineOK
<1>5. CASE \/ SaveEntry \/ AwaitReboot \/ ReloadHealthy \/ Reverted \/ ResumesMain
           \/ Discard \/ PublishFails \/ RevertFails
  <2>1. /\ UNCHANGED <<main, settings>> /\ running' \in {running, main}
        /\ launcher' \in {launcher, Resumed, [Resumed EXCEPT !.ready = TRUE]}
    BY <1>5
       DEF SaveEntry, AwaitReboot, ReloadHealthy, Reverted, ResumesMain, Discard,
           PublishFails, RevertFails, Resume, disk
  <2> QED BY <1>1, <1>2, <2>1 DEF MachineOK
<1> QED BY <1>3, <1>4, <1>5 DEF PublicationStep, PublicationFails

-----------------------------------------------------------------------------
(* The invariant is inductive.                                             *)

LEMMA DiskStands ==
    ASSUME DeliveryInv, UNCHANGED disk PROVE DiskOK' /\ SettingsKept' /\ DiskFits'
  BY DEF disk, DeliveryInv, DiskOK, FilesOK, UnsyncedOK, SettingsKept, Lines, DiskFits,
         FilesStand, TornUnpromised, UnreceiptedSettled

LEMMA AgentKeeps ==
    ASSUME DeliveryInv, UNCHANGED stage,
           \/ AppStep \/ AppFails \/ Sync \/ AgentDies
           \/ \E app \in Apps : Upload(app)
           \/ StartRunning \/ StartManaged \/ Recover
    PROVE  DiskOK' /\ JobOK' /\ StageOK' /\ SettingsKept' /\ DiskFits' /\ JobFits'
<1>1. ASSUME UNCHANGED disk, JobOK' /\ JobFits'
      PROVE  DiskOK' /\ JobOK' /\ StageOK' /\ SettingsKept' /\ DiskFits' /\ JobFits'
  BY <1>1, DiskStands DEF DeliveryInv, StageOK
<1>2. CASE (\E app \in Apps : Upload(app)) \/ StartRunning \/ Recover
  <2>1. UNCHANGED disk
    BY <1>2 DEF Upload, StartRunning, Recover
  <2> QED BY <1>1, <1>2, <2>1, RequestsKeep
<1>3. CASE \/ InstallFails \/ Launch \/ Verified \/ StartFails \/ NotFinished
           \/ RecoverVerified \/ RecoverNothing \/ StepFails \/ AgentDies
  <2>1. UNCHANGED disk
    BY <1>3 DEF disk, InstallFails, Launch, Verified, StartFails, NotFinished,
                RecoverVerified, RecoverNothing, StepFails, AgentDies
  <2> QED BY <1>1, <1>3, <2>1, LeavesKeep
<1>4. CASE RecoverReady \/ FinishWithoutReceipt \/ RecoverLegacyRest
  <2>1. UNCHANGED disk
    BY <1>4 DEF RecoverReady, FinishWithoutReceipt, RecoverLegacyRest
  <2> QED BY <1>1, <1>4, <2>1, CleanupStarts
<1>5. CASE RecoverOutstanding \/ Restore \/ CopiedBack \/ SkipFailed \/ Dropped \/ Resumes
  <2>1. UNCHANGED disk
    BY <1>5 DEF RecoverOutstanding, Restore, CopiedBack, SkipFailed, Dropped, Resumes
  <2>2. JobOK' /\ JobFits'
    BY <1>5, RestorationsMove, ResumesKeep
  <2> QED BY <1>1, <2>1, <2>2
<1>6. CASE SavePreparing \/ SavePrepared \/ SaveReady \/ SaveRestored \/ RecoverLegacyPair
           \/ RemoveReceipt
  BY <1>6, PreparingSaved, ReceiptsKeep
<1>7. CASE BackupStarts \/ BackupEnds \/ BackupFails \/ Drop
  BY <1>7, BackupStarted, BackupEnded, BackupFailed, BackupDropped
<1>8. CASE \/ PublishApp \/ PublishManifest \/ CopyBack \/ StartManaged \/ Arm \/ Unmanage
           \/ Sync
  BY <1>8, Installing, CopiesKeep, ManagedKeeps, SyncKeepsAll
<1> QED BY <1>2, <1>3, <1>4, <1>5, <1>6, <1>7, <1>8 DEF AppStep, AppFails

LEMMA PublicationKeeps ==
    ASSUME DeliveryInv,
           \/ PublicationStep \/ PublicationFails \/ RestoreStage \/ FinishStage
           \/ \E kind \in Kinds, app \in Apps, build \in Mains : Publish(kind, app, build)
    PROVE  DiskOK' /\ JobOK' /\ StageOK' /\ SettingsKept' /\ DiskFits' /\ JobFits'
<1>1. CASE Disarm \/ ReplaceEntry \/ RevertEntry
  BY <1>1, DisarmKeeps, PlacesKeep
<1>2. CASE AwaitReboot \/ ReloadHealthy \/ Reverted \/ ResumesMain
  <2>1. UNCHANGED disk /\ UNCHANGED stage
    BY <1>2 DEF AwaitReboot, ReloadHealthy, Reverted, ResumesMain
  <2>2. JobOK' /\ JobFits'
    BY <1>2, <2>1, LeavesKeep
  <2>3. StageOK'
    BY <2>1 DEF DeliveryInv, StageOK
  <2> QED BY <2>1, <2>2, <2>3, DiskStands
<1>3. CASE \/ \E kind \in Kinds, app \in Apps, build \in Mains : Publish(kind, app, build)
           \/ SaveEntry \/ PublishFails \/ RevertFails \/ RestoreStage \/ FinishStage
           \/ Discard
  <2>1. UNCHANGED disk
    BY <1>3 DEF Publish, SaveEntry, PublishFails, RevertFails, RestoreStage, FinishStage,
                Discard
  <2> QED BY <1>3, <2>1, DiskStands, PublicationMoves
<1> QED BY <1>1, <1>2, <1>3 DEF PublicationStep, PublicationFails

LEMMA NextKeeps == ASSUME DeliveryInv, Next PROVE DeliveryInv'
<1>2. CASE Request
  <2>1. MachineOK'
    BY <1>2, AgentKeepsMachine
  <2>2. DiskOK' /\ JobOK' /\ StageOK' /\ SettingsKept' /\ DiskFits' /\ JobFits'
    BY <1>2, AgentKeeps, PublicationKeeps DEF Request
  <2> QED BY <2>1, <2>2 DEF DeliveryInv
<1>3. CASE (AppStep \/ Sync) /\ UNCHANGED stage
  BY <1>3, AgentKeeps, AgentKeepsMachine DEF DeliveryInv
<1>4. CASE AppFails /\ UNCHANGED stage
  BY <1>4, AgentKeeps, AgentKeepsMachine DEF DeliveryInv
<1>5. CASE PublicationStep \/ PublicationFails
  BY <1>5, PublicationKeeps, PublicationKeepsMachine DEF DeliveryInv
<1>6. CASE AgentDies
  <2>1. UNCHANGED stage
    BY <1>6 DEF AgentDies
  <2> QED BY <1>6, <2>1, AgentKeeps, AgentKeepsMachine DEF DeliveryInv
<1>7. CASE Reboot \/ PowerLoss
  BY <1>7, BootsKeep
<1>8. CASE Environment
  BY <1>8, EnvironmentKeeps
<1> QED BY <1>2, <1>3, <1>4, <1>5, <1>6, <1>7, <1>8 DEF Next, Step, Fails

LEMMA InitHolds == Init => DeliveryInv
<1> SUFFICES ASSUME Init PROVE DeliveryInv
  OBVIOUS
<1>1. PICK app \in Apps, build \in Mains, lines \in Settings, first \in BOOLEAN,
           old \in Apps \union {NoFile}, gui \in Apps, whole \in BOOLEAN :
           /\ main = build /\ running = build /\ settings = lines
           /\ first => old = NoFile
           /\ ~whole => gui = app
           /\ whole => old # NoFile /\ gui \in {app, old}
           /\ files = [app |-> IF first THEN NoFile ELSE app,
                       manifest |-> [gui |-> gui, main |-> build],
                       env |-> IF lines = NoLines THEN NoFile
                               ELSE [lines |-> lines, block |-> NoFile],
                       receipt |-> NoFile, oldApp |-> old, oldEnv |-> NoFile,
                       oldManifest |-> IF whole THEN [gui |-> old, main |-> build]
                                       ELSE NoFile]
  BY DEF Init
<1>2. /\ unsynced = [e \in Entries |-> {files[e]}]
      /\ launcher = Resumed /\ job = Idle /\ stage = NoFile
  BY DEF Init
<1>3. /\ files.app \in Apps \union {NoFile} /\ files.manifest \in Manifests
      /\ files.env \in Envs \union {NoFile} /\ files.receipt = NoFile
      /\ files.oldApp \in Apps \union {NoFile} /\ files.oldEnv = NoFile
      /\ files.oldManifest \in Manifests \union {NoFile}
      /\ DOMAIN files = Entries /\ Lines(files.env) = settings
  <2>1. [gui |-> gui, main |-> build] \in Manifests
    BY DEF Manifests
  <2>2. whole => [gui |-> old, main |-> build] \in Manifests
    BY <1>1 DEF Manifests
  <2>3. [lines |-> lines, block |-> NoFile] \in Envs
    BY DEF Envs
  <2>4. [lines |-> lines, block |-> NoFile] # NoFile
    BY <2>3, NamesAssumption
  <2>5. files.env = IF lines = NoLines THEN NoFile ELSE [lines |-> lines, block |-> NoFile]
    BY <1>1
  <2>6. Lines(files.env) = settings
    BY <1>1, <2>4, <2>5 DEF Lines
  <2>7. DOMAIN files = Entries
    BY <1>1 DEF Entries
  <2> QED BY <1>1, <2>1, <2>2, <2>3, <2>5, <2>6, <2>7
<1>4. FilesOK
  <2>1. \A e \in Entries : files[e] \in FileOf[e]
    BY <1>3, FileTypes DEF Entries
  <2> QED BY <1>3, <2>1 DEF FilesOK
<1>5. DiskOK
  BY <1>2, <1>4 DEF DiskOK, FilesOK, UnsyncedOK
<1>6. \A e \in Old : files[e] # Torn
  BY <1>3, NoFileAssumption, NamesAssumption DEF Old
<1>7. DiskFits
  <2>1. \A e \in Entries : unsynced[e] = {files[e]}
    BY <1>2
  <2>2. Old \subseteq Entries
    BY FileTypes
  <2>3. TornUnpromised
    BY <1>6, <2>1, <2>2 DEF TornUnpromised
  <2>4. UnreceiptedSettled
    BY <1>3, <2>1, <2>2 DEF UnreceiptedSettled, Old
  <2> QED BY <2>1, <2>3, <2>4 DEF DiskFits, FilesStand
<1>8. MachineOK
  BY <1>1, <1>2, <1>4, LauncherTypes DEF MachineOK
<1>9. JobOK /\ job.at = "idle" /\ job.then = "reply"
  BY <1>2, IdleTyped DEF JobOK, Idle
<1>10. JobFits
  BY <1>2, <1>9 DEF JobFits, AtInstall, AtBackup, AtRestore, AtCleanup, AtPublication, Stop
<1> QED BY <1>2, <1>3, <1>5, <1>7, <1>8, <1>9, <1>10 DEF DeliveryInv, StageOK, SettingsKept

LEMMA DeliveryInvHolds == Spec => []DeliveryInv
<1>1. DeliveryInv /\ [Next]_vars => DeliveryInv'
  <2>1. CASE Next
    BY <2>1, NextKeeps
  <2>2. ASSUME DeliveryInv, UNCHANGED vars PROVE DeliveryInv'
    <3>1. Still /\ UNCHANGED <<job, running, launcher>>
      BY <2>2 DEF vars, Still
    <3>2. running' \in Mains /\ launcher' \in Launchers
      BY <2>2, <3>1 DEF DeliveryInv, MachineOK
    <3> QED BY <2>2, <3>1, <3>2, LauncherKeeps
  <2> QED BY <2>1, <2>2
<1> QED BY <1>1, InitHolds, PTL DEF Spec

-----------------------------------------------------------------------------
(***************************************************************************)
(* Files, receipts, jobs and the stage keep their types: the agent never   *)
(* copies half of a backup into place and never loses the build it         *)
(* installs (InstallFiles::restore, publish_app).                          *)
(***************************************************************************)
THEOREM TypeCorrect == Spec => []TypeOK
<1>1. DeliveryInv => TypeOK
  BY DEF DeliveryInv, DiskOK, FilesOK, UnsyncedOK, MachineOK, Launchers, JobOK, StageOK, TypeOK
<1> QED BY <1>1, DeliveryInvHolds, PTL

(***************************************************************************)
(* Whatever fails, dies or loses power, deployment and rollback change     *)
(* only the managed block of launcher.env (restore_managed_block).         *)
(***************************************************************************)
THEOREM SettingsKeptCorrect == Spec => []SettingsKept
<1>1. DeliveryInv => SettingsKept
  BY DEF DeliveryInv
<1> QED BY <1>1, DeliveryInvHolds, PTL

(***************************************************************************)
(* publish_app never meets a backup or a receipt of an earlier             *)
(* installation: the reconciliation before it has removed them all, or the *)
(* upload has been refused.                                                *)
(***************************************************************************)
THEOREM InstallStartsCleanCorrect == Spec => []InstallStartsClean
<1>1. DeliveryInv => InstallStartsClean
  BY DEF DeliveryInv, JobFits, AtInstall, Stop, MayInstall, Clean, Old, InstallStartsClean
<1> QED BY <1>1, DeliveryInvHolds, PTL

-----------------------------------------------------------------------------
(***************************************************************************)
(* Main resumed.  What a delivery that ends with Main suspended has done   *)
(* by then, at each place of its job.                                      *)
(***************************************************************************)
AtDelivery ==
    /\ Stop # "sync"
    /\ Stop \in {"install", "backup", "copying", "app", "manifest"} \/ job.then = "install"
          => stage = NoFile
    /\ Stop \in {"backup", "copying", "app", "manifest"} => files.receipt.expected = job.build
    /\ Stop \in {"app", "manifest"} => Phase = "Prepared"
    /\ Stop = "manifest" => files.app = job.build
    /\ job.at = "sync" /\ job.to = "idle" =>
          stage = NoFile /\ Phase = "Prepared" /\ PublishedMatches(files.receipt)

(* The manifest is not overtaken once it is replaced.                      *)
AtReplacement ==
    Stop \in {"disarm", "save", "replace"} /\ "manifest" \notin Left =>
        files.manifest = StagedManifest

(* reload_healthy and the finish of a reboot saw the launcher run.         *)
AtDiscard == Stop = "discard" /\ job.task # "restore-stage" => launcher.active

ReadyRuns == launcher.ready => launcher.active

ResumeInv == AtDelivery /\ AtReplacement /\ AtDiscard /\ ReadyRuns

(* Places where none of this is asked.                                     *)
Unasked ==
    {"idle", "recover", "undo", "resume", "resume-main", "restore", "restored", "copy",
     "drop", "forget", "unmanage", "arm", "launch", "await", "finish", "revert"}

Asked == AtDelivery /\ AtReplacement /\ AtDiscard

LEMMA UnaskedLands ==
    ASSUME Stop' \in Unasked, job'.to = "idle" => job'.at # "sync",
           job'.then = "install" => stage' = NoFile
    PROVE  Asked'
<1>1. AtDelivery'
  BY DEF AtDelivery, Unasked, Stop
<1>2. AtReplacement' /\ AtDiscard'
  BY DEF AtReplacement, AtDiscard, Unasked
<1> QED BY <1>1, <1>2 DEF Asked

(* A job whose next place is given.                                        *)
LEMMA Goes ==
    ASSUME DeliveryInv, ResumeInv, UNCHANGED stage, job' \in Jobs,
           \/ job'.at \in Unasked
           \/ job'.at = "sync" /\ job'.to \in Unasked \ {"idle"},
           job'.then \in {"reply", job.then}
    PROVE  Asked'
<1>1. Stop' \in Unasked /\ (job'.to = "idle" => job'.at # "sync")
  BY DEF Stop, Unasked
<1>2. job'.then = "install" => stage' = NoFile
  BY DEF ResumeInv, AtDelivery
<1> QED BY <1>1, <1>2, UnaskedLands

(* The steps of the agent to and between such places.                      *)
LEMMA AppUnasked ==
    ASSUME DeliveryInv, ResumeInv, UNCHANGED stage, JobOK',
           \/ Arm \/ Launch \/ Verified \/ StartFails \/ SaveReady \/ FinishWithoutReceipt
           \/ NotFinished \/ RecoverVerified \/ RecoverReady \/ RecoverOutstanding
           \/ RecoverNothing \/ RecoverLegacyPair \/ RecoverLegacyRest
           \/ Restore \/ CopyBack \/ SkipFailed \/ CopiedBack \/ SaveRestored
           \/ Drop \/ Dropped \/ RemoveReceipt \/ Unmanage
           \/ InstallFails \/ BackupFails \/ StepFails \/ AgentDies
           \/ StartRunning \/ StartManaged \/ Recover \/ AwaitReboot \/ ResumesMain
    PROVE  Asked'
<1>1. job \in Jobs /\ job' \in Jobs
  BY DEF DeliveryInv, JobOK
<1>2. CASE \/ Arm \/ Launch \/ Verified \/ StartFails \/ NotFinished \/ RecoverVerified
           \/ RecoverNothing \/ InstallFails \/ BackupFails \/ StepFails \/ Unmanage
  <2>1. job'.at \in Unasked /\ job'.then \in {"reply", job.then}
    BY <1>1, <1>2
       DEF Arm, Launch, Verified, StartFails, NotFinished, RecoverVerified, RecoverNothing,
           InstallFails, BackupFails, StepFails, Unmanage, Goto, ToUndo, Jobs, Unasked
  <2> QED BY <1>1, <2>1, Goes
<1>3. CASE \/ SaveReady \/ FinishWithoutReceipt \/ RecoverReady \/ RecoverLegacyPair
           \/ RecoverLegacyRest \/ SaveRestored
  <2>1. /\ job'.then \in {"reply", job.then}
        /\ \/ job'.at \in Unasked
           \/ job'.at = "sync" /\ job'.to \in Unasked \ {"idle"}
    BY <1>1, <1>3
       DEF SaveReady, FinishWithoutReceipt, RecoverReady, RecoverLegacyPair,
           RecoverLegacyRest, SaveRestored, ToCleanup, Jobs, Unasked
  <2> QED BY <1>1, <2>1, Goes
<1>4. CASE \/ RecoverOutstanding \/ Restore \/ CopyBack \/ SkipFailed \/ CopiedBack
           \/ Drop \/ Dropped \/ RemoveReceipt
  <2>1. /\ job'.then \in {"reply", job.then}
        /\ \/ job'.at \in Unasked
           \/ job'.at = "sync" /\ job'.to \in Unasked \ {"idle"}
    BY <1>1, <1>4
       DEF RecoverOutstanding, Restore, CopyBack, SkipFailed, CopiedBack, Drop, Dropped,
           RemoveReceipt, ToRestore, Goto, SyncThen, Jobs, Unasked
  <2> QED BY <1>1, <2>1, Goes
<1>5. CASE AgentDies \/ StartRunning \/ StartManaged \/ Recover \/ AwaitReboot \/ ResumesMain
  <2>1. \/ job' = Idle
        \/ job' = [Idle EXCEPT !.at = "recover"]
        \/ job' = [Idle EXCEPT !.at = "finish", !.task = "finish"]
        \/ job' = [Idle EXCEPT !.at = "arm", !.build = files.app]
    BY <1>5 DEF AgentDies, StartRunning, StartManaged, Recover, AwaitReboot, ResumesMain
  <2>2. job'.at \in {"idle", "recover", "finish", "arm"} /\ job'.then = "reply"
    <3>1. CASE job' = Idle
      BY <3>1 DEF Idle
    <3>2. CASE job' = [Idle EXCEPT !.at = "recover"]
      BY <3>2 DEF Idle
    <3>3. CASE job' = [Idle EXCEPT !.at = "finish", !.task = "finish"]
      BY <3>3 DEF Idle
    <3>4. CASE job' = [Idle EXCEPT !.at = "arm", !.build = files.app]
      BY <3>4 DEF Idle
    <3> QED BY <2>1, <3>1, <3>2, <3>3, <3>4
  <2> QED BY <1>1, <2>2, Goes DEF Unasked
<1> QED BY <1>2, <1>3, <1>4, <1>5

(* publish_app, from its reconciliation to the new receipt.                *)
LEMMA InstallAsked ==
    ASSUME DeliveryInv, ResumeInv, UNCHANGED stage,
           Resumes \/ SavePreparing \/ SavePrepared
    PROVE  Asked'
<1>1. /\ job \in Jobs /\ DiskOK /\ JobFits /\ AtDelivery
  BY DEF DeliveryInv, JobOK, ResumeInv
<1>2. CASE Resumes
  <2>1. job'.at \in {"idle", "install"} /\ job'.then = "reply"
        /\ (job'.at = "install" => stage = NoFile)
    BY <1>1, <1>2 DEF Resumes, Idle, AtDelivery
  <2>2. AtDelivery' /\ AtReplacement' /\ AtDiscard'
    BY <2>1 DEF AtDelivery, AtReplacement, AtDiscard, Stop
  <2> QED BY <2>2 DEF Asked
<1>3. CASE SavePreparing
  <2>1. /\ job.at = "install" /\ job'.at = "sync" /\ job'.to = "backup"
        /\ job'.build = job.build
    BY <1>1, <1>3 DEF SavePreparing, Jobs
  <2>2. stage = NoFile
    BY <1>1, <2>1 DEF AtDelivery, Stop
  <2>3. files'.receipt.expected = job.build
    <3>1. files'.receipt = NewReceipt
      BY <1>1, <1>3 DEF SavePreparing, Put, DiskOK, FilesOK, Entries
    <3> QED BY <3>1 DEF NewReceipt
  <2>4. AtDelivery' /\ AtReplacement' /\ AtDiscard'
    BY <2>1, <2>2, <2>3 DEF AtDelivery, AtReplacement, AtDiscard, Stop
  <2> QED BY <2>4 DEF Asked
<1>4. CASE SavePrepared
  <2>1. /\ job.at = "backup" /\ job'.at = "sync" /\ job'.to = "app"
        /\ job'.build = job.build
    BY <1>1, <1>4 DEF SavePrepared, SyncThen, Jobs
  <2>2. stage = NoFile /\ files.receipt.expected = job.build /\ Phase = "Preparing"
    BY <1>1, <2>1 DEF AtDelivery, Stop, JobFits, AtBackup
  <2>3. files'.receipt = [files.receipt EXCEPT !.phase = "Prepared"]
    BY <1>1, <1>4 DEF SavePrepared, SaveReceipt, Put, DiskOK, FilesOK, Entries
  <2>4. files.receipt \in Receipts /\ files'.receipt # NoFile
        /\ files'.receipt.phase = "Prepared"
    BY <1>1, <2>2, <2>3, Phased, FileTypes DEF Phase, DiskOK, FilesOK, Phases
  <2>5. Phase' = "Prepared" /\ files'.receipt.expected = job.build
    BY <2>2, <2>3, <2>4 DEF Phase, Receipts
  <2>6. AtDelivery' /\ AtReplacement' /\ AtDiscard'
    BY <2>1, <2>2, <2>5 DEF AtDelivery, AtReplacement, AtDiscard, Stop
  <2> QED BY <2>6 DEF Asked
<1> QED BY <1>2, <1>3, <1>4

(* Its backups, and the two files it publishes.                            *)
LEMMA PublishAsked ==
    ASSUME DeliveryInv, ResumeInv, UNCHANGED stage,
           BackupStarts \/ BackupEnds \/ PublishApp \/ PublishManifest
    PROVE  Asked'
<1>1. /\ job \in Jobs /\ DiskOK /\ JobFits /\ AtDelivery
  BY DEF DeliveryInv, JobOK, ResumeInv
<1>2. CASE BackupStarts \/ BackupEnds
  <2>1. /\ job.at \in {"backup", "copying"} /\ job'.at \in {"backup", "copying"}
        /\ job'.build = job.build
    BY <1>1, <1>2 DEF BackupStarts, BackupEnds, Goto, Jobs
  <2>2. stage = NoFile /\ files.receipt.expected = job.build /\ Left \subseteq Originators
        /\ job.todo # << >>
    <3>1. Stop = job.at
      BY <2>1 DEF Stop
    <3>2. stage = NoFile /\ files.receipt.expected = job.build
      BY <1>1, <2>1, <3>1 DEF AtDelivery
    <3>3. Left \subseteq Originators /\ (job.at = "copying" => job.todo # << >>)
      BY <1>1, <2>1, <3>1 DEF JobFits, AtBackup
    <3>4. job.at = "copying" \/ job.todo # << >>
      BY <1>2 DEF BackupStarts, BackupEnds
    <3> QED BY <3>2, <3>3, <3>4
  <2>3. Head(job.todo) \in Originators
    BY <1>1, <2>2, HeadAndTail DEF Jobs, Left
  <2>4. Backup[Head(job.todo)] \in Old
    BY <2>3, FileTypes
  <2>5. files'.receipt = files.receipt
    BY <1>1, <1>2, <2>4 DEF BackupStarts, BackupEnds, Put, DiskOK, FilesOK, Entries, Old
  <2>6. AtDelivery' /\ AtReplacement' /\ AtDiscard'
    BY <2>1, <2>2, <2>5 DEF AtDelivery, AtReplacement, AtDiscard, Stop
  <2> QED BY <2>6 DEF Asked
<1>3. CASE PublishApp
  <2>1. /\ job.at = "app" /\ job'.at = "sync" /\ job'.to = "manifest"
        /\ job'.build = job.build
    BY <1>1, <1>3 DEF PublishApp, SyncThen, Jobs
  <2>2. stage = NoFile /\ files.receipt.expected = job.build /\ Phase = "Prepared"
    BY <1>1, <2>1 DEF AtDelivery, Stop
  <2>3. files'.receipt = files.receipt /\ files'.app = job.build
    BY <1>1, <1>3 DEF PublishApp, Put, DiskOK, FilesOK, Entries
  <2>4. Phase' = Phase
    BY <2>3 DEF Phase
  <2>5. AtDelivery' /\ AtReplacement' /\ AtDiscard'
    BY <2>1, <2>2, <2>3, <2>4 DEF AtDelivery, AtReplacement, AtDiscard, Stop
  <2> QED BY <2>5 DEF Asked
<1>4. CASE PublishManifest
  <2>1. /\ job.at = "manifest" /\ job'.at = "sync" /\ job'.to = "idle"
        /\ job'.build = job.build /\ job'.then = job.then
    BY <1>1, <1>4 DEF PublishManifest, SyncThen, Jobs
  <2>2. /\ stage = NoFile /\ files.receipt.expected = job.build /\ Phase = "Prepared"
        /\ files.app = job.build
    BY <1>1, <2>1 DEF AtDelivery, Stop
  <2>3. /\ files'.receipt = files.receipt /\ files'.app = files.app
        /\ files'.manifest = [files.manifest EXCEPT !.gui = job.build]
    BY <1>1, <1>4 DEF PublishManifest, Put, DiskOK, FilesOK, Entries
  <2>4. files'.manifest.gui = job.build
    <3>1. files.manifest \in Manifests
      BY <1>1, FileTypes DEF DiskOK, FilesOK, Entries
    <3> QED BY <2>3, <3>1 DEF Manifests
  <2>5. Phase' = "Prepared" /\ PublishedMatches(files.receipt)'
    BY <2>2, <2>3, <2>4 DEF Phase, PublishedMatches
  <2>6. AtDelivery' /\ AtReplacement' /\ AtDiscard'
    BY <2>1, <2>2, <2>5 DEF AtDelivery, AtReplacement, AtDiscard, Stop
  <2> QED BY <2>6 DEF Asked
<1> QED BY <1>2, <1>3, <1>4

LEMMA SyncAsked ==
    ASSUME DeliveryInv, ResumeInv, UNCHANGED stage, Sync PROVE Asked'
<1>1. /\ job.at = "sync" /\ UNCHANGED <<files, launcher>> /\ job \in Jobs
      /\ job' = IF job.to = "idle" THEN Idle ELSE [job EXCEPT !.at = job.to, !.to = "idle"]
  BY DEF Sync, SyncDirectory, DeliveryInv, JobOK
<1>2. CASE job.to = "idle"
  <2>1. Stop' = "idle" /\ job'.at = "idle" /\ job'.then = "reply"
    BY <1>1, <1>2 DEF Idle, Stop
  <2> QED BY <2>1, UnaskedLands DEF Unasked
<1>3. CASE job.to # "idle"
  <2>1. /\ job.to # "sync" /\ Stop = job.to
    BY <1>1 DEF ResumeInv, AtDelivery, Stop
  <2>2. /\ job'.at = job.to /\ job'.then = job.then /\ job'.build = job.build
        /\ job'.task = job.task /\ job'.todo = job.todo
    BY <1>1, <1>3 DEF Jobs
  <2>3. /\ Stop' = Stop /\ Left' = Left /\ Phase' = Phase /\ job'.at # "sync"
        /\ StagedManifest' = StagedManifest
    BY <1>1, <2>1, <2>2 DEF Stop, Left, Phase, StagedManifest
  <2>4. AtDelivery'
    BY <1>1, <2>2, <2>3 DEF ResumeInv, AtDelivery
  <2>5. AtReplacement' /\ AtDiscard'
    BY <1>1, <2>2, <2>3 DEF ResumeInv, AtReplacement, AtDiscard
  <2> QED BY <2>4, <2>5 DEF Asked
<1> QED BY <1>2, <1>3

(* The publication: the manifest is the last of its files.                 *)
LEMMA PublicationAsked ==
    ASSUME DeliveryInv, ResumeInv,
           \/ \E kind \in Kinds, app \in Apps, build \in Mains : Publish(kind, app, build)
           \/ Disarm \/ SaveEntry \/ ReplaceEntry
    PROVE  Asked'
<1>1. /\ job \in Jobs /\ DiskOK /\ JobFits /\ StageOK
  BY DEF DeliveryInv, JobOK
<1>2. CASE \E kind \in Kinds, app \in Apps, build \in Mains : Publish(kind, app, build)
  <2>1. PICK kind \in Kinds : job' = [Idle EXCEPT !.at = "disarm", !.task = "publish",
                                                  !.todo = Replaced(kind)]
    BY <1>2 DEF Publish
  <2>2. job'.at = "disarm" /\ job'.then = "reply" /\ job'.todo = Replaced(kind)
    BY <2>1 DEF Idle
  <2>3. "manifest" \in Left'
    BY <2>2, ReplacedTyped DEF Left
  <2>4. AtDelivery' /\ AtReplacement' /\ AtDiscard'
    BY <2>2, <2>3 DEF AtDelivery, AtReplacement, AtDiscard, Stop
  <2> QED BY <2>4 DEF Asked
<1>3. CASE Disarm \/ SaveEntry \/ ReplaceEntry
  <2>1. /\ job.at \in {"disarm", "save", "replace"} /\ job'.at \in {"save", "replace"}
        /\ job'.then = job.then
    BY <1>1, <1>3 DEF Disarm, SaveEntry, ReplaceEntry, Goto, Jobs
  <2>2. job.then = "reply" /\ stage # NoFile /\ Stop = job.at
    BY <1>1, <2>1 DEF JobFits, AtPublication, Stop
  <2>3. AtDelivery' /\ AtDiscard'
    BY <2>1, <2>2 DEF AtDelivery, AtDiscard, Stop
  <2>4. "manifest" \notin Left => files.manifest = StagedManifest
    BY <2>1, <2>2 DEF ResumeInv, AtReplacement
  <2>5. "manifest" \notin Left' => files'.manifest = StagedManifest'
    <3>1. CASE Disarm
      <4>1. Left' = Left /\ files'.manifest = files.manifest /\ stage' = stage
        BY <1>1, <3>1 DEF Disarm, Goto, Jobs, Left, Put, DiskOK, FilesOK, Entries
      <4> QED BY <2>4, <4>1 DEF StagedManifest
    <3>2. CASE SaveEntry
      <4>1. Left' = Left /\ files' = files
        BY <1>1, <3>2 DEF SaveEntry, Goto, Jobs, Left, disk
      <4>2. stage'.app = stage.app /\ stage'.main = stage.main
        BY <1>1, <2>2, <3>2 DEF SaveEntry, StageOK, Stages
      <4> QED BY <2>4, <4>1, <4>2 DEF StagedManifest
    <3>3. CASE ReplaceEntry
      <4>1. PICK e : e = Head(job.todo)
        OBVIOUS
      <4>2. /\ job.at = "replace" /\ Place(e, Staged(e)) /\ UNCHANGED stage
            /\ job'.todo = Tail(job.todo)
        BY <1>1, <3>3, <4>1 DEF ReplaceEntry, Jobs
      <4>3. job.todo # << >>
        BY <1>1, <2>2, <4>2 DEF JobFits, AtPublication
      <4>4. Left = {e} \union Left'
        BY <1>1, <4>1, <4>2, <4>3, HeadAndTail DEF Jobs, Left
      <4>5. CASE e = "manifest"
        <5>1. files'.manifest = StagedManifest
          BY <1>1, <4>2, <4>5 DEF Place, Staged, DiskOK, FilesOK, Entries
        <5> QED BY <4>2, <5>1 DEF StagedManifest
      <4>6. CASE e # "manifest"
        <5>1. files'.manifest = files.manifest
          BY <1>1, <4>2, <4>6 DEF Place, DiskOK, FilesOK, Entries
        <5> QED BY <2>4, <4>2, <4>4, <4>6, <5>1 DEF StagedManifest
      <4> QED BY <4>5, <4>6
    <3> QED BY <1>3, <3>1, <3>2, <3>3
  <2> QED BY <2>3, <2>5 DEF Asked, AtReplacement
<1> QED BY <1>2, <1>3

(* Its end, and the way back.                                              *)
LEMMA EndsAsked ==
    ASSUME DeliveryInv, ResumeInv, JobOK',
           \/ ReloadHealthy \/ FinishStage \/ RestoreStage \/ PublishFails
           \/ RevertEntry \/ RevertFails \/ Reverted \/ Discard
    PROVE  Asked'
<1>1. job \in Jobs /\ job' \in Jobs /\ JobFits /\ ReadyRuns
  BY DEF DeliveryInv, JobOK, ResumeInv
<1>2. CASE RestoreStage
  <2>1. job.at = "idle" /\ job'.at = "revert" /\ job'.then = job.then /\ UNCHANGED stage
    BY <1>1, <1>2 DEF RestoreStage, IsIdle, ToRevert, Jobs
  <2> QED BY <1>1, <2>1, Goes DEF Unasked
<1>3. CASE PublishFails \/ RevertEntry \/ RevertFails
  <2>1. job'.at = "revert" /\ job'.then = job.then /\ UNCHANGED stage
    BY <1>1, <1>3 DEF PublishFails, RevertEntry, RevertFails, ToRevert, Jobs
  <2> QED BY <1>1, <2>1, Goes DEF Unasked
<1>4. CASE Reverted
  <2>1. /\ job.at = "revert" /\ job'.then = job.then /\ UNCHANGED stage
        /\ \/ job'.at = "resume-main"
           \/ job'.at = "discard" /\ job'.task = "restore-stage"
    BY <1>1, <1>4 DEF Reverted, Goto, Jobs
  <2>2. job.then = "reply"
    BY <1>1, <2>1 DEF JobFits, AtPublication, Stop
  <2>3. AtDelivery' /\ AtReplacement' /\ AtDiscard'
    BY <2>1, <2>2 DEF AtDelivery, AtReplacement, AtDiscard, Stop
  <2> QED BY <2>3 DEF Asked
<1>5. CASE ReloadHealthy \/ FinishStage
  <2>1. /\ job'.at = "discard" /\ job'.then \in {"reply", job.then} /\ launcher'.active
        /\ job.at \in {"save", "idle"}
    <3>1. CASE ReloadHealthy
      BY <1>1, <3>1 DEF ReloadHealthy, Resumed, Goto, Jobs
    <3>2. CASE FinishStage
      BY <1>1, <3>2 DEF FinishStage, ReadyRuns, IsIdle, Idle
    <3> QED BY <1>5, <3>1, <3>2
  <2>2. job.then = "reply"
    BY <1>1, <2>1 DEF JobFits, AtInstall, AtPublication, Stop
  <2>3. AtDelivery' /\ AtReplacement' /\ AtDiscard'
    BY <2>1, <2>2 DEF AtDelivery, AtReplacement, AtDiscard, Stop
  <2> QED BY <2>3 DEF Asked
<1>6. CASE Discard
  <2>1. /\ job'.at \in {"idle", "resume-main"} /\ stage' = NoFile
    BY <1>1, <1>6 DEF Discard, Goto, Jobs, Idle
  <2> QED BY <2>1, UnaskedLands DEF Unasked, Stop
<1> QED BY <1>2, <1>3, <1>4, <1>5, <1>6

(* Main's child, the operator, and a boot.                                 *)
LEMMA EnvironmentAsked ==
    ASSUME DeliveryInv, ResumeInv, Environment \/ Reboot \/ PowerLoss PROVE ResumeInv'
<1>1. CASE Reboot \/ PowerLoss
  <2>1. job' = Idle /\ launcher'.active
    BY <1>1 DEF Reboot, PowerLoss, Boots
  <2>2. Asked'
    BY <2>1, UnaskedLands DEF Unasked, Stop, Idle
  <2> QED BY <2>1, <2>2 DEF Asked, ResumeInv, ReadyRuns
<1>2. CASE Environment
  <2>1. /\ UNCHANGED <<job, stage>> /\ files'.app = files.app
        /\ files'.manifest = files.manifest /\ files'.receipt = files.receipt
    <3>1. CASE \E lines \in Settings : OperatorEdits(lines)
      BY <1>2, <3>1 DEF Environment, OperatorEdits, DeliveryInv, DiskOK, FilesOK, Entries
    <3>2. CASE BecomesReady \/ Relaunches
      BY <1>2, <3>2 DEF Environment, BecomesReady, Relaunches, disk
    <3> QED BY <1>2, <3>1, <3>2 DEF Environment
  <2>2. (launcher.active => launcher'.active) /\ ReadyRuns'
    <3>1. CASE \E lines \in Settings : OperatorEdits(lines)
      BY <3>1 DEF OperatorEdits, ResumeInv, ReadyRuns
    <3>2. CASE BecomesReady
      BY <3>2 DEF BecomesReady, ReadyRuns, DeliveryInv, MachineOK, Launchers
    <3>3. CASE Relaunches
      BY <3>3 DEF Relaunches, Resumed, ReadyRuns
    <3> QED BY <1>2, <3>1, <3>2, <3>3 DEF Environment
  <2>3. Stop' = Stop /\ Left' = Left /\ Phase' = Phase /\ StagedManifest' = StagedManifest
    BY <2>1 DEF Stop, Left, Phase, StagedManifest
  <2>4. PublishedMatches(files.receipt)' <=> PublishedMatches(files.receipt)
    BY <2>1 DEF PublishedMatches
  <2>5. AtDelivery'
    BY <2>1, <2>3, <2>4 DEF ResumeInv, AtDelivery
  <2>6. AtReplacement' /\ AtDiscard'
    BY <2>1, <2>2, <2>3 DEF ResumeInv, AtReplacement, AtDiscard
  <2> QED BY <2>2, <2>5, <2>6 DEF ResumeInv
<1> QED BY <1>1, <1>2

(* A launcher that is ready is one that Main runs.                         *)
LEMMA ReadyKept ==
    ASSUME DeliveryInv, ReadyRuns,
           Request \/ AppStep \/ AppFails \/ Sync \/ AgentDies
           \/ PublicationStep \/ PublicationFails
    PROVE  ReadyRuns'
<1>1. /\ Resumed.active /\ ~Suspended.ready
      /\ [Resumed EXCEPT !.ready = TRUE].active
  BY DEF Resumed, Suspended
<1>2. CASE AppStep
  <2>1. launcher' \in {launcher, Suspended, Resumed}
    BY <1>2
       DEF AppStep, SavePreparing, BackupStarts, BackupEnds, SavePrepared, PublishApp,
           PublishManifest, Arm, Launch, Verified, SaveReady, FinishWithoutReceipt,
           RecoverVerified, RecoverReady, RecoverOutstanding, RecoverNothing,
           RecoverLegacyPair, RecoverLegacyRest, Restore, CopyBack, CopiedBack, SaveRestored,
           Drop, Dropped, RemoveReceipt, Unmanage, Resumes, NotFinished, StartFails,
           Quiesce, Resume
  <2> QED BY <1>1, <2>1 DEF ReadyRuns
<1>3. CASE AppFails \/ AgentDies \/ Sync
  <2>1. UNCHANGED launcher
    BY <1>3
       DEF AppFails, BackupFails, InstallFails, SkipFailed, StepFails, StartFails, AgentDies,
           Sync
  <2> QED BY <2>1 DEF ReadyRuns
<1>4. CASE Request
  <2>1. launcher' \in {launcher, Suspended}
    BY <1>4
       DEF Request, Upload, StartRunning, StartManaged, Recover, Publish, RestoreStage,
           FinishStage, Quiesce
  <2> QED BY <1>1, <2>1 DEF ReadyRuns
<1>5. CASE PublicationStep \/ PublicationFails
  <2>1. launcher' \in {launcher, Suspended, Resumed, [Resumed EXCEPT !.ready = TRUE]}
    BY <1>5
       DEF PublicationStep, PublicationFails, Disarm, SaveEntry, ReplaceEntry, AwaitReboot,
           ReloadHealthy, RevertEntry, Reverted, ResumesMain, Discard, PublishFails,
           RevertFails, Resume, Quiesce
  <2> QED BY <1>1, <2>1 DEF ReadyRuns
<1> QED BY <1>2, <1>3, <1>4, <1>5

LEMMA ResumeStep ==
    ASSUME HostReconciles, DeliveryInv, DeliveryInv', ResumeInv, Next PROVE ResumeInv'
<1>1. JobOK'
  BY DEF DeliveryInv
<1>2. ASSUME Asked', ReadyRuns' PROVE ResumeInv'
  BY <1>2 DEF Asked, ResumeInv
<1>3. CASE Request
  <2>1. ReadyRuns'
    BY <1>3, ReadyKept DEF ResumeInv
  <2>2. CASE RestoreStage \/ FinishStage
    BY <1>1, <1>2, <2>1, <2>2, EndsAsked
  <2>3. CASE \E kind \in Kinds, app \in Apps, build \in Mains : Publish(kind, app, build)
    BY <1>2, <2>1, <2>3, PublicationAsked
  <2>4. CASE (StartRunning \/ StartManaged \/ Recover) /\ UNCHANGED stage
    BY <1>1, <1>2, <2>1, <2>4, AppUnasked
  <2>5. CASE stage = NoFile /\ (\E app \in Apps : Upload(app)) /\ UNCHANGED stage
    <3>1. job'.at = "recover"
      BY <2>5 DEF Upload, Idle
    <3>2. Asked'
      BY <2>5, <3>1, UnaskedLands DEF Unasked, Stop
    <3> QED BY <1>2, <2>1, <3>2
  <2> QED BY <1>3, <2>2, <2>3, <2>4, <2>5 DEF Request
<1>4. CASE (AppStep \/ Sync) /\ UNCHANGED stage
  <2>1. ReadyRuns'
    BY <1>4, ReadyKept DEF ResumeInv
  <2>2. Asked'
    BY <1>1, <1>4, AppUnasked, InstallAsked, PublishAsked, SyncAsked DEF AppStep
  <2> QED BY <1>2, <2>1, <2>2
<1>5. CASE AppFails /\ UNCHANGED stage
  <2>1. ReadyRuns'
    BY <1>5, ReadyKept DEF ResumeInv
  <2>2. Asked'
    BY <1>1, <1>5, AppUnasked DEF AppFails
  <2> QED BY <1>2, <2>1, <2>2
<1>6. CASE PublicationStep \/ PublicationFails
  <2>1. ReadyRuns'
    BY <1>6, ReadyKept DEF ResumeInv
  <2>2. CASE AwaitReboot \/ ResumesMain
    <3>1. UNCHANGED stage
      BY <2>2 DEF AwaitReboot, ResumesMain
    <3> QED BY <1>1, <1>2, <2>1, <2>2, <3>1, AppUnasked
  <2>3. CASE Disarm \/ SaveEntry \/ ReplaceEntry
    BY <1>2, <2>1, <2>3, PublicationAsked
  <2>4. CASE \/ ReloadHealthy \/ PublishFails \/ RevertEntry \/ RevertFails \/ Reverted
             \/ Discard
    BY <1>1, <1>2, <2>1, <2>4, EndsAsked
  <2> QED BY <1>6, <2>2, <2>3, <2>4 DEF PublicationStep, PublicationFails
<1>7. CASE AgentDies
  <2>1. UNCHANGED stage /\ ReadyRuns'
    BY <1>7, ReadyKept DEF AgentDies, ResumeInv
  <2> QED BY <1>1, <1>2, <1>7, <2>1, AppUnasked
<1>8. CASE Environment \/ Reboot \/ PowerLoss
  BY <1>8, EnvironmentAsked
<1> QED BY <1>3, <1>4, <1>5, <1>6, <1>7, <1>8 DEF Next, Step, Fails

(* What ends a job, and what Main does then.                               *)
LEMMA EndsResumed ==
    ASSUME DeliveryInv, ResumeInv, Step, job' = Idle, ~IsIdle
    PROVE  launcher'.active \/ Awaited
<1>1. job \in Jobs /\ JobFits /\ job'.at = "idle"
  BY DEF DeliveryInv, JobOK, Idle
<1>2. CASE Sync
  <2>1. job.at = "sync" /\ job.to = "idle"
    BY <1>1, <1>2 DEF Sync, Jobs, IsIdle
  <2> QED BY <2>1 DEF ResumeInv, AtDelivery, Awaited
<1>3. CASE Resumes \/ ResumesMain
  BY <1>3 DEF Resumes, ResumesMain, Resume, Resumed
<1>4. CASE AwaitReboot
  <2>1. /\ job.at = "save" /\ Left = {} /\ stage.kind = "platform" /\ Stop = "save"
    BY <1>4, NoElements DEF AwaitReboot, Left, Stop
  <2>2. stage # NoFile /\ files.manifest = StagedManifest
    BY <1>1, <2>1 DEF JobFits, AtPublication, ResumeInv, AtReplacement
  <2> QED BY <2>1, <2>2 DEF Awaited
<1>5. CASE Discard
  <2>1. job.at = "discard" /\ job.task # "restore-stage" /\ UNCHANGED launcher
    BY <1>1, <1>5 DEF Discard, Goto, Jobs
  <2> QED BY <2>1 DEF ResumeInv, AtDiscard, Stop
<1>6. CASE \/ AppStep /\ ~Resumes
           \/ PublicationStep /\ ~AwaitReboot /\ ~ResumesMain /\ ~Discard
  <2>1. job'.at # "idle"
    <3>1. CASE \/ SavePreparing \/ BackupStarts \/ BackupEnds \/ SavePrepared \/ PublishApp
               \/ PublishManifest \/ SaveReady \/ FinishWithoutReceipt \/ RecoverReady
               \/ RecoverLegacyPair \/ RecoverLegacyRest \/ SaveRestored
      BY <1>1, <3>1
         DEF SavePreparing, BackupStarts, BackupEnds, SavePrepared, PublishApp,
             PublishManifest, SaveReady, FinishWithoutReceipt, RecoverReady,
             RecoverLegacyPair, RecoverLegacyRest, SaveRestored, ToCleanup, Goto, SyncThen,
             Jobs
    <3>2. CASE \/ Arm \/ Launch \/ Verified \/ StartFails \/ NotFinished \/ RecoverVerified
               \/ RecoverOutstanding \/ RecoverNothing \/ Restore \/ CopyBack \/ CopiedBack
               \/ Drop \/ Dropped \/ RemoveReceipt \/ Unmanage
      BY <1>1, <3>2
         DEF Arm, Launch, Verified, StartFails, NotFinished, RecoverVerified,
             RecoverOutstanding, RecoverNothing, Restore, CopyBack, CopiedBack, Drop,
             Dropped, RemoveReceipt, Unmanage, ToRestore, Goto, SyncThen, Jobs
    <3>3. CASE \/ Disarm \/ SaveEntry \/ ReplaceEntry \/ ReloadHealthy \/ RevertEntry
               \/ Reverted \/ PublishFails
      BY <1>1, <3>3 DEF Disarm, SaveEntry, ReplaceEntry, ReloadHealthy, RevertEntry,
                        Reverted, PublishFails, ToRevert, Goto, Jobs
    <3> QED BY <1>6, <3>1, <3>2, <3>3 DEF AppStep, PublicationStep
  <2> QED BY <1>1, <2>1
<1> QED BY <1>2, <1>3, <1>4, <1>5, <1>6 DEF Step

(***************************************************************************)
(* No request that ends leaves Main suspended behind half a delivery, for  *)
(* any number of failures, deaths and losses of power: resume_after, the   *)
(* way back of a publication that failed, and publish_app itself.          *)
(***************************************************************************)
THEOREM MainResumedCorrect == HostReconciles => (Spec => MainResumed)
<1> SUFFICES ASSUME HostReconciles PROVE Spec => MainResumed
  OBVIOUS
<1>1. Init => ResumeInv
  <2> SUFFICES ASSUME Init PROVE ResumeInv
    OBVIOUS
  <2>1. job = Idle /\ launcher = Resumed
    BY DEF Init
  <2> QED BY <2>1 DEF ResumeInv, AtDelivery, AtReplacement, AtDiscard, ReadyRuns, Stop, Idle,
                      Resumed
<1>2. DeliveryInv /\ DeliveryInv' /\ ResumeInv /\ [Next]_vars => ResumeInv'
  <2>1. CASE Next
    BY <2>1, ResumeStep
  <2>2. ASSUME ResumeInv, UNCHANGED vars PROVE ResumeInv'
    <3>1. UNCHANGED <<files, job, stage, launcher>>
      BY <2>2 DEF vars
    <3>2. /\ Stop' = Stop /\ Left' = Left /\ Phase' = Phase
          /\ StagedManifest' = StagedManifest
          /\ PublishedMatches(files.receipt)' <=> PublishedMatches(files.receipt)
      BY <3>1 DEF Stop, Left, Phase, StagedManifest, PublishedMatches
    <3> QED BY <2>2, <3>1, <3>2 DEF ResumeInv, AtDelivery, AtReplacement, AtDiscard, ReadyRuns
  <2> QED BY <2>1, <2>2
<1>3. DeliveryInv /\ ResumeInv /\ [Next]_vars =>
          [Step /\ job' = Idle /\ ~IsIdle => launcher'.active \/ Awaited]_vars
  BY EndsResumed
<1> QED BY <1>1, <1>2, <1>3, DeliveryInvHolds, PTL DEF Spec, MainResumed
=============================================================================
