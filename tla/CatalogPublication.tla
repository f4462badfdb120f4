------------------------- MODULE CatalogPublication -------------------------
(***************************************************************************)
(* How a catalog build or refresh is published to the SD card               *)
(* (crates/catalog: catalog_lease.rs, fast_five_catalog.rs,                 *)
(* fast_catalog_refresh.rs, shard_registry.rs).  One process at a time      *)
(* holds the mutation lease.  It plans, collects what earlier builds left,  *)
(* copies the artifacts of the systems that changed and syncs them, writes  *)
(* and stages the refresh state, renames the new manifest over a slot,      *)
(* syncs the directory, and removes what is no longer referenced.           *)
(*                                                                          *)
(* A process may die between any two steps, and power may be lost: a copy   *)
(* or a removal that was not synced then leaves its file absent, torn or    *)
(* whole, and a rename that was not synced is undone or not.  Files that    *)
(* the code writes to a temporary name, syncs and renames are written in    *)
(* one step; the temporaries, which nothing reads, are left out.            *)
(***************************************************************************)
EXTENDS Integers, FiniteSets

CONSTANTS
    Procs,          \* the processes that build or refresh
    Systems,        \* the games systems
    MaxGeneration,  \* bound on the catalog's generation
    MaxRefresh,     \* bound on the refresh state's generation
    DiesUnsynced,   \* may a process die between the rename and the sync?
    None            \* no manifest, no entry, no process

ASSUME BoundsAssumption == MaxGeneration \in Nat /\ MaxRefresh \in Nat
ASSUME FlagAssumption == DiesUnsynced \in BOOLEAN

VARIABLES
    lease,    \* the process that holds the mutation lease
    job,      \* what each process is doing
    artifact, \* systems/<system>/<generation>.*
    unsynced, \* the artifacts copied or removed since the last syncfs
    slot,     \* registry/manifest-a.json and manifest-b.json
    former,   \* what the card holds of the two slots
    commits,  \* state/commits/<n>.bin
    packs,    \* state/packs/<n>.watchpack
    staged    \* the two staged refresh manifests

files == <<artifact, unsynced, slot, former, commits, packs, staged>>
vars == <<lease, job, artifact, unsynced, slot, former, commits, packs, staged>>

Slots == {"A", "B"}
Generations == 1 .. MaxGeneration
Names == Systems \X Generations

(* No artifact: the system has no games, or no earlier generation.         *)
NoArtifact == 0

Entries == [active : Generations \union {NoArtifact},
            previous : Generations \union {NoArtifact}]
Contents == [Systems -> Entries \union {None}]
Refreshes == [generation : 1 .. MaxRefresh,
              catalog : Generations,
              fingerprint : [Systems -> Generations \union {NoArtifact, None}],
              packs : [Systems -> 0 .. MaxRefresh]]
Manifests == [generation : Generations, systems : Contents, refresh : Refreshes]

(* A manifest whose refresh state is not written yet has none.             *)
Drafts == [generation : Generations, systems : Contents,
           refresh : Refreshes \union {None}]

ASSUME NoneAssumption == None \notin Procs \union Drafts \union Refreshes

Idle == [at |-> "idle", draft |-> None, copying |-> {}, checked |-> {},
         kept |-> [s \in Systems |-> 0]]

-----------------------------------------------------------------------------
(* Reading the registry.                                                   *)

(* read_latest_manifest_lazy: the newest valid slot.                       *)
LatestOf(slots) ==
    IF \A x \in Slots : slots[x] = None THEN None
    ELSE slots[CHOOSE x \in Slots :
                 /\ slots[x] # None
                 /\ \A y \in Slots : slots[y] # None =>
                        slots[y].generation <= slots[x].generation]
Latest == LatestOf(slot)

GenerationOf(manifest) == IF manifest = None THEN 0 ELSE manifest.generation

(* Mutant: the fingerprint is of the systems that are present. *)
FingerprintOfPresent(systems) ==
    [s \in {t \in Systems : systems[t] # None} |-> systems[s].active]

(* registry_fingerprint_for_manifest, without the generation.              *)
Fingerprint(systems) ==
    [s \in Systems |-> IF systems[s] = None THEN None ELSE systems[s].active]

Present(manifest) ==
    IF manifest = None THEN {}
    ELSE {s \in Systems : manifest.systems[s] # None}

(* Mutant: the collector keeps the active artifacts only. *)
ActiveReferences(manifest) ==
    {n \in Names : n[1] \in Present(manifest) /\
        n[2] = manifest.systems[n[1]].active}

(* The artifacts that a manifest refers to, active and previous.           *)
References(manifest) ==
    {n \in Names : n[1] \in Present(manifest) /\
        n[2] \in {manifest.systems[n[1]].active, manifest.systems[n[1]].previous}}

(* read_refresh_manifest_for_catalog: the file the manifest names, with    *)
(* the hash it gives, is bound to this catalog.                            *)
RefreshReadable(manifest) ==
    /\ manifest.refresh # None
    /\ commits[manifest.refresh.generation] = manifest.refresh
    /\ manifest.refresh.catalog = manifest.generation
    /\ manifest.refresh.fingerprint = Fingerprint(manifest.systems)

(* validate_manifest, with the artifacts' sizes.                           *)
ArtifactsPresent(manifest) ==
    \A n \in References(manifest) : artifact[n] = "whole"

RefreshGenerationOf(manifest) ==
    IF manifest = None THEN 0 ELSE manifest.refresh.generation

StagedGeneration(x) == IF staged[x] = None THEN 0 ELSE staged[x].generation

UsedRefreshes == {StagedGeneration("A"), StagedGeneration("B"),
                  RefreshGenerationOf(Latest)}

(* next_refresh_generation_with_committed.                                 *)
NextRefresh ==
    CHOOSE n \in 1 .. MaxRefresh + 1 :
        n - 1 \in UsedRefreshes /\ \A u \in UsedRefreshes : u < n

-----------------------------------------------------------------------------
Init ==
    /\ lease = None
    /\ job = [p \in Procs |-> Idle]
    /\ artifact = [n \in Names |-> "absent"] /\ unsynced = {}
    /\ slot = [x \in Slots |-> None] /\ former = slot
    /\ commits = [n \in 1 .. MaxRefresh |-> None] /\ packs = {}
    /\ staged = [x \in Slots |-> None]

(* CatalogMutationLease::acquire; a process that finds it taken gives up.  *)
Acquire(p) ==
    /\ job[p].at = "idle" /\ lease = None
    /\ lease' = p
    /\ job' = [job EXCEPT ![p].at = "plan"]
    /\ UNCHANGED files

(* Mutant: the catalog and its refresh state share one counter. *)
SharedGeneration(changed) ==
    IF changed = {} THEN GenerationOf(Latest) ELSE NextRefresh

(* The catalog keeps its generation when no system's rows changed.         *)
NextGeneration(changed) ==
    GenerationOf(Latest) + (IF changed = {} THEN 0 ELSE 1)

(* The entry of a system whose rows changed: a new artifact or none, and   *)
(* the old active artifact as the previous one.                            *)
NewEntry(s, active) ==
    [active |-> active,
     previous |-> IF s \in Present(Latest) THEN Latest.systems[s].active
                  ELSE NoArtifact]

(* What a plan may find: systems to write, systems left without games,     *)
(* systems rescanned to the same rows, systems that are gone.  A fresh     *)
(* build writes all it lists and drops the others.                         *)
Plan(p, written, emptied, same, gone) ==
    LET changed == written \union emptied \union gone
        generation == NextGeneration(changed)
        systems == [s \in Systems |->
            CASE s \in written -> NewEntry(s, generation)
              [] s \in emptied -> NewEntry(s, NoArtifact)
              [] s \in Present(Latest) \ changed -> Latest.systems[s]
              [] OTHER -> None]
        refs == IF Latest = None THEN Idle.kept ELSE Latest.refresh.packs
    IN  /\ written \intersect emptied = {}
        /\ same \intersect changed = {}
        /\ gone \intersect (written \union emptied) = {}
        /\ same \union gone \subseteq Present(Latest)
        /\ generation \in Generations /\ NextRefresh <= MaxRefresh
        /\ Latest = None => changed # {}
        /\ \E s \in Systems : systems[s] # None
        /\ job' = [job EXCEPT ![p] =
             [at |-> IF changed = {} THEN "pack" ELSE "collect",
              draft |-> [generation |-> generation, systems |-> systems,
                         refresh |-> None],
              copying |-> written,
              checked |-> written \union emptied \union same,
              kept |-> [s \in Systems |-> IF s \in gone THEN 0 ELSE refs[s]]]]
        /\ UNCHANGED <<lease, files>>

(* Mutant: nothing is ever collected. *)
NoOrphans(manifest) == {}

(* Artifacts that the catalog does not refer to.                           *)
OrphansOf(manifest) ==
    {n \in Names : artifact[n] # "absent" /\ n \notin References(manifest)}

(* garbage_collect_unreferenced removes one of them; it does not sync.     *)
RemoveOrphan(n) ==
    /\ artifact' = [artifact EXCEPT ![n] = "absent"]
    /\ unsynced' = unsynced \union {n}
    /\ UNCHANGED <<slot, former, commits, packs, staged>>

(* prepare_snapshot_selection first removes what an interrupted build left.*)
Collect(p) ==
    /\ job[p].at = "collect"
    /\ \E n \in OrphansOf(Latest) : RemoveOrphan(n)
    /\ UNCHANGED <<lease, job>>

Collected(p) ==
    /\ job[p].at = "collect" /\ OrphansOf(Latest) = {}
    /\ job' = [job EXCEPT ![p].at = "copy"]
    /\ UNCHANGED <<lease, files>>

(* publish_prevalidated_system_artifacts_deferred: the system's files have *)
(* several names, copied one after the other; refused if one exists.       *)
Target(p, s) == <<s, job[p].draft.generation>>

CopyStarts(p, s) ==
    /\ job[p].at = "copy" /\ s \in job[p].copying
    /\ artifact[Target(p, s)] = "absent"
    /\ artifact' = [artifact EXCEPT ![Target(p, s)] = "torn"]
    /\ unsynced' = unsynced \union {Target(p, s)}
    /\ job' = [job EXCEPT ![p].at = "copying"]
    /\ UNCHANGED <<lease, slot, former, commits, packs, staged>>

CopyEnds(p, s) ==
    /\ job[p].at = "copying" /\ s \in job[p].copying
    /\ artifact[Target(p, s)] = "torn"
    /\ artifact' = [artifact EXCEPT ![Target(p, s)] = "whole"]
    /\ job' = [job EXCEPT ![p].at = "copy", ![p].copying = @ \ {s}]
    /\ UNCHANGED <<lease, unsynced, slot, former, commits, packs, staged>>

(* A copy that fails removes what it wrote, and the build ends.            *)
CopyFails(p, s) ==
    /\ job[p].at = "copying" /\ s \in job[p].copying
    /\ artifact[Target(p, s)] = "torn"
    /\ artifact' = [artifact EXCEPT ![Target(p, s)] = "absent"]
    /\ job' = [job EXCEPT ![p] = Idle] /\ lease' = None
    /\ UNCHANGED <<unsynced, slot, former, commits, packs, staged>>

(* Mutant: the artifacts are not synced. *)
NoSync == UNCHANGED <<unsynced, former>>

(* syncfs: everything written so far is on the card.                       *)
SyncAll == unsynced' = {} /\ former' = slot

(* sync_artifact_batch.                                                    *)
SyncArtifacts(p) ==
    /\ job[p].at = "copy" /\ job[p].copying = {}
    /\ SyncAll
    /\ job' = [job EXCEPT ![p].at = "pack"]
    /\ UNCHANGED <<lease, artifact, slot, commits, packs, staged>>

(* refresh_pack_is_referenced: the state that a reader would use.          *)
PackReferenced(n) ==
    \/ Latest # None /\ \E s \in Systems : Latest.refresh.packs[s] = n
    \/ \E x \in Slots : staged[x] # None /\
           \E s \in Systems : staged[x].packs[s] = n

(* write_new_file: an unreferenced pack of the same name, which an         *)
(* interrupted build left, is replaced.                                    *)
WritePack(p) ==
    /\ job[p].at = "pack"
    /\ IF job[p].checked = {} THEN UNCHANGED packs
       ELSE /\ NextRefresh \in packs => ~PackReferenced(NextRefresh)
            /\ packs' = packs \union {NextRefresh}
    /\ job' = [job EXCEPT ![p].at = "stage"]
    /\ UNCHANGED <<lease, artifact, unsynced, slot, former, commits, staged>>

(* The refresh state of the draft: checked systems refer to the new pack.  *)
NewRefresh(p) ==
    [generation |-> NextRefresh,
     catalog |-> job[p].draft.generation,
     fingerprint |-> Fingerprint(job[p].draft.systems),
     packs |-> [s \in Systems |->
                  IF s \in job[p].checked THEN NextRefresh ELSE job[p].kept[s]]]

(* refresh_manifest_slot, once a catalog with refresh state is committed.  *)
StagingSlot(n) == IF n % 2 = 0 THEN "A" ELSE "B"

(* publish_refresh_update_held: sync_filesystem, then the staged manifest. *)
Stage(p) ==
    /\ job[p].at = "stage"
    /\ SyncAll
    /\ staged' = [staged EXCEPT ![StagingSlot(NextRefresh)] = NewRefresh(p)]
    /\ job' = [job EXCEPT ![p].at = "commit", ![p].draft.refresh = NewRefresh(p)]
    /\ UNCHANGED <<lease, artifact, slot, commits, packs>>

(* commit_refresh_snapshot writes commits/<n>.bin.                         *)
WriteCommit(p) ==
    LET refresh == job[p].draft.refresh
    IN  /\ job[p].at = "commit"
        /\ commits' = [commits EXCEPT ![refresh.generation] = refresh]
        /\ job' = [job EXCEPT ![p].at = "publish"]
        /\ UNCHANGED <<lease, artifact, unsynced, slot, former, packs, staged>>

(* publish_manifest_with_hash_policy: A first, then the slot that holds    *)
(* nothing or the older manifest.                                          *)
TargetSlots ==
    IF \A x \in Slots : slot[x] = None THEN {"A"}
    ELSE {x \in Slots : \A y \in Slots : y # x =>
              GenerationOf(slot[x]) <= GenerationOf(slot[y])}

(* publish_manifest_with_hash_policy's checks.                             *)
PublishAccepted(manifest) ==
    /\ RefreshReadable(manifest)
    /\ ArtifactsPresent(manifest)
    /\ \A x \in Slots : GenerationOf(slot[x]) < manifest.generation

(* replace_refresh_state's: the catalog is the same but for its refresh.   *)
ReplaceAccepted(manifest) ==
    /\ RefreshReadable(manifest)
    /\ Latest # None
    /\ [Latest EXCEPT !.refresh = manifest.refresh] = manifest

(* Did only the refresh state change?                                      *)
MetadataOnly(p) == job[p].draft.generation = GenerationOf(Latest)

(* write_manifest_slot, up to its rename: the commit point.                *)
Rename(p, x) ==
    /\ slot' = [slot EXCEPT ![x] = job[p].draft]
    /\ job' = [job EXCEPT ![p].at = "settle"]
    /\ UNCHANGED <<lease, artifact, unsynced, former, commits, packs, staged>>

Publish(p) ==
    /\ job[p].at = "publish" /\ ~MetadataOnly(p)
    /\ PublishAccepted(job[p].draft)
    /\ \E x \in TargetSlots : Rename(p, x)

Replace(p) ==
    /\ job[p].at = "publish" /\ MetadataOnly(p)
    /\ ReplaceAccepted(job[p].draft)
    /\ \E x \in Slots : slot[x] = Latest /\ Rename(p, x)

(* write_manifest_slot syncs the registry's directory.                     *)
Settle(p) ==
    /\ job[p].at = "settle"
    /\ former' = slot
    /\ job' = [job EXCEPT ![p].at = "discard"]
    /\ UNCHANGED <<lease, artifact, unsynced, slot, commits, packs, staged>>

(* commit_prepared_snapshot removes what the new manifest does not refer   *)
(* to, and cleanup_refresh_history follows; an error in one is logged.     *)
Discard(p) ==
    /\ job[p].at = "discard"
    /\ \E n \in OrphansOf(Latest) : RemoveOrphan(n)
    /\ UNCHANGED <<lease, job>>

Discarded(p) ==
    /\ job[p].at = "discard"
    /\ job' = [job EXCEPT ![p].at = "prune"]
    /\ UNCHANGED <<lease, files>>

(* cleanup_refresh_history keeps the refresh states of both slots and the  *)
(* newest two.                                                             *)
RetainedCommits ==
    LET written == {n \in 1 .. MaxRefresh : commits[n] # None}
    IN  {n \in written :
           \/ \E x \in Slots : slot[x] # None /\ slot[x].refresh.generation = n
           \/ Cardinality({m \in written : m > n}) < 2}

(* Mutant: the packs of the newest refresh state only. *)
RetainedPacksOfLatest ==
    {n \in 1 .. MaxRefresh :
        Latest # None /\ \E s \in Systems : Latest.refresh.packs[s] = n}

(* The packs that those and the staged manifests refer to.                 *)
RetainedPacks ==
    {n \in 1 .. MaxRefresh : \E s \in Systems :
        \/ \E m \in RetainedCommits : commits[m].packs[s] = n
        \/ \E x \in Slots : staged[x] # None /\ staged[x].packs[s] = n}

Prunable == {n \in 1 .. MaxRefresh : commits[n] # None} \ RetainedCommits

PruneCommit(p) ==
    /\ job[p].at = "prune"
    /\ \E n \in Prunable : commits' = [commits EXCEPT ![n] = None]
    /\ UNCHANGED <<lease, job, artifact, unsynced, slot, former, packs, staged>>

PrunePack(p) ==
    /\ job[p].at = "prune" /\ Prunable = {}
    /\ \E n \in packs \ RetainedPacks : packs' = packs \ {n}
    /\ UNCHANGED <<lease, job, artifact, unsynced, slot, former, commits, staged>>

(* The job ends, or its process dies or meets an error: the kernel drops   *)
(* the lease and the files stay as they are.                               *)
Ends(p) ==
    /\ job[p].at # "idle"
    /\ job[p].at = "settle" => DiesUnsynced
    /\ job' = [job EXCEPT ![p] = Idle] /\ lease' = None
    /\ UNCHANGED files

(* Power is lost: the processes are gone and each file that was not synced *)
(* is as it was, or not.                                                   *)
PowerLoss ==
    /\ lease' = None /\ job' = [p \in Procs |-> Idle]
    /\ \E left \in [unsynced -> {"absent", "torn", "whole"}] :
           artifact' = [n \in Names |->
                          IF n \in unsynced THEN left[n] ELSE artifact[n]]
    /\ slot' \in {slot, former} /\ former' = slot' /\ unsynced' = {}
    /\ UNCHANGED <<commits, packs, staged>>

Step(p) ==
    \/ Acquire(p)
    \/ /\ job[p].at = "plan"
       /\ \E written, emptied, same, gone \in SUBSET Systems :
              Plan(p, written, emptied, same, gone)
    \/ Collect(p) \/ Collected(p)
    \/ \E s \in Systems : CopyStarts(p, s) \/ CopyEnds(p, s) \/ CopyFails(p, s)
    \/ SyncArtifacts(p) \/ WritePack(p) \/ Stage(p) \/ WriteCommit(p)
    \/ Publish(p) \/ Replace(p) \/ Settle(p)
    \/ Discard(p) \/ Discarded(p) \/ PruneCommit(p) \/ PrunePack(p)
    \/ Ends(p)

Next == (\E p \in Procs : Step(p)) \/ PowerLoss

Spec == Init /\ [][Next]_vars

-----------------------------------------------------------------------------
Stages == {"idle", "plan", "collect", "copy", "copying", "pack", "stage",
           "commit", "publish", "settle", "discard", "prune"}

Jobs == [at : Stages, draft : Drafts \union {None}, copying : SUBSET Systems,
         checked : SUBSET Systems, kept : [Systems -> 0 .. MaxRefresh]]

TypeOK ==
    /\ lease \in Procs \union {None}
    /\ job \in [Procs -> Jobs]
    /\ artifact \in [Names -> {"absent", "torn", "whole"}]
    /\ unsynced \in SUBSET Names
    /\ slot \in [Slots -> Manifests \union {None}]
    /\ former \in [Slots -> Manifests \union {None}]
    /\ commits \in [1 .. MaxRefresh -> Refreshes \union {None}]
    /\ packs \in SUBSET (1 .. MaxRefresh)
    /\ staged \in [Slots -> Refreshes \union {None}]

(***************************************************************************)
(* The catalog that the registry selects can be read at every moment, and  *)
(* after every death of a builder and loss of power: the artifacts it      *)
(* refers to, active and previous, are whole (without them no manifest is  *)
(* accepted again).                                                        *)
(***************************************************************************)
CatalogIntact == Latest # None => ArtifactsPresent(Latest)

(***************************************************************************)
(* Both slots keep the refresh state they were committed with, so that     *)
(* the fallback slot does not need a full scan either: its file is there,  *)
(* bound to that very catalog, with the watch packs it refers to           *)
(* (cleanup_refresh_history).                                              *)
(***************************************************************************)
RefreshKept ==
    \A x \in Slots : slot[x] # None =>
        /\ RefreshReadable(slot[x])
        /\ \A s \in Systems : slot[x].refresh.packs[s] \in packs \union {0}

(***************************************************************************)
(* A build is never refused for what an earlier one left behind: no target *)
(* of a copy exists, no pack of the same name is in use, and the checks    *)
(* before the commit point hold.                                           *)
(***************************************************************************)
RetryNotRefused ==
    \A p \in Procs :
        /\ job[p].at = "copy" =>
             \A s \in job[p].copying : artifact[Target(p, s)] = "absent"
        /\ job[p].at = "pack" => ~PackReferenced(NextRefresh)
        /\ job[p].at = "publish" =>
             IF MetadataOnly(p) THEN ReplaceAccepted(job[p].draft)
             ELSE PublishAccepted(job[p].draft)

(***************************************************************************)
(* A LazyShardedCatalogReader keeps the manifest it opened, and one commit *)
(* later that manifest is the one in the other slot: it can still open     *)
(* every system that is in the catalog, while the collector runs.          *)
(***************************************************************************)
ReaderServed ==
    \A x \in Slots : \A s \in Present(slot[x]) \intersect Present(Latest) :
        slot[x].systems[s].active # NoArtifact =>
            artifact[<<s, slot[x].systems[s].active>>] = "whole"

(***************************************************************************)
(* Publication implements the register with one commit point.              *)
(***************************************************************************)
Version(manifest) ==
    <<GenerationOf(manifest), RefreshGenerationOf(manifest)>>

Register == INSTANCE CatalogRegister
    WITH visible <- Version(Latest), firm <- Version(LatestOf(former))

OneCommitPoint == Register!Spec
=============================================================================
