---------------------- MODULE CatalogPublicationProofs ----------------------
(***************************************************************************)
(* Type correctness of CatalogPublication, and that the catalog the         *)
(* registry selects stays readable through deaths of builders and losses    *)
(* of power, when no process dies between the rename of a manifest and the  *)
(* sync of its directory.  The catalog that is on the card is protected     *)
(* together with the one that is seen: their artifacts are whole and none   *)
(* of them is waiting to be synced.                                         *)
(***************************************************************************)
EXTENDS CatalogPublication, TLAPS

LeaseHeld == \A p \in Procs : job[p].at # "idle" => lease = p

Drafted ==
    \A p \in Procs : job[p].at \notin {"idle", "plan"} => job[p].draft \in Drafts

(* From the plan to the staged manifest the refresh generation is kept.    *)
BeforeStage == {"collect", "copy", "copying", "pack", "stage"}
Reserved ==
    \A p \in Procs : job[p].at \in BeforeStage => NextRefresh <= MaxRefresh

TypeInv == TypeOK /\ LeaseHeld /\ Drafted /\ Reserved

(* The slots are on the card but for the moment between rename and sync.   *)
Settled == (\A p \in Procs : job[p].at # "settle") => former = slot

Synced ==
    \A p \in Procs : job[p].at \in {"commit", "publish", "settle"} => unsynced = {}

Apart(slots) ==
    slots["A"] # None /\ slots["B"] # None =>
        slots["A"].generation # slots["B"].generation

Safe(manifest) ==
    \A n \in References(manifest) : artifact[n] = "whole" /\ n \notin unsynced

SlotSets == [Slots -> Manifests \union {None}]

-----------------------------------------------------------------------------
(* The newest slot.                                                        *)

LEMMA NewestExists ==
    ASSUME NEW slots \in SlotSets, ~(\A x \in Slots : slots[x] = None)
    PROVE  \E x \in Slots :
             /\ slots[x] # None
             /\ \A y \in Slots : slots[y] # None =>
                    slots[y].generation <= slots[x].generation
<1>1. \A x \in Slots : slots[x] # None => slots[x].generation \in Nat
  BY DEF SlotSets, Manifests, Generations
<1>2. CASE slots["A"] = None
  BY <1>1, <1>2 DEF Slots
<1>3. CASE slots["B"] = None
  BY <1>1, <1>3 DEF Slots
<1>4. CASE slots["A"] # None /\ slots["B"] # None
  BY <1>1, <1>4 DEF Slots
<1> QED BY <1>2, <1>3, <1>4

(* LatestOf is one of the slots, and no slot is newer.                     *)
LEMMA LatestIsNewest ==
    ASSUME NEW slots \in SlotSets, ~(\A x \in Slots : slots[x] = None)
    PROVE  \E x \in Slots :
             /\ slots[x] # None /\ LatestOf(slots) = slots[x]
             /\ \A y \in Slots : slots[y] # None =>
                    slots[y].generation <= slots[x].generation
<1> DEFINE Newest(x) ==
        /\ slots[x] # None
        /\ \A y \in Slots : slots[y] # None =>
               slots[y].generation <= slots[x].generation
<1>1. \E x \in Slots : Newest(x)
  BY NewestExists
<1>2. LatestOf(slots) = slots[CHOOSE x \in Slots : Newest(x)]
  BY DEF LatestOf
<1>3. /\ (CHOOSE x \in Slots : Newest(x)) \in Slots
      /\ Newest(CHOOSE x \in Slots : Newest(x))
  BY <1>1
<1> QED BY <1>2, <1>3

LEMMA LatestType ==
    ASSUME NEW slots \in SlotSets
    PROVE  LatestOf(slots) \in Manifests \union {None}
<1>1. CASE \A x \in Slots : slots[x] = None
  BY <1>1 DEF LatestOf
<1>2. CASE ~(\A x \in Slots : slots[x] = None)
  BY <1>2, LatestIsNewest DEF SlotSets
<1> QED BY <1>1, <1>2

(* A slot newer than the others is the latest.                             *)
LEMMA NewerIsLatest ==
    ASSUME NEW slots \in SlotSets, NEW x \in Slots, slots[x] # None,
           \A y \in Slots : y # x /\ slots[y] # None =>
               slots[y].generation < slots[x].generation
    PROVE  LatestOf(slots) = slots[x]
<1>1. PICK z \in Slots : /\ slots[z] # None /\ LatestOf(slots) = slots[z]
                         /\ slots[x].generation <= slots[z].generation
  BY LatestIsNewest
<1>2. slots[x].generation \in Nat /\ slots[z].generation \in Nat
  BY <1>1 DEF SlotSets, Manifests, Generations
<1> QED BY <1>1, <1>2

(* A catalog without refresh state is never committed, and generations     *)
(* that are used are bounded, so there is a next one.                      *)
LEMMA RefreshNumber ==
    ASSUME TypeOK
    PROVE  /\ NextRefresh \in 1 .. MaxRefresh + 1
           /\ \A u \in UsedRefreshes : u < NextRefresh
<1> USE BoundsAssumption
<1> DEFINE a == StagedGeneration("A")
           b == StagedGeneration("B")
           c == RefreshGenerationOf(Latest)
           Next1(n) == n - 1 \in UsedRefreshes /\ \A u \in UsedRefreshes : u < n
<1>1. Latest \in Manifests \union {None}
  BY LatestType DEF TypeOK, Latest, SlotSets
<1>2. c \in 0 .. MaxRefresh
  BY <1>1 DEF RefreshGenerationOf, Manifests, Refreshes
<1>3. a \in 0 .. MaxRefresh /\ b \in 0 .. MaxRefresh
  BY DEF TypeOK, StagedGeneration, Refreshes, Slots
<1>4. UsedRefreshes = {a, b, c}
  BY DEF UsedRefreshes
<1>5. \E n \in 1 .. MaxRefresh + 1 : Next1(n)
  <2> HIDE DEF a, b, c
  <2>1. CASE b <= a /\ c <= a
    <3>1. a + 1 \in 1 .. MaxRefresh + 1 /\ Next1(a + 1)
      BY <1>2, <1>3, <1>4, <2>1
    <3> QED BY <3>1
  <2>2. CASE a <= b /\ c <= b
    <3>1. b + 1 \in 1 .. MaxRefresh + 1 /\ Next1(b + 1)
      BY <1>2, <1>3, <1>4, <2>2
    <3> QED BY <3>1
  <2>3. CASE a <= c /\ b <= c
    <3>1. c + 1 \in 1 .. MaxRefresh + 1 /\ Next1(c + 1)
      BY <1>2, <1>3, <1>4, <2>3
    <3> QED BY <3>1
  <2> QED BY <1>2, <1>3, <2>1, <2>2, <2>3
<1>6. NextRefresh = CHOOSE n \in 1 .. MaxRefresh + 1 : Next1(n)
  BY DEF NextRefresh
<1> QED BY <1>5, <1>6

-----------------------------------------------------------------------------
(* Types.                                                                  *)

LEMMA TypeInit == Init => TypeInv
<1> SUFFICES ASSUME Init PROVE TypeInv
  OBVIOUS
<1> USE BoundsAssumption DEF Init
<1>1. Idle \in Jobs
  BY DEF Idle, Jobs, Stages
<1>2. TypeOK
  BY <1>1 DEF TypeOK
<1>3. LeaseHeld /\ Drafted /\ Reserved
  BY DEF LeaseHeld, Drafted, Reserved, Idle, BeforeStage
<1> QED BY <1>2, <1>3 DEF TypeInv

(* Changing one job of the lease holder keeps the lease and the drafts.    *)
LEMMA JobChange ==
    ASSUME TypeInv, NEW p \in Procs, job[p].at # "idle",
           NEW j \in Jobs, job' = [job EXCEPT ![p] = j], lease' = lease,
           j.at \notin {"idle", "plan"} => j.draft \in Drafts
    PROVE  job' \in [Procs -> Jobs] /\ LeaseHeld' /\ Drafted'
  BY DEF TypeInv, TypeOK, LeaseHeld, Drafted

(* A job that ends gives the lease back; no other process held it.         *)
LEMMA JobEnds ==
    ASSUME TypeInv, NEW p \in Procs, job[p].at # "idle",
           job' = [job EXCEPT ![p] = Idle], lease' = None
    PROVE  /\ job' \in [Procs -> Jobs] /\ lease' \in Procs \union {None}
           /\ \A q \in Procs : job'[q] = Idle \/ job'[q].at = "idle"
           /\ LeaseHeld' /\ Drafted' /\ Reserved'
<1> USE BoundsAssumption
<1>1. Idle \in Jobs /\ Idle.at = "idle"
  BY DEF Idle, Jobs, Stages
<1>2. \A q \in Procs : q # p => job[q].at = "idle"
  BY NoneAssumption DEF TypeInv, LeaseHeld
<1>3. \A q \in Procs : job'[q].at = "idle"
  BY <1>1, <1>2 DEF TypeInv, TypeOK
<1> QED BY <1>1, <1>3 DEF TypeInv, TypeOK, LeaseHeld, Drafted, Reserved, BeforeStage

LEMMA NextRefreshKept ==
    ASSUME UNCHANGED <<slot, staged>>
    PROVE  NextRefresh' = NextRefresh /\ Latest' = Latest
  BY DEF NextRefresh, UsedRefreshes, StagedGeneration, RefreshGenerationOf,
         Latest, LatestOf

(* A step of the lease holder that keeps its stage's promise: the common   *)
(* part of the proofs below.                                               *)
LEMMA JobStep ==
    ASSUME TypeInv, NEW p \in Procs, job[p].at # "idle",
           NEW j \in Jobs, job' = [job EXCEPT ![p] = j], lease' = lease,
           j.at \notin {"idle", "plan"} => j.draft \in Drafts,
           UNCHANGED <<slot, staged>>,
           j.at \in BeforeStage => NextRefresh <= MaxRefresh
    PROVE  /\ lease' \in Procs \union {None} /\ job' \in [Procs -> Jobs]
           /\ LeaseHeld' /\ Drafted' /\ Reserved'
<1>1. job' \in [Procs -> Jobs] /\ LeaseHeld' /\ Drafted'
  BY JobChange
<1>2. NextRefresh' = NextRefresh
  BY NextRefreshKept
<1>3. Reserved'
  BY <1>2 DEF TypeInv, TypeOK, Reserved
<1> QED BY <1>1, <1>3 DEF TypeInv, TypeOK

LEMMA JobFields ==
    ASSUME TypeOK, NEW p \in Procs
    PROVE  /\ job[p] \in Jobs
           /\ \A a \in Stages : [job[p] EXCEPT !.at = a] \in Jobs
           /\ \A a \in Stages, C \in SUBSET Systems :
                  [[job[p] EXCEPT !.at = a] EXCEPT !.copying = C] \in Jobs
  BY DEF TypeOK, Jobs

LEMMA TypeAcquire ==
    ASSUME TypeInv, NEW p \in Procs, Acquire(p) PROVE TypeInv'
<1> DEFINE j == [job[p] EXCEPT !.at = "plan"]
<1>a. "plan" \in Stages /\ job[p] \in Jobs
  BY JobFields DEF TypeInv, Stages
<1>1. j \in Jobs /\ j.at = "plan"
  BY <1>a, JobFields DEF TypeInv, Jobs
<1>2. job' = [job EXCEPT ![p] = j] /\ lease' = p /\ lease = None /\ UNCHANGED files
  BY DEF Acquire
<1>3. \A q \in Procs : q # p => job'[q] = job[q] /\ job[q].at = "idle"
  BY <1>2, NoneAssumption DEF TypeInv, TypeOK, LeaseHeld
<1>4. job'[p] = j
  BY <1>2 DEF TypeInv, TypeOK
<1> HIDE DEF j
<1>5. TypeOK'
  BY <1>1, <1>2 DEF TypeInv, TypeOK, files
<1>6. LeaseHeld' /\ Drafted' /\ Reserved'
  BY <1>1, <1>2, <1>3, <1>4 DEF LeaseHeld, Drafted, Reserved, BeforeStage
<1> QED BY <1>5, <1>6 DEF TypeInv

LEMMA TypePlan ==
    ASSUME TypeInv, NEW p \in Procs, job[p].at = "plan",
           NEW written \in SUBSET Systems, NEW emptied \in SUBSET Systems,
           NEW same \in SUBSET Systems, NEW gone \in SUBSET Systems,
           Plan(p, written, emptied, same, gone)
    PROVE  TypeInv'
<1> DEFINE changed == written \union emptied \union gone
           generation == NextGeneration(changed)
           systems == [s \in Systems |->
             CASE s \in written -> NewEntry(s, generation)
               [] s \in emptied -> NewEntry(s, NoArtifact)
               [] s \in Present(Latest) \ changed -> Latest.systems[s]
               [] OTHER -> None]
           refs == IF Latest = None THEN Idle.kept ELSE Latest.refresh.packs
           j == [at |-> IF changed = {} THEN "pack" ELSE "collect",
                 draft |-> [generation |-> generation, systems |-> systems,
                            refresh |-> None],
                 copying |-> written,
                 checked |-> written \union emptied \union same,
                 kept |-> [s \in Systems |-> IF s \in gone THEN 0 ELSE refs[s]]]
<1>1. /\ job' = [job EXCEPT ![p] = j] /\ lease' = lease /\ UNCHANGED files
      /\ generation \in Generations /\ NextRefresh <= MaxRefresh
  BY DEF Plan
<1>2. Latest \in Manifests \union {None}
  BY LatestType DEF TypeInv, TypeOK, Latest, SlotSets
<1>3. \A s \in Present(Latest) : Latest.systems[s] \in Entries
  BY <1>2 DEF Present, Manifests, Contents
<1>4. \A s \in Systems, a \in Generations \union {NoArtifact} :
          NewEntry(s, a) \in Entries
  BY <1>3 DEF NewEntry, Entries
<1>5. systems \in Contents
  <2>1. \A s \in Systems : systems[s] \in Entries \union {None}
    BY <1>1, <1>3, <1>4
  <2> QED BY <2>1 DEF Contents
<1>6. refs \in [Systems -> 0 .. MaxRefresh]
  BY <1>2, BoundsAssumption DEF Manifests, Refreshes, Idle
<1>7. j \in Jobs
  <2> HIDE DEF refs, systems, generation
  <2>1. [generation |-> generation, systems |-> systems, refresh |-> None] \in Drafts
    BY <1>1, <1>5 DEF Drafts
  <2>2. [s \in Systems |-> IF s \in gone THEN 0 ELSE refs[s]] \in [Systems -> 0 .. MaxRefresh]
    BY <1>6, BoundsAssumption
  <2> QED BY <2>1, <2>2 DEF Jobs, Stages
<1>8. j.draft \in Drafts
  <2> HIDE DEF refs, systems, generation
  <2> QED BY <1>1, <1>5 DEF Drafts
<1> HIDE DEF j
<1>9. lease' \in Procs \union {None} /\ job' \in [Procs -> Jobs]
      /\ LeaseHeld' /\ Drafted' /\ Reserved'
  BY <1>1, <1>7, <1>8, JobStep DEF files
<1> QED BY <1>1, <1>9 DEF TypeInv, TypeOK, files

(* A step that only moves the job on to another stage, with what it still  *)
(* has to copy.                                                            *)
LEMMA TypeMove ==
    ASSUME TypeInv, NEW p \in Procs, job[p].at \notin {"idle", "plan"},
           NEW a \in Stages \ {"idle", "plan"},
           \/ job' = [job EXCEPT ![p].at = a]
           \/ \E C \in SUBSET Systems :
                  job' = [job EXCEPT ![p].at = a, ![p].copying = C],
           a \in BeforeStage => job[p].at \in BeforeStage,
           lease' = lease, UNCHANGED <<slot, staged>>
    PROVE  /\ lease' \in Procs \union {None} /\ job' \in [Procs -> Jobs]
           /\ LeaseHeld' /\ Drafted' /\ Reserved'
<1>1. job[p] \in Jobs
  BY JobFields DEF TypeInv
<1>2. job[p].draft \in Drafts /\ (a \in BeforeStage => NextRefresh <= MaxRefresh)
  BY DEF TypeInv, Drafted, Reserved
<1>3. CASE job' = [job EXCEPT ![p].at = a]
  <2> DEFINE j == [job[p] EXCEPT !.at = a]
  <2>1. j \in Jobs /\ j.at = a /\ j.draft = job[p].draft
    BY <1>1 DEF Jobs
  <2>2. job' = [job EXCEPT ![p] = j]
    BY <1>3
  <2> HIDE DEF j
  <2> QED BY <1>2, <2>1, <2>2, JobStep
<1>4. ASSUME NEW C \in SUBSET Systems,
             job' = [job EXCEPT ![p].at = a, ![p].copying = C]
      PROVE  /\ lease' \in Procs \union {None} /\ job' \in [Procs -> Jobs]
             /\ LeaseHeld' /\ Drafted' /\ Reserved'
  <2> DEFINE j == [[job[p] EXCEPT !.at = a] EXCEPT !.copying = C]
  <2>1. j \in Jobs /\ j.at = a /\ j.draft = job[p].draft
    BY <1>1 DEF Jobs
  <2>2. job' = [job EXCEPT ![p] = j]
    BY <1>4 DEF TypeInv, TypeOK
  <2> HIDE DEF j
  <2> QED BY <1>2, <2>1, <2>2, JobStep
<1> QED BY <1>3, <1>4

LEMMA TypeEnd ==
    ASSUME TypeInv, NEW p \in Procs, job[p].at # "idle",
           job' = [job EXCEPT ![p] = Idle], lease' = None,
           UNCHANGED <<unsynced, slot, former, commits, packs, staged>>,
           artifact' \in [Names -> {"absent", "torn", "whole"}]
    PROVE  TypeInv'
  BY JobEnds DEF TypeInv, TypeOK

(* Staging numbers the draft's refresh state.                              *)
LEMMA TypeStage ==
    ASSUME TypeInv, NEW p \in Procs, Stage(p) PROVE TypeInv'
<1> DEFINE r == NewRefresh(p)
           d == [job[p].draft EXCEPT !.refresh = r]
           j == [[job[p] EXCEPT !.at = "commit"] EXCEPT !.draft = d]
<1>1. job[p].at = "stage" /\ job[p] \in Jobs /\ job[p].draft \in Drafts
      /\ NextRefresh \in 1 .. MaxRefresh
  <2>1. job[p].at = "stage" /\ job[p] \in Jobs
    BY JobFields DEF Stage, TypeInv
  <2>2. job[p].draft \in Drafts /\ NextRefresh <= MaxRefresh
    BY <2>1 DEF TypeInv, Drafted, Reserved, BeforeStage
  <2> QED BY <2>1, <2>2, RefreshNumber, BoundsAssumption DEF TypeInv
<1>2. r \in Refreshes
  <2>1. job[p].draft.generation \in Generations /\ job[p].draft.systems \in Contents
    BY <1>1 DEF Drafts
  <2>2. Fingerprint(job[p].draft.systems)
          \in [Systems -> Generations \union {NoArtifact, None}]
    BY <2>1 DEF Fingerprint, Contents, Entries
  <2>3. [s \in Systems |-> IF s \in job[p].checked THEN NextRefresh ELSE job[p].kept[s]]
          \in [Systems -> 0 .. MaxRefresh]
    BY <1>1, BoundsAssumption DEF Jobs
  <2> QED BY <1>1, <2>1, <2>2, <2>3 DEF NewRefresh, Refreshes
<1>3. d \in Drafts
  <2> HIDE DEF r
  <2> QED BY <1>1, <1>2 DEF Drafts
<1>4. j \in Jobs /\ j.at = "commit" /\ j.draft = d
  <2> HIDE DEF d
  <2> QED BY <1>1, <1>3 DEF Jobs, Stages
<1>5. job' = [job EXCEPT ![p] = j] /\ lease' = lease
  BY DEF Stage, TypeInv, TypeOK
<1> HIDE DEF j
<1>6. job' \in [Procs -> Jobs] /\ LeaseHeld' /\ Drafted'
  BY <1>1, <1>3, <1>4, <1>5, JobChange
<1>7. \A q \in Procs : job'[q].at \notin BeforeStage
  <2>1. \A q \in Procs : q # p => job[q].at = "idle"
    BY <1>1 DEF TypeInv, LeaseHeld
  <2> QED BY <1>4, <1>5, <2>1 DEF TypeInv, TypeOK, BeforeStage
<1>8. TypeOK'
  <2>0. NewRefresh(p) \in Refreshes
    BY <1>2
  <2>1. staged' \in [Slots -> Refreshes \union {None}]
    BY <2>0 DEF Stage, TypeInv, TypeOK
  <2> HIDE DEF r
  <2> QED BY <1>5, <1>6, <2>1 DEF Stage, SyncAll, TypeInv, TypeOK
<1> QED BY <1>6, <1>7, <1>8 DEF TypeInv, Reserved

(* What a rename writes has its refresh state.                             *)
LEMMA TypeRename ==
    ASSUME TypeInv, NEW p \in Procs, job[p].at = "publish", NEW x \in Slots,
           RefreshReadable(job[p].draft), Rename(p, x)
    PROVE  TypeInv' /\ job[p].draft \in Manifests
<1> DEFINE j == [job[p] EXCEPT !.at = "settle"]
<1>1. job[p] \in Jobs /\ job[p].draft \in Drafts
  BY JobFields DEF TypeInv, Drafted
<1>2. job[p].draft \in Manifests
  BY <1>1 DEF RefreshReadable, Drafts, Manifests
<1>3. j \in Jobs /\ j.at = "settle" /\ j.draft = job[p].draft
  BY <1>1 DEF Jobs, Stages
<1>4. job' = [job EXCEPT ![p] = j] /\ lease' = lease
  BY DEF Rename
<1> HIDE DEF j
<1>5. job' \in [Procs -> Jobs] /\ LeaseHeld' /\ Drafted'
  BY <1>1, <1>3, <1>4, JobChange
<1>6. \A q \in Procs : job'[q].at \notin BeforeStage
  <2>1. \A q \in Procs : q # p => job[q].at = "idle"
    BY DEF TypeInv, LeaseHeld
  <2> QED BY <1>3, <1>4, <2>1 DEF TypeInv, TypeOK, BeforeStage
<1>7. slot' \in [Slots -> Manifests \union {None}]
  BY <1>2 DEF Rename, TypeInv, TypeOK
<1> QED BY <1>2, <1>4, <1>5, <1>6, <1>7 DEF Rename, TypeInv, TypeOK, Reserved

LEMMA TypeMoves ==
    ASSUME TypeInv, NEW p \in Procs,
           \/ Collected(p) \/ SyncArtifacts(p) \/ WritePack(p) \/ WriteCommit(p)
           \/ Settle(p) \/ Discarded(p)
           \/ \E s \in Systems : CopyStarts(p, s) \/ CopyEnds(p, s)
    PROVE  TypeInv'
<1> DEFINE JobOK == /\ lease' \in Procs \union {None} /\ job' \in [Procs -> Jobs]
                    /\ LeaseHeld' /\ Drafted' /\ Reserved'
<1>0. job[p].copying \in SUBSET Systems
  BY JobFields DEF TypeInv, Jobs
<1>1. CASE Collected(p)
  <2>1. JobOK
    BY <1>1, TypeMove DEF Collected, files, BeforeStage, Stages
  <2> QED BY <1>1, <2>1 DEF Collected, files, TypeInv, TypeOK
<1>2. CASE SyncArtifacts(p)
  <2>1. JobOK
    BY <1>2, TypeMove DEF SyncArtifacts, BeforeStage, Stages
  <2> QED BY <1>2, <2>1 DEF SyncArtifacts, SyncAll, TypeInv, TypeOK
<1>3. CASE WritePack(p)
  <2>1. JobOK
    BY <1>3, TypeMove DEF WritePack, BeforeStage, Stages
  <2>2. NextRefresh \in 1 .. MaxRefresh
    BY <1>3, RefreshNumber, BoundsAssumption DEF WritePack, TypeInv, Reserved, BeforeStage
  <2>3. packs' \in SUBSET (1 .. MaxRefresh)
    BY <1>3, <2>2 DEF WritePack, TypeInv, TypeOK
  <2> QED BY <1>3, <2>1, <2>3 DEF WritePack, TypeInv, TypeOK
<1>4. CASE WriteCommit(p)
  <2>1. JobOK
    BY <1>4, TypeMove DEF WriteCommit, BeforeStage, Stages
  <2>2. job[p].draft.refresh \in Refreshes \union {None}
    BY <1>4 DEF WriteCommit, TypeInv, Drafted, Drafts
  <2>3. commits' \in [1 .. MaxRefresh -> Refreshes \union {None}]
    BY <1>4, <2>2 DEF WriteCommit, TypeInv, TypeOK
  <2> QED BY <1>4, <2>1, <2>3 DEF WriteCommit, TypeInv, TypeOK
<1>5. CASE Settle(p)
  <2>1. JobOK
    BY <1>5, TypeMove DEF Settle, BeforeStage, Stages
  <2> QED BY <1>5, <2>1 DEF Settle, TypeInv, TypeOK
<1>6. CASE Discarded(p)
  <2>1. JobOK
    BY <1>6, TypeMove DEF Discarded, files, BeforeStage, Stages
  <2> QED BY <1>6, <2>1 DEF Discarded, files, TypeInv, TypeOK
<1>7. ASSUME NEW s \in Systems, CopyStarts(p, s) PROVE TypeInv'
  <2>1. JobOK
    BY <1>7, TypeMove DEF CopyStarts, BeforeStage, Stages
  <2>2. Target(p, s) \in Names
    BY <1>7 DEF CopyStarts, Target, Names, TypeInv, Drafted, Drafts
  <2> QED BY <1>7, <2>1, <2>2 DEF CopyStarts, TypeInv, TypeOK
<1>8. ASSUME NEW s \in Systems, CopyEnds(p, s) PROVE TypeInv'
  <2>1. job[p].copying \ {s} \in SUBSET Systems
    BY <1>0
  <2>2. job' = [job EXCEPT ![p].at = "copy", ![p].copying = job[p].copying \ {s}]
    BY <1>8 DEF CopyEnds, TypeInv, TypeOK, Jobs
  <2>3. \E C \in SUBSET Systems :
            job' = [job EXCEPT ![p].at = "copy", ![p].copying = C]
    BY <2>1, <2>2
  <2>4. /\ job[p].at = "copying" /\ lease' = lease /\ UNCHANGED <<slot, staged>>
        /\ "copy" \in Stages \ {"idle", "plan"} /\ "copying" \in BeforeStage
    BY <1>8 DEF CopyEnds, BeforeStage, Stages
  <2>5. JobOK
    BY <2>3, <2>4, TypeMove
  <2> QED BY <1>8, <2>5 DEF CopyEnds, TypeInv, TypeOK
<1> QED BY <1>1, <1>2, <1>3, <1>4, <1>5, <1>6, <1>7, <1>8

(* The steps that only remove files.                                       *)
LEMMA TypeRemovals ==
    ASSUME TypeInv, NEW p \in Procs,
           Collect(p) \/ Discard(p) \/ PruneCommit(p) \/ PrunePack(p)
    PROVE  TypeInv'
<1>1. UNCHANGED <<lease, job, slot, former, staged>>
  BY DEF Collect, Discard, RemoveOrphan, PruneCommit, PrunePack
<1>2. LeaseHeld' /\ Drafted' /\ Reserved'
  BY <1>1, NextRefreshKept DEF TypeInv, LeaseHeld, Drafted, Reserved
<1>3. CASE Collect(p) \/ Discard(p)
  <2>1. PICK n \in Names : RemoveOrphan(n)
    BY <1>3 DEF Collect, Discard, OrphansOf
  <2> QED BY <1>1, <1>2, <2>1 DEF RemoveOrphan, TypeInv, TypeOK
<1>4. CASE PruneCommit(p)
  BY <1>1, <1>2, <1>4 DEF PruneCommit, TypeInv, TypeOK
<1>5. CASE PrunePack(p)
  BY <1>1, <1>2, <1>5 DEF PrunePack, TypeInv, TypeOK
<1> QED BY <1>3, <1>4, <1>5

LEMMA TypePowerLoss == TypeInv /\ PowerLoss => TypeInv'
<1> SUFFICES ASSUME TypeInv, PowerLoss PROVE TypeInv'
  OBVIOUS
<1>1. Idle \in Jobs /\ Idle.at = "idle"
  BY BoundsAssumption DEF Idle, Jobs, Stages
<1>2. job' \in [Procs -> Jobs] /\ \A q \in Procs : job'[q].at = "idle"
  BY <1>1 DEF PowerLoss
<1>3. artifact' \in [Names -> {"absent", "torn", "whole"}]
  BY DEF PowerLoss, TypeInv, TypeOK
<1>4. TypeOK'
  BY <1>2, <1>3 DEF PowerLoss, TypeInv, TypeOK
<1> QED BY <1>2, <1>4 DEF TypeInv, LeaseHeld, Drafted, Reserved, BeforeStage

LEMMA TypeNext == TypeInv /\ [Next]_vars => TypeInv'
<1> SUFFICES ASSUME TypeInv, [Next]_vars PROVE TypeInv'
  OBVIOUS
<1>1. ASSUME NEW p \in Procs, Step(p) PROVE TypeInv'
  <2>1. CASE Acquire(p)
    BY <2>1, TypeAcquire
  <2>2. ASSUME job[p].at = "plan",
               NEW written \in SUBSET Systems, NEW emptied \in SUBSET Systems,
               NEW same \in SUBSET Systems, NEW gone \in SUBSET Systems,
               Plan(p, written, emptied, same, gone)
        PROVE  TypeInv'
    BY <2>2, TypePlan
  <2>3. CASE Collect(p) \/ Discard(p) \/ PruneCommit(p) \/ PrunePack(p)
    BY <2>3, TypeRemovals
  <2>4. CASE \/ Collected(p) \/ SyncArtifacts(p) \/ WritePack(p)
             \/ WriteCommit(p) \/ Settle(p) \/ Discarded(p)
             \/ \E s \in Systems : CopyStarts(p, s) \/ CopyEnds(p, s)
    BY <2>4, TypeMoves
  <2>5. ASSUME NEW s \in Systems, CopyFails(p, s) PROVE TypeInv'
    <3>1. artifact' \in [Names -> {"absent", "torn", "whole"}]
      BY <2>5 DEF CopyFails, TypeInv, TypeOK
    <3> QED BY <2>5, <3>1, TypeEnd DEF CopyFails
  <2>6. CASE Stage(p)
    BY <2>6, TypeStage
  <2>7. CASE Publish(p) \/ Replace(p)
    <3>1. PICK x \in Slots : Rename(p, x)
      BY <2>7 DEF Publish, Replace, TargetSlots, Slots
    <3>2. job[p].at = "publish" /\ RefreshReadable(job[p].draft)
      BY <2>7 DEF Publish, Replace, PublishAccepted, ReplaceAccepted
    <3> QED BY <3>1, <3>2, TypeRename
  <2>8. CASE Ends(p)
    BY <2>8, TypeEnd DEF Ends, files, TypeInv, TypeOK
  <2> QED BY <1>1, <2>1, <2>2, <2>3, <2>4, <2>5, <2>6, <2>7, <2>8 DEF Step
<1>2. CASE PowerLoss
  BY <1>2, TypePowerLoss
<1>3. CASE UNCHANGED vars
  <2>1. NextRefresh' = NextRefresh
    BY <1>3, NextRefreshKept DEF vars
  <2> QED BY <1>3, <2>1 DEF vars, TypeInv, TypeOK, LeaseHeld, Drafted, Reserved
<1> QED BY <1>1, <1>2, <1>3 DEF Next

(* Every variable keeps its type: one process at a time has a job, the     *)
(* refresh generation it planned with is still the next one when it stages.*)
THEOREM TypeCorrect == Spec => []TypeOK
<1>1. TypeInv => TypeOK
  BY DEF TypeInv
<1> QED BY <1>1, TypeInit, TypeNext, PTL DEF Spec

-----------------------------------------------------------------------------
(* The catalog stays readable.                                             *)

SafeInv ==
    /\ Settled /\ Synced /\ Apart(slot) /\ Apart(former)
    /\ Safe(Latest) /\ Safe(LatestOf(former))

LEMMA SafeInit == Init => SafeInv
<1> SUFFICES ASSUME Init PROVE SafeInv
  OBVIOUS
<1>1. Latest = None /\ LatestOf(former) = None
  BY DEF Init, Latest, LatestOf
<1>2. References(None) = {}
  BY DEF References, Present
<1> QED BY <1>1, <1>2 DEF Init, SafeInv, Settled, Synced, Apart, Safe, Idle, Slots

LEMMA HolderAlone ==
    ASSUME TypeInv, NEW p \in Procs, job[p].at # "idle"
    PROVE  \A q \in Procs : q # p => job[q].at = "idle"
  BY DEF TypeInv, LeaseHeld

(* A step of p alone that leaves the artifacts and the slots as they are.  *)
LEMMA QuietStep ==
    ASSUME SafeInv, NEW p \in Procs,
           \A q \in Procs : q # p => job[q].at = "idle" /\ job'[q].at = "idle",
           job[p].at # "settle", job'[p].at # "settle",
           job'[p].at \in {"commit", "publish"} => job[p].at \in {"commit", "publish"},
           UNCHANGED <<artifact, unsynced, slot, former>>
    PROVE  SafeInv'
<1>1. former = slot
  BY DEF SafeInv, Settled
<1>2. Settled' /\ Synced'
  BY <1>1 DEF SafeInv, Settled, Synced
<1>3. Apart(slot)' /\ Apart(former)'
  BY DEF SafeInv, Apart
<1>4. Latest' = Latest /\ LatestOf(former)' = LatestOf(former)
  BY DEF Latest, LatestOf
<1>5. Safe(Latest)' /\ Safe(LatestOf(former))'
  BY <1>4 DEF SafeInv, Safe, References, Present
<1> QED BY <1>2, <1>3, <1>5 DEF SafeInv

(* Steps of p alone, away from the commit, that change artifacts which no  *)
(* safe manifest refers to.                                                *)
LEMMA ArtifactStep ==
    ASSUME SafeInv, NEW p \in Procs,
           \A q \in Procs : q # p => job[q].at = "idle" /\ job'[q].at = "idle",
           job[p].at \notin {"commit", "publish", "settle"},
           job'[p].at \notin {"commit", "publish", "settle"},
           UNCHANGED <<slot, former>>,
           \A n \in References(Latest) : artifact'[n] = "whole" /\ n \notin unsynced'
    PROVE  SafeInv'
<1>1. former = slot
  BY DEF SafeInv, Settled
<1>2. Settled' /\ Synced'
  BY <1>1 DEF SafeInv, Settled, Synced
<1>3. Apart(slot)' /\ Apart(former)'
  BY DEF SafeInv, Apart
<1>4. Latest' = Latest /\ LatestOf(former)' = Latest
  BY <1>1 DEF Latest, LatestOf
<1>5. Safe(Latest)' /\ Safe(LatestOf(former))'
  BY <1>4 DEF Safe, References, Present
<1> QED BY <1>2, <1>3, <1>5 DEF SafeInv

(* Everything is synced: what was seen is now on the card.                 *)
LEMMA SyncStep ==
    ASSUME SafeInv, NEW p \in Procs,
           \A q \in Procs : q # p => job[q].at = "idle" /\ job'[q].at = "idle",
           job'[p].at # "settle", UNCHANGED <<artifact, slot>>, former' = slot,
           unsynced' \subseteq unsynced,
           job'[p].at \in {"commit", "publish"} => unsynced' = {}
    PROVE  SafeInv'
<1>1. Settled' /\ Synced'
  BY DEF Settled, Synced
<1>2. Apart(slot)' /\ Apart(former)'
  BY DEF SafeInv, Apart
<1>3. Latest' = Latest /\ LatestOf(former)' = Latest
  BY DEF Latest, LatestOf
<1>4. Safe(Latest)' /\ Safe(LatestOf(former))'
  BY <1>3 DEF SafeInv, Safe, References, Present
<1> QED BY <1>1, <1>2, <1>4 DEF SafeInv

(* Publish's slot is not newer than the other, and the new manifest is;    *)
(* Replace's is the newest.                                                *)
LEMMA RenameLatest ==
    ASSUME TypeInv, SafeInv, NEW p \in Procs, NEW x \in Slots, Rename(p, x),
           job[p].at = "publish", RefreshReadable(job[p].draft),
           \A y \in Slots : y # x /\ slot[y] # None =>
               slot[y].generation < job[p].draft.generation
    PROVE  LatestOf(slot') = job[p].draft /\ Apart(slot')
<1>1. job[p].draft \in Manifests /\ job[p].draft # None
  BY TypeRename, NoneAssumption DEF Manifests, Drafts
<1>2. slot' = [slot EXCEPT ![x] = job[p].draft] /\ slot \in SlotSets
  BY DEF Rename, TypeInv, TypeOK, SlotSets
<1>3. slot' \in SlotSets /\ slot'[x] = job[p].draft
      /\ \A y \in Slots : y # x => slot'[y] = slot[y]
  BY <1>1, <1>2 DEF SlotSets
<1>4. LatestOf(slot') = slot'[x]
  <2> DEFINE new == slot'
  <2>1. /\ new \in SlotSets /\ new[x] # None
        /\ \A y \in Slots : y # x /\ new[y] # None => new[y].generation < new[x].generation
    BY <1>1, <1>3
  <2> HIDE DEF new
  <2>2. LatestOf(new) = new[x]
    BY <2>1, NewerIsLatest
  <2> QED BY <2>2 DEF new
<1>5. Apart(slot')
  <2>1. CASE x = "A"
    BY <1>1, <1>3, <2>1 DEF Apart, Slots, Manifests, SlotSets, Generations
  <2>2. CASE x = "B"
    BY <1>1, <1>3, <2>2 DEF Apart, Slots, Manifests, SlotSets, Generations
  <2> QED BY <2>1, <2>2 DEF Slots
<1> QED BY <1>3, <1>4, <1>5

LEMMA RenameStep ==
    ASSUME TypeInv, SafeInv, NEW p \in Procs, NEW x \in Slots, Rename(p, x),
           job[p].at = "publish", RefreshReadable(job[p].draft),
           \A y \in Slots : y # x /\ slot[y] # None =>
               slot[y].generation < job[p].draft.generation,
           ArtifactsPresent(job[p].draft)
    PROVE  SafeInv'
<1>1. \A q \in Procs : q # p => job[q].at = "idle"
  BY HolderAlone
<1>2. former = slot /\ unsynced = {}
  BY <1>1 DEF SafeInv, Settled, Synced
<1>3. job'[p].at = "settle" /\ UNCHANGED <<artifact, unsynced, former>>
  BY DEF Rename, TypeInv, TypeOK, Jobs
<1>4. Settled' /\ Synced'
  BY <1>2, <1>3 DEF Settled, Synced
<1>5. Apart(slot)' /\ Latest' = job[p].draft
  BY RenameLatest DEF Latest, Apart, LatestOf
<1>6. Apart(former)' /\ LatestOf(former)' = LatestOf(former)
  BY <1>3 DEF SafeInv, Apart, LatestOf
<1>7. Safe(Latest)'
  BY <1>2, <1>3, <1>5 DEF Safe, References, Present, ArtifactsPresent
<1>8. Safe(LatestOf(former))'
  BY <1>3, <1>6 DEF SafeInv, Safe, References, Present
<1> QED BY <1>4, <1>5, <1>6, <1>7, <1>8 DEF SafeInv

LEMMA PublishStep ==
    ASSUME TypeInv, SafeInv, NEW p \in Procs, Publish(p) PROVE SafeInv'
<1>1. PICK x \in Slots : Rename(p, x)
  BY DEF Publish, TargetSlots, Slots
<1>2. \A y \in Slots : slot[y] # None => slot[y].generation < job[p].draft.generation
  BY DEF Publish, PublishAccepted, GenerationOf
<1> QED BY <1>1, <1>2, RenameStep DEF Publish, PublishAccepted

LEMMA ReplaceIsNewest ==
    ASSUME TypeInv, SafeInv, NEW p \in Procs, Replace(p),
           NEW x \in Slots, slot[x] = Latest
    PROVE  /\ Latest \in Manifests /\ Latest # None
           /\ job[p].draft.generation = Latest.generation
           /\ job[p].draft.systems = Latest.systems
           /\ \A y \in Slots : y # x /\ slot[y] # None =>
                  slot[y].generation < job[p].draft.generation
<1>1. Latest # None /\ [Latest EXCEPT !.refresh = job[p].draft.refresh] = job[p].draft
  BY DEF Replace, ReplaceAccepted
<1>2. slot \in SlotSets /\ Latest \in Manifests
  BY <1>1 DEF TypeInv, TypeOK, SlotSets
<1>3. job[p].draft.generation = Latest.generation /\ job[p].draft.systems = Latest.systems
  BY <1>1, <1>2 DEF Manifests
<1>4. ~(\A y \in Slots : slot[y] = None)
  BY <1>1
<1>5. \A y \in Slots : slot[y] # None => slot[y].generation <= Latest.generation
  BY <1>2, <1>4, LatestIsNewest DEF Latest
<1>6. \A y \in Slots : y # x /\ slot[y] # None => slot[y].generation # slot[x].generation
  BY <1>1 DEF SafeInv, Apart, Slots
<1>7. ASSUME NEW y \in Slots, y # x, slot[y] # None
      PROVE  slot[y].generation < job[p].draft.generation
  <2>1. slot[y].generation \in Nat /\ Latest.generation \in Nat
    BY <1>2, <1>7 DEF SlotSets, Manifests, Generations
  <2> QED BY <1>3, <1>5, <1>6, <1>7, <2>1
<1> QED BY <1>1, <1>2, <1>3, <1>7

LEMMA ReplaceStep ==
    ASSUME TypeInv, SafeInv, NEW p \in Procs, Replace(p) PROVE SafeInv'
<1>1. PICK x \in Slots : slot[x] = Latest /\ Rename(p, x)
  BY DEF Replace
<1>2. job[p].at = "publish" /\ RefreshReadable(job[p].draft)
  BY DEF Replace, ReplaceAccepted
<1>3. /\ job[p].draft.systems = Latest.systems /\ Latest # None
      /\ \A y \in Slots : y # x /\ slot[y] # None =>
             slot[y].generation < job[p].draft.generation
  BY <1>1, ReplaceIsNewest
<1>4. ArtifactsPresent(job[p].draft)
  <2>1. job[p].draft # None
    BY <1>2, NoneAssumption DEF TypeInv, Drafted
  <2>2. References(job[p].draft) = References(Latest)
    BY <1>3, <2>1 DEF References, Present
  <2> QED BY <2>2 DEF ArtifactsPresent, SafeInv, Safe
<1> QED BY <1>1, <1>2, <1>3, <1>4, RenameStep

LEMMA PowerLossStep == SafeInv /\ PowerLoss => SafeInv'
<1> SUFFICES ASSUME SafeInv, PowerLoss PROVE SafeInv'
  OBVIOUS
<1>1. unsynced' = {} /\ former' = slot' /\ (slot' = slot \/ slot' = former)
  BY DEF PowerLoss
<1>2. \A n \in Names : n \notin unsynced => artifact'[n] = artifact[n]
  BY DEF PowerLoss
<1>3. Settled' /\ Synced'
  BY <1>1 DEF Settled, Synced
<1>4. Apart(slot)' /\ Apart(former)'
  BY <1>1 DEF SafeInv, Apart
<1>5. Latest' = LatestOf(former)' /\ (Latest' = Latest \/ Latest' = LatestOf(former))
  <2>1. LatestOf(former)' = LatestOf(former')
    BY DEF LatestOf
  <2>2. Latest' = LatestOf(slot')
    BY DEF Latest, LatestOf
  <2> QED BY <1>1, <2>1, <2>2 DEF Latest
<1>6. Safe(Latest)'
  BY <1>1, <1>2, <1>5 DEF SafeInv, Safe, References, Present
<1> QED BY <1>3, <1>4, <1>5, <1>6 DEF SafeInv, Safe, References, Present

(* Removals take nothing that the latest manifest refers to.               *)
LEMMA RemovalStep ==
    ASSUME TypeInv, SafeInv, NEW p \in Procs, NEW n \in OrphansOf(Latest),
           RemoveOrphan(n), job[p].at \in {"collect", "discard"}, UNCHANGED job
    PROVE  SafeInv'
<1>1. \A q \in Procs : q # p => job[q].at = "idle"
  BY HolderAlone
<1>2. n \in Names /\ n \notin References(Latest)
  BY DEF OrphansOf
<1>3. \A m \in References(Latest) : artifact'[m] = "whole" /\ m \notin unsynced'
  BY <1>2 DEF SafeInv, Safe, RemoveOrphan, References, TypeInv, TypeOK
<1> QED BY <1>1, <1>3, ArtifactStep DEF RemoveOrphan

(* What is copied was not whole, so no safe manifest refers to it.         *)
LEMMA CopyStep ==
    ASSUME TypeInv, SafeInv, NEW p \in Procs, NEW s \in Systems,
           CopyStarts(p, s) \/ CopyEnds(p, s) \/ CopyFails(p, s)
    PROVE  SafeInv'
<1>1. \A q \in Procs : q # p => job[q].at = "idle" /\ job'[q].at = "idle"
  BY HolderAlone DEF CopyStarts, CopyEnds, CopyFails, TypeInv, TypeOK
<1>2. /\ job[p].at \in {"copy", "copying"}
      /\ job'[p].at \notin {"commit", "publish", "settle"}
  BY DEF CopyStarts, CopyEnds, CopyFails, TypeInv, TypeOK, Jobs, Idle
<1>3. /\ UNCHANGED <<slot, former>>
      /\ \A m \in Names : m # Target(p, s) => artifact'[m] = artifact[m]
      /\ unsynced' \subseteq unsynced \union {Target(p, s)}
      /\ artifact[Target(p, s)] # "whole"
  BY DEF CopyStarts, CopyEnds, CopyFails, TypeInv, TypeOK
<1>4. \A m \in References(Latest) : artifact'[m] = "whole" /\ m \notin unsynced'
  <2> SUFFICES ASSUME NEW m \in References(Latest)
               PROVE  artifact'[m] = "whole" /\ m \notin unsynced'
    OBVIOUS
  <2>1. m \in Names /\ artifact[m] = "whole" /\ m \notin unsynced
    BY DEF SafeInv, Safe, References
  <2> QED BY <1>3, <2>1
<1> QED BY <1>1, <1>2, <1>3, <1>4, ArtifactStep

LEMMA SafeStep ==
    ASSUME ~DiesUnsynced, TypeInv, SafeInv, NEW p \in Procs, Step(p)
    PROVE  SafeInv'
<1> USE DEF TypeInv, TypeOK
<1>1. CASE Acquire(p)
  <2>1. \A q \in Procs : job[q].at = "idle"
    BY <1>1, NoneAssumption DEF Acquire, LeaseHeld
  <2>2. \A q \in Procs : q # p => job'[q].at = "idle"
    BY <1>1, <2>1 DEF Acquire
  <2>3. job'[p].at = "plan"
    BY <1>1 DEF Acquire, Jobs
  <2> QED BY <1>1, <2>1, <2>2, <2>3, QuietStep DEF Acquire, files
<1>2. ASSUME job[p].at # "idle",
             \A q \in Procs : q # p => job'[q] = job[q]
      PROVE  \A q \in Procs : q # p => job[q].at = "idle" /\ job'[q].at = "idle"
  BY <1>2, HolderAlone
<1>3. ASSUME job[p].at = "plan",
             NEW written \in SUBSET Systems, NEW emptied \in SUBSET Systems,
             NEW same \in SUBSET Systems, NEW gone \in SUBSET Systems,
             Plan(p, written, emptied, same, gone)
      PROVE  SafeInv'
  <2>1. \A q \in Procs : q # p => job'[q] = job[q]
    BY <1>3 DEF Plan
  <2>2. job'[p].at \in {"pack", "collect"} /\ UNCHANGED files
    BY <1>3 DEF Plan
  <2> QED BY <1>2, <1>3, <2>1, <2>2, QuietStep DEF files
<1>4. CASE Collect(p) \/ Discard(p)
  BY <1>4, RemovalStep DEF Collect, Discard
<1>5. CASE Collected(p) \/ Discarded(p) \/ WritePack(p) \/ WriteCommit(p)
  <2>1. \A q \in Procs : q # p => job'[q] = job[q]
    BY <1>5 DEF Collected, Discarded, WritePack, WriteCommit
  <2>2. /\ job[p].at \in {"collect", "discard", "pack", "commit"}
        /\ job'[p].at \in {"copy", "prune", "stage", "publish"}
        /\ job'[p].at = "publish" => job[p].at = "commit"
    BY <1>5 DEF Collected, Discarded, WritePack, WriteCommit, Jobs
  <2>3. UNCHANGED <<artifact, unsynced, slot, former>>
    BY <1>5 DEF Collected, Discarded, WritePack, WriteCommit, files
  <2> QED BY <1>2, <2>1, <2>2, <2>3, QuietStep
<1>6. CASE PruneCommit(p) \/ PrunePack(p)
  <2>1. job' = job /\ job[p].at = "prune" /\ UNCHANGED <<artifact, unsynced, slot, former>>
    BY <1>6 DEF PruneCommit, PrunePack
  <2> QED BY <1>2, <2>1, QuietStep
<1>7. ASSUME NEW s \in Systems, CopyStarts(p, s) \/ CopyEnds(p, s) \/ CopyFails(p, s)
      PROVE  SafeInv'
  BY <1>7, CopyStep
<1>8. CASE SyncArtifacts(p) \/ Stage(p) \/ Settle(p)
  <2>1. \A q \in Procs : q # p => job'[q] = job[q]
    BY <1>8 DEF SyncArtifacts, Stage, Settle
  <2>2. /\ job[p].at \in {"copy", "stage", "settle"}
        /\ job'[p].at \in {"pack", "commit", "discard"}
        /\ job'[p].at = "commit" => unsynced' = {}
    BY <1>8 DEF SyncArtifacts, Stage, Settle, SyncAll, Jobs
  <2>3. UNCHANGED <<artifact, slot>> /\ former' = slot /\ unsynced' \subseteq unsynced
    BY <1>8 DEF SyncArtifacts, Stage, Settle, SyncAll
  <2> QED BY <1>2, <2>1, <2>2, <2>3, SyncStep
<1>9. CASE Publish(p)
  BY <1>9, PublishStep
<1>10. CASE Replace(p)
  BY <1>10, ReplaceStep
<1>11. CASE Ends(p)
  <2>1. \A q \in Procs : q # p => job'[q] = job[q]
    BY <1>11 DEF Ends
  <2>2. job[p].at \notin {"idle", "settle"} /\ job'[p].at = "idle"
    BY <1>11 DEF Ends, Idle
  <2> QED BY <1>2, <1>11, <2>1, <2>2, QuietStep DEF Ends, files
<1> QED BY <1>1, <1>3, <1>4, <1>5, <1>6, <1>7, <1>8, <1>9, <1>10, <1>11 DEF Step

LEMMA SafeNext == ~DiesUnsynced /\ TypeInv /\ SafeInv /\ [Next]_vars => SafeInv'
<1> SUFFICES ASSUME ~DiesUnsynced, TypeInv, SafeInv, [Next]_vars PROVE SafeInv'
  OBVIOUS
<1>1. CASE \E p \in Procs : Step(p)
  BY <1>1, SafeStep
<1>2. CASE PowerLoss
  BY <1>2, PowerLossStep
<1>3. CASE UNCHANGED vars
  <2>1. Latest' = Latest /\ LatestOf(former)' = LatestOf(former)
    BY <1>3 DEF vars, Latest, LatestOf
  <2> QED BY <1>3, <2>1 DEF vars, SafeInv, Settled, Synced, Apart, Safe, References, Present
<1> QED BY <1>1, <1>2, <1>3 DEF Next

(* Unless a process dies between the rename of a manifest and the sync of  *)
(* its directory, the catalog that the registry selects has its artifacts, *)
(* through every death of a builder and every loss of power.               *)
THEOREM CatalogStaysReadable == ~DiesUnsynced => (Spec => []CatalogIntact)
<1> SUFFICES ASSUME ~DiesUnsynced PROVE Spec => []CatalogIntact
  OBVIOUS
<1>1. Init => TypeInv /\ SafeInv
  BY TypeInit, SafeInit
<1>2. TypeInv /\ SafeInv /\ [Next]_vars => TypeInv' /\ SafeInv'
  BY TypeNext, SafeNext
<1>3. SafeInv => CatalogIntact
  BY DEF SafeInv, Safe, CatalogIntact, ArtifactsPresent
<1> QED BY <1>1, <1>2, <1>3, PTL DEF Spec

-----------------------------------------------------------------------------
(* The other promises: both slots keep their refresh state, a retry is not *)
(* refused, a reader one commit behind is served, and publication          *)
(* implements the register with one commit point.  All of them compare the *)
(* manifest being prepared with the newest one it follows.                 *)

(* The stages from the plan to the commit point, and those of them in      *)
(* which something may be left to copy.                                    *)
Drafting == BeforeStage \union {"commit", "publish"}
Copying  == {"collect", "copy", "copying"}

(* What the older manifest holds of a system that is still in the newer    *)
(* one is the newer one's active or previous artifact.                     *)
Follows(older, newer) ==
    \A s \in Present(older) \intersect Present(newer) :
        older.systems[s].active \in
            {NoArtifact, newer.systems[s].active, newer.systems[s].previous}

(* No manifest refers to a generation or a pack newer than itself.         *)
Aged(manifest) == \A n \in References(manifest) : n[2] <= manifest.generation

PacksKept(refresh) ==
    \A s \in Systems : /\ refresh.packs[s] \in packs \union {0}
                       /\ refresh.packs[s] <= refresh.generation

Kept(manifest) ==
    RefreshReadable(manifest) /\ Aged(manifest) /\ PacksKept(manifest.refresh)

SlotsKept(slots) ==
    \A x \in Slots : slots[x] # None =>
        /\ Kept(slots[x])
        /\ Follows(slots[x], LatestOf(slots))
        /\ slots[x].refresh.generation <= LatestOf(slots).refresh.generation

StagedAged ==
    \A x \in Slots : staged[x] # None =>
        \A s \in Systems : staged[x].packs[s] <= staged[x].generation

(* The draft against the newest manifest.                                  *)
Planned(p) ==
    job[p].at \in Drafting =>
        /\ Follows(Latest, job[p].draft) /\ Aged(job[p].draft)
        /\ job[p].draft.generation \in {GenerationOf(Latest), GenerationOf(Latest) + 1}
        /\ MetadataOnly(p) =>
             Latest # None /\ job[p].draft.systems = Latest.systems

(* What is still to be copied, and that nothing is in its way.             *)
Remaining(p) == {Target(p, s) : s \in job[p].copying}

Copied(p) ==
    /\ job[p].at \in Copying => ~MetadataOnly(p)
    /\ job[p].at \in Drafting \ Copying => job[p].copying = {}
    /\ job[p].at \in Drafting \ {"collect"} =>
         \A n \in References(job[p].draft) : artifact[n] = "whole" \/ n \in Remaining(p)
    /\ job[p].at = "collect" =>
         References(job[p].draft) \subseteq References(Latest) \union Remaining(p)
    /\ job[p].at = "copy" => \A n \in Remaining(p) : artifact[n] = "absent"
    /\ job[p].at = "copying" =>
         \A m, n \in Remaining(p) :
             artifact[m] = "torn" /\ n # m => artifact[n] = "absent"

(* The refresh state of the draft.                                         *)
Refreshed(p) ==
    /\ job[p].at \in BeforeStage =>
         \A s \in Systems : /\ job[p].kept[s] \in packs \union {0}
                            /\ job[p].kept[s] <= RefreshGenerationOf(Latest)
    /\ job[p].at = "stage" /\ job[p].checked # {} => NextRefresh \in packs
    /\ job[p].at \in {"commit", "publish"} =>
         LET draft == job[p].draft
         IN  /\ draft.refresh # None
             /\ draft.refresh.catalog = draft.generation
             /\ draft.refresh.fingerprint = Fingerprint(draft.systems)
             /\ PacksKept(draft.refresh)
             /\ RefreshGenerationOf(Latest) < draft.refresh.generation
             /\ job[p].at = "publish" =>
                  commits[draft.refresh.generation] = draft.refresh

SlotsInv == SlotsKept(slot) /\ SlotsKept(former) /\ StagedAged

CommitInv ==
    /\ SlotsInv
    /\ \A p \in Procs : Planned(p) /\ Copied(p) /\ Refreshed(p)

Fresh == TypeInv /\ SafeInv /\ CommitInv

-----------------------------------------------------------------------------
LEMMA CommitInit == Init => CommitInv
<1> SUFFICES ASSUME Init PROVE CommitInv
  OBVIOUS
<1>1. \A x \in Slots : slot[x] = None /\ former[x] = None /\ staged[x] = None
  BY DEF Init
<1>2. \A p \in Procs : job[p].at = "idle"
  BY DEF Init, Idle
<1>3. SlotsInv
  BY <1>1 DEF SlotsInv, SlotsKept, StagedAged
<1>4. \A p \in Procs : Planned(p) /\ Copied(p) /\ Refreshed(p)
  BY <1>2 DEF Planned, Copied, Refreshed, Drafting, BeforeStage, Copying
<1> QED BY <1>3, <1>4 DEF CommitInv

(* One process is at work at a time.                                       *)
LEMMA HolderDecides ==
    ASSUME NEW p \in Procs, \A q \in Procs : q # p => job'[q].at = "idle",
           SlotsInv', Planned(p)', Copied(p)', Refreshed(p)'
    PROVE  CommitInv'
<1>1. \A q \in Procs : q # p => Planned(q)' /\ Copied(q)' /\ Refreshed(q)'
  BY DEF Planned, Copied, Refreshed, Drafting, BeforeStage, Copying
<1> QED BY <1>1 DEF CommitInv

LEMMA NotDrafting ==
    ASSUME NEW p \in Procs, job'[p].at \notin Drafting
    PROVE  Planned(p)' /\ Copied(p)' /\ Refreshed(p)'
  BY DEF Planned, Copied, Refreshed, Drafting, BeforeStage, Copying

LEMMA SlotsStay ==
    ASSUME SlotsInv, former' \in {slot, former},
           UNCHANGED <<slot, commits, packs, staged>>
    PROVE  SlotsInv'
<1>1. LatestOf(slot)' = LatestOf(slot) /\ LatestOf(former)' = LatestOf(former')
  BY DEF LatestOf
<1>2. SlotsKept(slot)' /\ StagedAged'
  BY <1>1 DEF SlotsInv, SlotsKept, StagedAged, Kept, RefreshReadable, Aged,
              References, Present, PacksKept
<1>3. SlotsKept(former)'
  <2>1. CASE former' = slot
    BY <1>1, <2>1 DEF SlotsInv, SlotsKept, Kept, RefreshReadable, Aged, References,
                      Present, PacksKept
  <2>2. CASE former' = former
    BY <1>1, <2>2 DEF SlotsInv, SlotsKept, Kept, RefreshReadable, Aged, References,
                      Present, PacksKept
  <2> QED BY <2>1, <2>2
<1> QED BY <1>2, <1>3 DEF SlotsInv

(* A step that ends a job's drafting, or has none, and leaves the slots.   *)
LEMMA LeavingStep ==
    ASSUME Fresh, NEW p \in Procs, \A q \in Procs : q # p => job'[q].at = "idle",
           job'[p].at \notin Drafting, former' \in {slot, former},
           UNCHANGED <<slot, commits, packs, staged>>
    PROVE  CommitInv'
  BY HolderDecides, NotDrafting, SlotsStay DEF Fresh, CommitInv

(* The draft stays what was planned.                                       *)
LEMMA PlannedStays ==
    ASSUME NEW p \in Procs, Planned(p), UNCHANGED slot, job[p].at \in Drafting,
           job[p].draft # None, job'[p].draft # None,
           job'[p].draft.generation = job[p].draft.generation,
           job'[p].draft.systems = job[p].draft.systems
    PROVE  /\ Planned(p)'
           /\ References(job'[p].draft) = References(job[p].draft)
           /\ MetadataOnly(p)' <=> MetadataOnly(p)
<1>1. Latest' = Latest
  BY DEF Latest, LatestOf
<1>2. References(job'[p].draft) = References(job[p].draft)
      /\ Present(job'[p].draft) = Present(job[p].draft)
  BY DEF References, Present
<1>3. MetadataOnly(p)' <=> MetadataOnly(p)
  BY <1>1 DEF MetadataOnly, GenerationOf
<1>4. Follows(Latest, job[p].draft)' <=> Follows(Latest, job[p].draft)
  BY <1>1, <1>2 DEF Follows, Present
<1>5. Aged(job[p].draft)' <=> Aged(job[p].draft)
  BY <1>2 DEF Aged, References, Present
<1> QED BY <1>1, <1>2, <1>3, <1>4, <1>5 DEF Planned, GenerationOf

(* From copying to the staged manifest what is kept does not change.       *)
LEMMA RefreshedStays ==
    ASSUME NEW p \in Procs, Refreshed(p), UNCHANGED <<slot, staged, packs>>,
           job[p].at \in BeforeStage, job'[p].at \in BeforeStage \ {"stage"},
           job'[p].kept = job[p].kept
    PROVE  Refreshed(p)'
<1>1. Latest' = Latest
  BY DEF Latest, LatestOf
<1> QED BY <1>1 DEF Refreshed, RefreshGenerationOf, BeforeStage

LEMMA LatestKept ==
    ASSUME TypeInv, SlotsInv
    PROVE  /\ Latest \in Manifests \union {None}
           /\ Latest # None => Kept(Latest)
<1>1. slot \in SlotSets
  BY DEF TypeInv, TypeOK, SlotSets
<1>2. CASE \A x \in Slots : slot[x] = None
  BY <1>2 DEF Latest, LatestOf
<1>3. CASE ~(\A x \in Slots : slot[x] = None)
  <2>1. PICK x \in Slots : slot[x] # None /\ Latest = slot[x]
    BY <1>1, <1>3, LatestIsNewest DEF Latest
  <2> QED BY <1>1, <2>1 DEF SlotSets, SlotsInv, SlotsKept
<1> QED BY <1>2, <1>3

LEMMA DraftIsThere ==
    ASSUME TypeInv, NEW p \in Procs, job[p].at \in Drafting
    PROVE  /\ job[p] \in Jobs /\ job[p].draft \in Drafts /\ job[p].draft # None
           /\ \A q \in Procs : q # p => job[q].at = "idle"
  BY NoneAssumption, HolderAlone DEF TypeInv, TypeOK, Drafted, Drafting, BeforeStage

(* What is to be copied is not in use.                                     *)
LEMMA TargetsAreNew ==
    ASSUME Fresh, NEW p \in Procs, job[p].at \in Copying
    PROVE  Remaining(p) \subseteq Names \ References(Latest)
<1>1. job[p].at \in Drafting
  BY DEF Copying, Drafting, BeforeStage
<1>2. job[p] \in Jobs /\ job[p].draft \in Drafts
  BY <1>1, DraftIsThere DEF Fresh
<1>3. job[p].draft.generation = GenerationOf(Latest) + 1
  BY <1>1 DEF Fresh, CommitInv, Planned, Copied, MetadataOnly
<1>4. Remaining(p) \subseteq Names
  BY <1>2 DEF Remaining, Target, Names, Jobs, Drafts
<1>5. ASSUME NEW n \in Remaining(p), n \in References(Latest) PROVE FALSE
  <2>1. Latest \in Manifests /\ Aged(Latest)
    BY <1>5, LatestKept DEF Fresh, CommitInv, References, Present, Kept
  <2>2. Latest # None /\ Latest.generation \in Nat
    BY <1>5, <2>1 DEF References, Present, Manifests, Generations
  <2>3. n[2] <= Latest.generation
    BY <1>5, <2>1 DEF Aged
  <2>4. n[2] = Latest.generation + 1
    BY <1>3, <1>5, <2>2 DEF Remaining, Target, GenerationOf
  <2> QED BY <2>2, <2>3, <2>4
<1> QED BY <1>4, <1>5

-----------------------------------------------------------------------------
(* Up to the sync of the artifacts.                                        *)

(* A step of a build that neither touches the slots nor the refresh state: *)
(* what is left to show is where the copies stand.                         *)
LEMMA CopyingStep ==
    ASSUME Fresh, NEW p \in Procs, job[p].at \in Copying,
           job'[p].at \in Copying \union {"pack"},
           job'[p].draft = job[p].draft, job'[p].kept = job[p].kept,
           \A q \in Procs : q # p => job'[q] = job[q],
           former' \in {slot, former}, UNCHANGED <<slot, commits, packs, staged>>,
           Copied(p)'
    PROVE  CommitInv'
<1>1. job[p].at \in BeforeStage /\ job'[p].at \in BeforeStage \ {"stage"}
  BY DEF Copying, BeforeStage
<1>2. /\ job[p].draft # None
      /\ \A q \in Procs : q # p => job'[q].at = "idle"
  BY <1>1, DraftIsThere DEF Fresh, Drafting
<1>3. Planned(p)'
  BY <1>1, <1>2, PlannedStays DEF Fresh, CommitInv, Drafting
<1>4. Refreshed(p)'
  BY <1>1, RefreshedStays DEF Fresh, CommitInv
<1>5. SlotsInv'
  BY SlotsStay DEF Fresh, CommitInv
<1> QED BY <1>2, <1>3, <1>4, <1>5, HolderDecides

LEMMA SameTargets ==
    ASSUME NEW p \in Procs, job'[p].draft = job[p].draft
    PROVE  /\ \A s : Target(p, s)' = Target(p, s)
           /\ job'[p].copying = job[p].copying => Remaining(p)' = Remaining(p)
           /\ UNCHANGED slot => (MetadataOnly(p)' <=> MetadataOnly(p))
           /\ References(job[p].draft)' = References(job[p].draft)
  BY DEF Target, Remaining, MetadataOnly, Latest, LatestOf, GenerationOf,
         References, Present

LEMMA CollectStep ==
    ASSUME Fresh, NEW p \in Procs, Collect(p) PROVE CommitInv'
<1>1. job[p].at = "collect" /\ job' = job
      /\ UNCHANGED <<slot, former, commits, packs, staged>>
  BY DEF Collect, RemoveOrphan
<1>2. Remaining(p)' = Remaining(p) /\ (MetadataOnly(p)' <=> MetadataOnly(p))
      /\ References(job[p].draft)' = References(job[p].draft)
  BY <1>1, SameTargets
<1>3. References(Latest)' = References(Latest)
  BY <1>1 DEF References, Present, Latest, LatestOf
<1>4. Copied(p)'
  BY <1>1, <1>2, <1>3 DEF Fresh, CommitInv, Copied, Copying, Drafting, BeforeStage
<1> QED BY <1>1, <1>4, CopyingStep DEF Copying

LEMMA CollectedStep ==
    ASSUME Fresh, NEW p \in Procs, Collected(p) PROVE CommitInv'
<1>1. /\ job[p].at = "collect" /\ OrphansOf(Latest) = {}
      /\ UNCHANGED <<artifact, slot, former, commits, packs, staged>>
  BY DEF Collected, files
<1>2. job[p] \in Jobs
  BY JobFields DEF Fresh, TypeInv
<1>3. /\ job'[p].at = "copy" /\ job'[p].draft = job[p].draft
      /\ job'[p].kept = job[p].kept /\ job'[p].copying = job[p].copying
      /\ \A q \in Procs : q # p => job'[q] = job[q]
  BY <1>2 DEF Collected, Fresh, TypeInv, TypeOK, Jobs
<1>4. Remaining(p)' = Remaining(p) /\ (MetadataOnly(p)' <=> MetadataOnly(p))
      /\ References(job[p].draft)' = References(job[p].draft)
  BY <1>1, <1>3, SameTargets
<1>5. /\ ~MetadataOnly(p)
      /\ References(job[p].draft) \subseteq References(Latest) \union Remaining(p)
  BY <1>1 DEF Fresh, CommitInv, Copied, Copying
<1>6. \A n \in References(Latest) : artifact[n] = "whole"
  BY DEF Fresh, SafeInv, Safe
<1>7. \A n \in Remaining(p) : artifact[n] = "absent"
  BY <1>1, TargetsAreNew DEF OrphansOf, Copying
<1>8. Copied(p)'
  BY <1>1, <1>3, <1>4, <1>5, <1>6, <1>7 DEF Copied, Copying, Drafting, BeforeStage
<1> QED BY <1>1, <1>3, <1>8, CopyingStep DEF Copying

LEMMA CopyStartsStep ==
    ASSUME Fresh, NEW p \in Procs, NEW s \in Systems, CopyStarts(p, s)
    PROVE  CommitInv'
<1>1. /\ job[p].at = "copy" /\ s \in job[p].copying
      /\ UNCHANGED <<slot, former, commits, packs, staged>>
  BY DEF CopyStarts
<1>2. job[p] \in Jobs
  BY JobFields DEF Fresh, TypeInv
<1>3. /\ job'[p].at = "copying" /\ job'[p].draft = job[p].draft
      /\ job'[p].kept = job[p].kept /\ job'[p].copying = job[p].copying
      /\ \A q \in Procs : q # p => job'[q] = job[q]
  BY <1>2 DEF CopyStarts, Fresh, TypeInv, TypeOK, Jobs
<1>4. Remaining(p)' = Remaining(p) /\ (MetadataOnly(p)' <=> MetadataOnly(p))
      /\ References(job[p].draft)' = References(job[p].draft)
  BY <1>1, <1>3, SameTargets
<1>5. /\ ~MetadataOnly(p)
      /\ \A n \in References(job[p].draft) : artifact[n] = "whole" \/ n \in Remaining(p)
      /\ \A n \in Remaining(p) : artifact[n] = "absent"
  BY <1>1 DEF Fresh, CommitInv, Copied, Copying, Drafting, BeforeStage
<1>6. \A n \in Remaining(p) : artifact'[n] = "torn" => n = Target(p, s)
  BY <1>5 DEF CopyStarts, Fresh, TypeInv, TypeOK
<1>7. \A n \in References(job[p].draft) : artifact'[n] = "whole" \/ n \in Remaining(p)
  <2>1. Target(p, s) \in Remaining(p)
    BY <1>1 DEF Remaining
  <2>2. \A n \in Names : n # Target(p, s) => artifact'[n] = artifact[n]
    BY DEF CopyStarts, Fresh, TypeInv, TypeOK
  <2> QED BY <1>5, <2>1, <2>2 DEF References
<1>8. \A n \in Remaining(p) : n # Target(p, s) => artifact'[n] = "absent"
  <2>1. Remaining(p) \subseteq Names
    BY <1>1, TargetsAreNew DEF Copying
  <2> QED BY <1>5, <2>1 DEF CopyStarts, Fresh, TypeInv, TypeOK
<1>9. Copied(p)'
  BY <1>1, <1>3, <1>4, <1>5, <1>6, <1>7, <1>8 DEF Copied, Copying, Drafting, BeforeStage
<1> QED BY <1>1, <1>3, <1>9, CopyingStep DEF Copying

LEMMA CopyEndsStep ==
    ASSUME Fresh, NEW p \in Procs, NEW s \in Systems, CopyEnds(p, s)
    PROVE  CommitInv'
<1>1. /\ job[p].at = "copying" /\ s \in job[p].copying
      /\ artifact[Target(p, s)] = "torn"
      /\ UNCHANGED <<slot, former, commits, packs, staged>>
  BY DEF CopyEnds
<1>2. job[p] \in Jobs
  BY JobFields DEF Fresh, TypeInv
<1>3. /\ job'[p].at = "copy" /\ job'[p].draft = job[p].draft
      /\ job'[p].kept = job[p].kept /\ job'[p].copying = job[p].copying \ {s}
      /\ \A q \in Procs : q # p => job'[q] = job[q]
  BY <1>2 DEF CopyEnds, Fresh, TypeInv, TypeOK, Jobs
<1>4. /\ \A t : Target(p, t)' = Target(p, t)
      /\ (MetadataOnly(p)' <=> MetadataOnly(p))
      /\ References(job[p].draft)' = References(job[p].draft)
  BY <1>1, <1>3, SameTargets
<1>5. Remaining(p)' = Remaining(p) \ {Target(p, s)}
  <2>1. \A t : Target(p, t) = Target(p, s) => t = s
    BY DEF Target
  <2>2. Remaining(p)' = {Target(p, t) : t \in job[p].copying \ {s}}
    BY <1>3, <1>4 DEF Remaining
  <2> QED BY <2>1, <2>2 DEF Remaining
<1>6. /\ ~MetadataOnly(p) /\ Target(p, s) \in Remaining(p)
      /\ \A n \in References(job[p].draft) : artifact[n] = "whole" \/ n \in Remaining(p)
      /\ \A n \in Remaining(p) : n # Target(p, s) => artifact[n] = "absent"
  BY <1>1 DEF Fresh, CommitInv, Copied, Copying, Drafting, BeforeStage, Remaining
<1>7. Remaining(p) \subseteq Names
  BY <1>1, TargetsAreNew DEF Copying
<1>8. /\ artifact'[Target(p, s)] = "whole"
      /\ \A n \in Names : n # Target(p, s) => artifact'[n] = artifact[n]
  BY <1>6, <1>7 DEF CopyEnds, Fresh, TypeInv, TypeOK
<1>9. /\ \A n \in References(job[p].draft) : artifact'[n] = "whole" \/ n \in Remaining(p)'
      /\ \A n \in Remaining(p)' : artifact'[n] = "absent"
  BY <1>5, <1>6, <1>7, <1>8 DEF References
<1>10. Copied(p)'
  BY <1>1, <1>3, <1>4, <1>6, <1>9 DEF Copied, Copying, Drafting, BeforeStage
<1> QED BY <1>1, <1>3, <1>10, CopyingStep DEF Copying

LEMMA SyncArtifactsStep ==
    ASSUME Fresh, NEW p \in Procs, SyncArtifacts(p) PROVE CommitInv'
<1>1. /\ job[p].at = "copy" /\ job[p].copying = {} /\ former' = slot
      /\ UNCHANGED <<artifact, slot, commits, packs, staged>>
  BY DEF SyncArtifacts, SyncAll
<1>2. job[p] \in Jobs
  BY JobFields DEF Fresh, TypeInv
<1>3. /\ job'[p].at = "pack" /\ job'[p].draft = job[p].draft
      /\ job'[p].kept = job[p].kept /\ job'[p].copying = {}
      /\ \A q \in Procs : q # p => job'[q] = job[q]
  BY <1>1, <1>2 DEF SyncArtifacts, Fresh, TypeInv, TypeOK, Jobs
<1>4. Remaining(p)' = Remaining(p) /\ References(job[p].draft)' = References(job[p].draft)
  BY <1>1, <1>3, SameTargets
<1>5. \A n \in References(job[p].draft) : artifact[n] = "whole" \/ n \in Remaining(p)
  BY <1>1 DEF Fresh, CommitInv, Copied, Copying, Drafting, BeforeStage
<1>6. Copied(p)'
  BY <1>1, <1>3, <1>4, <1>5 DEF Copied, Copying, Drafting, BeforeStage
<1> QED BY <1>1, <1>3, <1>6, CopyingStep DEF Copying

-----------------------------------------------------------------------------
(* The refresh state and the commit point.                                 *)

LEMMA NextRefreshIsNew ==
    ASSUME TypeInv
    PROVE  /\ NextRefresh \in Nat
           /\ RefreshGenerationOf(Latest) \in Nat
           /\ RefreshGenerationOf(Latest) < NextRefresh
           /\ \A x \in Slots : StagedGeneration(x) < NextRefresh
<1>1. Latest \in Manifests \union {None}
  BY LatestType DEF TypeInv, TypeOK, Latest, SlotSets
<1>2. RefreshGenerationOf(Latest) \in Nat
  BY <1>1, BoundsAssumption DEF RefreshGenerationOf, Manifests, Refreshes
<1> QED BY <1>2, RefreshNumber, BoundsAssumption DEF TypeInv, UsedRefreshes, Slots

(* More packs harm nothing.                                                *)
LEMMA MorePacks ==
    ASSUME SlotsInv, packs \subseteq packs', UNCHANGED <<slot, former, commits, staged>>
    PROVE  SlotsInv'
<1>1. LatestOf(slot)' = LatestOf(slot) /\ LatestOf(former)' = LatestOf(former)
  BY DEF LatestOf
<1>2. SlotsKept(slot)' /\ StagedAged'
  BY <1>1 DEF SlotsInv, SlotsKept, StagedAged, Kept, RefreshReadable, Aged,
              References, Present, PacksKept
<1>3. SlotsKept(former)'
  BY <1>1 DEF SlotsInv, SlotsKept, Kept, RefreshReadable, Aged, References,
              Present, PacksKept
<1> QED BY <1>2, <1>3 DEF SlotsInv

LEMMA WritePackStep ==
    ASSUME Fresh, NEW p \in Procs, WritePack(p) PROVE CommitInv'
<1>1. /\ job[p].at = "pack" /\ packs \subseteq packs'
      /\ job[p].checked # {} => NextRefresh \in packs'
      /\ UNCHANGED <<artifact, slot, former, commits, staged>>
  BY DEF WritePack
<1>2. /\ job[p] \in Jobs /\ job[p].draft # None
      /\ \A q \in Procs : q # p => job[q].at = "idle"
  BY <1>1, DraftIsThere DEF Fresh, Drafting, BeforeStage
<1>3. /\ job'[p].at = "stage" /\ job'[p].draft = job[p].draft
      /\ job'[p].kept = job[p].kept /\ job'[p].copying = job[p].copying
      /\ job'[p].checked = job[p].checked
      /\ \A q \in Procs : q # p => job'[q].at = "idle"
  BY <1>2 DEF WritePack, Fresh, TypeInv, TypeOK, Jobs
<1>4. NextRefresh' = NextRefresh /\ Latest' = Latest
  BY <1>1, NextRefreshKept
<1>5. Planned(p)'
  BY <1>1, <1>2, <1>3, PlannedStays DEF Fresh, CommitInv, Drafting, BeforeStage
<1>6. Copied(p)'
  <2>1. Remaining(p)' = Remaining(p) /\ References(job[p].draft)' = References(job[p].draft)
    BY <1>3, SameTargets
  <2> QED BY <1>1, <1>3, <2>1 DEF Fresh, CommitInv, Copied, Copying, Drafting, BeforeStage
<1>7. Refreshed(p)'
  BY <1>1, <1>3, <1>4 DEF Fresh, CommitInv, Refreshed, BeforeStage, RefreshGenerationOf
<1>8. SlotsInv'
  BY <1>1, MorePacks DEF Fresh, CommitInv
<1> QED BY <1>3, <1>5, <1>6, <1>7, <1>8, HolderDecides

(* The new refresh state refers to the new pack and to kept ones.          *)
LEMMA NewRefreshKept ==
    ASSUME Fresh, NEW p \in Procs, job[p].at = "stage"
    PROVE  PacksKept(NewRefresh(p)) /\ NewRefresh(p) \in Refreshes
<1>1. /\ \A s \in Systems : /\ job[p].kept[s] \in packs \union {0}
                            /\ job[p].kept[s] <= RefreshGenerationOf(Latest)
      /\ job[p].checked # {} => NextRefresh \in packs
  BY DEF Fresh, CommitInv, Refreshed, BeforeStage
<1>2. job[p] \in Jobs /\ job[p].draft \in Drafts
  BY DraftIsThere DEF Fresh, Drafting, BeforeStage
<1>3. \A s \in Systems : job[p].kept[s] \in Nat
  BY <1>2, BoundsAssumption DEF Jobs
<1>4. NextRefresh \in 1 .. MaxRefresh
  BY RefreshNumber, BoundsAssumption DEF Fresh, TypeInv, Reserved, BeforeStage
<1>5. PacksKept(NewRefresh(p))
  <2> SUFFICES ASSUME NEW s \in Systems
               PROVE  /\ NewRefresh(p).packs[s] \in packs \union {0}
                      /\ NewRefresh(p).packs[s] <= NewRefresh(p).generation
    BY DEF PacksKept
  <2>1. NewRefresh(p).generation = NextRefresh
    BY DEF NewRefresh
  <2>2. CASE s \in job[p].checked
    BY <1>1, <1>4, <2>1, <2>2 DEF NewRefresh
  <2>3. CASE s \notin job[p].checked
    <3>1. NewRefresh(p).packs[s] = job[p].kept[s]
      BY <2>3 DEF NewRefresh
    <3> QED BY <1>1, <1>3, <2>1, <3>1, NextRefreshIsNew DEF Fresh
  <2> QED BY <2>2, <2>3
<1>6. Fingerprint(job[p].draft.systems)
        \in [Systems -> Generations \union {NoArtifact, None}]
  BY <1>2 DEF Fingerprint, Drafts, Contents, Entries
<1>7. [s \in Systems |-> IF s \in job[p].checked THEN NextRefresh ELSE job[p].kept[s]]
        \in [Systems -> 0 .. MaxRefresh]
  BY <1>2, <1>4, BoundsAssumption DEF Jobs
<1>8. NewRefresh(p) \in Refreshes
  BY <1>2, <1>4, <1>6, <1>7 DEF NewRefresh, Refreshes, Drafts
<1> QED BY <1>5, <1>8

LEMMA StageStep ==
    ASSUME Fresh, NEW p \in Procs, Stage(p) PROVE CommitInv'
<1> DEFINE r == NewRefresh(p)
<1>1. /\ job[p].at = "stage" /\ former' = slot
      /\ staged' = [staged EXCEPT ![StagingSlot(NextRefresh)] = r]
      /\ UNCHANGED <<artifact, slot, commits, packs>>
  BY DEF Stage, SyncAll
<1>2. /\ job[p] \in Jobs /\ job[p].draft \in Drafts /\ job[p].draft # None
      /\ \A q \in Procs : q # p => job[q].at = "idle"
  BY <1>1, DraftIsThere DEF Fresh, Drafting, BeforeStage
<1>3. r \in Refreshes /\ PacksKept(r) /\ r # None
  BY <1>1, NewRefreshKept, NoneAssumption
<1>4. /\ job'[p].at = "commit" /\ job'[p].draft = [job[p].draft EXCEPT !.refresh = r]
      /\ job'[p].copying = job[p].copying
      /\ \A q \in Procs : q # p => job'[q].at = "idle"
  BY <1>2 DEF Stage, Fresh, TypeInv, TypeOK, Jobs
<1>5. /\ r.generation = NextRefresh /\ r.catalog = job[p].draft.generation
      /\ r.fingerprint = Fingerprint(job[p].draft.systems)
  BY DEF NewRefresh
<1> HIDE DEF r
<1>6. /\ job'[p].draft.generation = job[p].draft.generation
      /\ job'[p].draft.systems = job[p].draft.systems
      /\ job'[p].draft.refresh = r /\ job'[p].draft # None
  <2>1. job'[p].draft \in Drafts
    BY <1>2, <1>3, <1>4 DEF Drafts
  <2> QED BY <1>2, <1>4, <2>1, NoneAssumption DEF Drafts
<1>7. Planned(p)' /\ References(job'[p].draft) = References(job[p].draft)
  BY <1>1, <1>2, <1>6, PlannedStays DEF Fresh, CommitInv, Drafting, BeforeStage
<1>8. Copied(p)'
  <2>1. Remaining(p)' = Remaining(p)
    BY <1>4, <1>6 DEF Remaining, Target
  <2>2. References(job[p].draft)' = References(job[p].draft)
    BY <1>7 DEF References, Present
  <2> QED BY <1>1, <1>4, <2>1, <2>2 DEF Fresh, CommitInv, Copied, Copying, Drafting, BeforeStage
<1>9. Refreshed(p)'
  <2>1. RefreshGenerationOf(Latest)' = RefreshGenerationOf(Latest)
    BY <1>1 DEF RefreshGenerationOf, Latest, LatestOf
  <2>2. RefreshGenerationOf(Latest) < r.generation
    BY <1>5, NextRefreshIsNew DEF Fresh
  <2>3. PacksKept(job[p].draft.refresh)'
    BY <1>1, <1>3, <1>6 DEF PacksKept
  <2> QED BY <1>3, <1>4, <1>5, <1>6, <2>1, <2>2, <2>3 DEF Refreshed, BeforeStage
<1>10. SlotsInv'
  <2>1. StagedAged'
    BY <1>1, <1>3 DEF Fresh, CommitInv, SlotsInv, StagedAged, PacksKept, TypeInv, TypeOK
  <2>2. LatestOf(slot)' = LatestOf(slot) /\ LatestOf(former)' = LatestOf(slot)
    BY <1>1 DEF LatestOf
  <2>3. SlotsKept(slot)' /\ SlotsKept(former)'
    BY <1>1, <2>2 DEF Fresh, CommitInv, SlotsInv, SlotsKept, Kept, RefreshReadable,
                      Aged, References, Present, PacksKept
  <2> QED BY <2>1, <2>3 DEF SlotsInv
<1> QED BY <1>4, <1>7, <1>8, <1>9, <1>10, HolderDecides

LEMMA WriteCommitStep ==
    ASSUME Fresh, NEW p \in Procs, WriteCommit(p) PROVE CommitInv'
<1> DEFINE r == job[p].draft.refresh
<1>1. /\ job[p].at = "commit"
      /\ commits' = [commits EXCEPT ![r.generation] = r]
      /\ UNCHANGED <<artifact, slot, former, packs, staged>>
  BY DEF WriteCommit
<1>2. /\ job[p] \in Jobs /\ job[p].draft \in Drafts /\ job[p].draft # None
      /\ \A q \in Procs : q # p => job[q].at = "idle"
  BY <1>1, DraftIsThere DEF Fresh, Drafting, BeforeStage
<1>3. /\ job'[p].at = "publish" /\ job'[p].draft = job[p].draft
      /\ job'[p].copying = job[p].copying
      /\ \A q \in Procs : q # p => job'[q].at = "idle"
  BY <1>2 DEF WriteCommit, Fresh, TypeInv, TypeOK, Jobs
<1>4. /\ r # None /\ r \in Refreshes
      /\ r.catalog = job[p].draft.generation
      /\ r.fingerprint = Fingerprint(job[p].draft.systems)
      /\ PacksKept(r) /\ RefreshGenerationOf(Latest) < r.generation
  BY <1>1, <1>2 DEF Fresh, CommitInv, Refreshed, Drafts
<1>5. Planned(p)'
  BY <1>1, <1>2, <1>3, PlannedStays DEF Fresh, CommitInv, Drafting, BeforeStage
<1>6. Copied(p)'
  <2>1. Remaining(p)' = Remaining(p) /\ References(job[p].draft)' = References(job[p].draft)
    BY <1>3, SameTargets
  <2> QED BY <1>1, <1>3, <2>1 DEF Fresh, CommitInv, Copied, Copying, Drafting, BeforeStage
<1> HIDE DEF r
<1>7. commits'[r.generation] = r
      /\ \A n \in 1 .. MaxRefresh : n # r.generation => commits'[n] = commits[n]
  BY <1>1, <1>4 DEF Fresh, TypeInv, TypeOK, Refreshes
<1>8. Refreshed(p)'
  <2>1. RefreshGenerationOf(Latest)' = RefreshGenerationOf(Latest)
    BY <1>1 DEF RefreshGenerationOf, Latest, LatestOf
  <2>2. PacksKept(job[p].draft.refresh)'
    BY <1>1, <1>3, <1>4 DEF PacksKept, r
  <2> QED BY <1>3, <1>4, <1>7, <2>1, <2>2 DEF Refreshed, BeforeStage, r
<1>9. former = slot
  BY <1>1, <1>2 DEF Fresh, SafeInv, Settled
<1>10. \A x \in Slots : slot[x] # None =>
           /\ slot[x].refresh.generation \in 1 .. MaxRefresh
           /\ slot[x].refresh.generation # r.generation
  <2> SUFFICES ASSUME NEW x \in Slots, slot[x] # None
               PROVE  /\ slot[x].refresh.generation \in 1 .. MaxRefresh
                      /\ slot[x].refresh.generation # r.generation
    OBVIOUS
  <2>1. slot[x].refresh.generation <= Latest.refresh.generation
    BY DEF Fresh, CommitInv, SlotsInv, SlotsKept, Latest
  <2>2. slot \in SlotSets /\ ~(\A y \in Slots : slot[y] = None)
    BY DEF Fresh, TypeInv, TypeOK, SlotSets
  <2>3. Latest \in Manifests /\ Latest # None
    BY <2>2, LatestIsNewest DEF Latest, SlotSets
  <2>4. /\ slot[x].refresh.generation \in 1 .. MaxRefresh
        /\ Latest.refresh.generation \in Nat /\ r.generation \in Nat
    BY <1>4, <2>2, <2>3, BoundsAssumption DEF SlotSets, Manifests, Refreshes
  <2> QED BY <1>4, <2>1, <2>3, <2>4 DEF RefreshGenerationOf
<1>11. SlotsInv'
  <2>1. LatestOf(slot)' = LatestOf(slot) /\ LatestOf(former)' = LatestOf(slot)
    BY <1>1, <1>9 DEF LatestOf
  <2>2. \A x \in Slots : slot[x] # None => RefreshReadable(slot[x])'
    BY <1>1, <1>7, <1>10 DEF Fresh, CommitInv, SlotsInv, SlotsKept, Kept, RefreshReadable
  <2>3. SlotsKept(slot)'
    BY <1>1, <2>1, <2>2 DEF Fresh, CommitInv, SlotsInv, SlotsKept, Kept, Aged,
                            References, Present, PacksKept, RefreshReadable
  <2>4. SlotsKept(former)'
    BY <1>1, <1>9, <2>1, <2>2 DEF Fresh, CommitInv, SlotsInv, SlotsKept, Kept, Aged,
                            References, Present, PacksKept, RefreshReadable
  <2> QED BY <1>1, <2>3, <2>4 DEF Fresh, CommitInv, SlotsInv, StagedAged
<1> QED BY <1>3, <1>5, <1>6, <1>8, <1>11, HolderDecides

(* A rename makes the draft the newest manifest, and the other slot is one *)
(* that it follows.                                                        *)
LEMMA RenameKeeps ==
    ASSUME Fresh, NEW p \in Procs, NEW x \in Slots, Rename(p, x),
           job[p].at = "publish", RefreshReadable(job[p].draft),
           \A y \in Slots : y # x /\ slot[y] # None =>
               /\ slot[y].generation < job[p].draft.generation
               /\ Follows(slot[y], job[p].draft)
    PROVE  CommitInv'
<1> DEFINE d == job[p].draft
<1>1. /\ job[p] \in Jobs /\ \A q \in Procs : q # p => job[q].at = "idle"
      /\ d \in Drafts /\ d # None
  BY DraftIsThere DEF Fresh, Drafting, BeforeStage
<1>2. job'[p].at = "settle" /\ \A q \in Procs : q # p => job'[q].at = "idle"
  BY <1>1 DEF Rename, Fresh, TypeInv, TypeOK, Jobs
<1>3. /\ slot' = [slot EXCEPT ![x] = d] /\ slot \in [Slots -> Manifests \union {None}]
      /\ UNCHANGED <<former, commits, packs, staged>>
  BY DEF Rename, Fresh, TypeInv, TypeOK
<1>4. LatestOf(slot') = d
  BY RenameLatest DEF Fresh
<1>5. /\ Kept(d) /\ d.refresh \in Refreshes
      /\ RefreshGenerationOf(Latest) < d.refresh.generation
  BY <1>1 DEF Fresh, CommitInv, Planned, Refreshed, Kept, Drafting, RefreshReadable, Drafts
<1> HIDE DEF d
<1>6. Follows(d, d)
  BY DEF Follows
<1>7. ASSUME NEW y \in Slots, y # x, slot[y] # None
      PROVE  /\ Kept(slot[y]) /\ Follows(slot[y], d)
             /\ slot[y].refresh.generation <= d.refresh.generation
  <2>1. Kept(slot[y]) /\ slot[y].refresh.generation <= Latest.refresh.generation
    BY <1>7 DEF Fresh, CommitInv, SlotsInv, SlotsKept, Latest
  <2>2. slot \in SlotSets /\ ~(\A z \in Slots : slot[z] = None)
    BY <1>3, <1>7 DEF SlotSets
  <2>3. Latest \in Manifests /\ Latest # None
    BY <2>2, LatestIsNewest DEF Latest, SlotSets
  <2>4. /\ slot[y].refresh.generation \in Nat /\ Latest.refresh.generation \in Nat
        /\ d.refresh.generation \in Nat
    BY <1>3, <1>5, <1>7, <2>3, BoundsAssumption DEF Manifests, Refreshes
  <2> QED BY <1>5, <1>7, <2>1, <2>3, <2>4 DEF RefreshGenerationOf, d
<1>8. d.refresh.generation <= d.refresh.generation
  BY <1>5, BoundsAssumption DEF Refreshes
<1>9. slot'[x] = d /\ \A y \in Slots : y # x => slot'[y] = slot[y]
  BY <1>3
<1>10. SlotsKept(slot)'
  <2>1. \A y \in Slots : slot'[y] # None =>
            /\ Kept(slot'[y]) /\ Follows(slot'[y], d)
            /\ slot'[y].refresh.generation <= d.refresh.generation
    BY <1>5, <1>6, <1>7, <1>8, <1>9
  <2>2. LatestOf(slot)' = d
    BY <1>4 DEF LatestOf
  <2> QED BY <1>3, <2>1, <2>2 DEF SlotsKept, Kept, RefreshReadable, Aged, References,
                                  Present, PacksKept
<1>11. SlotsKept(former)' /\ StagedAged'
  <2>1. LatestOf(former)' = LatestOf(former)
    BY <1>3 DEF LatestOf
  <2> QED BY <1>3, <2>1 DEF Fresh, CommitInv, SlotsInv, SlotsKept, Kept, StagedAged,
                            RefreshReadable, Aged, References, Present, PacksKept
<1>12. SlotsInv'
  BY <1>10, <1>11 DEF SlotsInv
<1> QED BY <1>2, <1>12, HolderDecides, NotDrafting DEF Drafting, BeforeStage

LEMMA PublishKeeps ==
    ASSUME Fresh, NEW p \in Procs, Publish(p) PROVE CommitInv'
<1>1. PICK x \in TargetSlots : Rename(p, x)
  BY DEF Publish
<1>2. /\ x \in Slots /\ job[p].at = "publish" /\ RefreshReadable(job[p].draft)
      /\ \A y \in Slots : GenerationOf(slot[y]) < job[p].draft.generation
  BY <1>1 DEF Publish, PublishAccepted, TargetSlots, Slots
<1>3. ASSUME NEW y \in Slots, y # x, slot[y] # None
      PROVE  /\ slot[y].generation < job[p].draft.generation
             /\ Follows(slot[y], job[p].draft)
  <2>1. slot \in SlotSets /\ ~(\A z \in Slots : slot[z] = None)
    BY <1>3 DEF Fresh, TypeInv, TypeOK, SlotSets
  <2>2. PICK z \in Slots : /\ slot[z] # None /\ Latest = slot[z]
                           /\ slot[y].generation <= slot[z].generation
    BY <1>3, <2>1, LatestIsNewest DEF Latest
  <2>3. z = y
    <3>1. SUFFICES ASSUME z = x PROVE FALSE
      BY <1>2, <1>3 DEF Slots
    <3>2. GenerationOf(slot[x]) <= GenerationOf(slot[y])
      BY <1>1, <1>3 DEF TargetSlots
    <3>3. slot[x].generation # slot[y].generation
      BY <1>2, <1>3, <2>2, <3>1 DEF Fresh, SafeInv, Apart, Slots
    <3>4. slot[x].generation \in Nat /\ slot[y].generation \in Nat
      BY <1>2, <1>3, <2>1, <2>2, <3>1 DEF SlotSets, Manifests, Generations
    <3> QED BY <1>3, <2>2, <3>1, <3>2, <3>3, <3>4 DEF GenerationOf
  <2>4. Follows(Latest, job[p].draft)
    BY <1>2 DEF Fresh, CommitInv, Planned, Drafting
  <2> QED BY <1>2, <1>3, <2>2, <2>3, <2>4 DEF GenerationOf
<1> QED BY <1>1, <1>2, <1>3, RenameKeeps

LEMMA ReplaceKeeps ==
    ASSUME Fresh, NEW p \in Procs, Replace(p) PROVE CommitInv'
<1>1. PICK x \in Slots : slot[x] = Latest /\ Rename(p, x)
  BY DEF Replace
<1>2. job[p].at = "publish" /\ RefreshReadable(job[p].draft)
  BY DEF Replace, ReplaceAccepted
<1>3. job[p].draft # None
  BY <1>2, DraftIsThere DEF Fresh, Drafting
<1>4. /\ job[p].draft.systems = Latest.systems /\ Latest # None
      /\ \A y \in Slots : y # x /\ slot[y] # None =>
             slot[y].generation < job[p].draft.generation
  BY <1>1, ReplaceIsNewest DEF Fresh
<1>5. \A y \in Slots : slot[y] # None => Follows(slot[y], job[p].draft)
  <2>1. \A y \in Slots : slot[y] # None => Follows(slot[y], Latest)
    BY DEF Fresh, CommitInv, SlotsInv, SlotsKept, Latest
  <2>2. Present(job[p].draft) = Present(Latest)
    BY <1>3, <1>4 DEF Present
  <2> QED BY <1>4, <2>1, <2>2 DEF Follows
<1> QED BY <1>1, <1>2, <1>4, <1>5, RenameKeeps

-----------------------------------------------------------------------------
(* Pruning, losing power, planning.                                        *)

LEMMA RetainedBySlots ==
    ASSUME Fresh, NEW x \in Slots, slot[x] # None
    PROVE  /\ slot[x].refresh.generation \in RetainedCommits
           /\ commits[slot[x].refresh.generation] = slot[x].refresh
           /\ \A s \in Systems : slot[x].refresh.packs[s] \in RetainedPacks \union {0}
<1>1. slot[x] \in Manifests /\ Kept(slot[x])
  BY DEF Fresh, TypeInv, TypeOK, CommitInv, SlotsInv, SlotsKept
<1>2. /\ slot[x].refresh.generation \in 1 .. MaxRefresh /\ slot[x].refresh # None
      /\ commits[slot[x].refresh.generation] = slot[x].refresh
      /\ \A s \in Systems : slot[x].refresh.packs[s] \in 0 .. MaxRefresh
  BY <1>1 DEF Kept, RefreshReadable, Manifests, Refreshes
<1>3. slot[x].refresh.generation \in RetainedCommits
  BY <1>2 DEF RetainedCommits
<1>4. \A s \in Systems : slot[x].refresh.packs[s] \in RetainedPacks \union {0}
  BY <1>2, <1>3, BoundsAssumption DEF RetainedPacks
<1> QED BY <1>2, <1>3, <1>4

LEMMA PruneKeeps ==
    ASSUME Fresh, NEW p \in Procs, PruneCommit(p) \/ PrunePack(p) PROVE CommitInv'
<1>1. /\ job[p].at = "prune" /\ job' = job
      /\ UNCHANGED <<artifact, slot, former, staged>>
  BY DEF PruneCommit, PrunePack
<1>2. \A q \in Procs : q # p => job[q].at = "idle"
  BY <1>1, HolderAlone DEF Fresh
<1>3. former = slot
  BY <1>1, <1>2 DEF Fresh, SafeInv, Settled
<1>4. \A x \in Slots : slot[x] # None =>
          /\ commits'[slot[x].refresh.generation] = slot[x].refresh
          /\ \A s \in Systems : slot[x].refresh.packs[s] \in packs' \union {0}
  <2> SUFFICES ASSUME NEW x \in Slots, slot[x] # None
               PROVE  /\ commits'[slot[x].refresh.generation] = slot[x].refresh
                      /\ \A s \in Systems : slot[x].refresh.packs[s] \in packs' \union {0}
    OBVIOUS
  <2>1. \A s \in Systems : slot[x].refresh.packs[s] \in packs \union {0}
    BY DEF Fresh, CommitInv, SlotsInv, SlotsKept, Kept, PacksKept
  <2>2. CASE PruneCommit(p)
    BY <2>1, <2>2, RetainedBySlots DEF PruneCommit, Prunable, Fresh, TypeInv, TypeOK
  <2>3. CASE PrunePack(p)
    BY <2>1, <2>3, RetainedBySlots DEF PrunePack
  <2> QED BY <2>2, <2>3
<1>5. LatestOf(slot)' = LatestOf(slot) /\ LatestOf(former)' = LatestOf(slot)
  BY <1>1, <1>3 DEF LatestOf
<1>6. SlotsInv'
  BY <1>1, <1>3, <1>4, <1>5
     DEF Fresh, CommitInv, SlotsInv, SlotsKept, StagedAged, Kept, RefreshReadable,
         Aged, References, Present, PacksKept
<1> QED BY <1>1, <1>2, <1>6, HolderDecides, NotDrafting DEF Drafting, BeforeStage

LEMMA PowerLossKeeps == SlotsInv /\ PowerLoss => CommitInv'
<1> SUFFICES ASSUME SlotsInv, PowerLoss PROVE CommitInv'
  OBVIOUS
<1>1. /\ slot' \in {slot, former} /\ former' = slot'
      /\ UNCHANGED <<commits, packs, staged>>
      /\ \A p \in Procs : job'[p].at = "idle"
  BY DEF PowerLoss, Idle
<1>2. LatestOf(slot)' = LatestOf(slot') /\ LatestOf(former)' = LatestOf(slot')
  BY <1>1 DEF LatestOf
<1>3. SlotsKept(slot)'
  <2>1. CASE slot' = slot
    BY <1>1, <1>2, <2>1 DEF SlotsInv, SlotsKept, Kept, RefreshReadable, Aged,
                            References, Present, PacksKept
  <2>2. CASE slot' = former
    BY <1>1, <1>2, <2>2 DEF SlotsInv, SlotsKept, Kept, RefreshReadable, Aged,
                            References, Present, PacksKept
  <2> QED BY <1>1, <2>1, <2>2
<1>4. SlotsKept(former)' /\ StagedAged'
  BY <1>1, <1>2, <1>3 DEF SlotsInv, SlotsKept, StagedAged, Kept, RefreshReadable, Aged,
                          References, Present, PacksKept
<1> QED BY <1>1, <1>3, <1>4 DEF CommitInv, SlotsInv, Planned, Copied, Refreshed,
                                Drafting, BeforeStage, Copying

LEMMA PlanKeeps ==
    ASSUME Fresh, NEW p \in Procs, job[p].at = "plan",
           NEW written \in SUBSET Systems, NEW emptied \in SUBSET Systems,
           NEW same \in SUBSET Systems, NEW gone \in SUBSET Systems,
           Plan(p, written, emptied, same, gone)
    PROVE  CommitInv'
<1> DEFINE changed == written \union emptied \union gone
           generation == NextGeneration(changed)
           systems == [s \in Systems |->
             CASE s \in written -> NewEntry(s, generation)
               [] s \in emptied -> NewEntry(s, NoArtifact)
               [] s \in Present(Latest) \ changed -> Latest.systems[s]
               [] OTHER -> None]
           refs == IF Latest = None THEN Idle.kept ELSE Latest.refresh.packs
           d == [generation |-> generation, systems |-> systems, refresh |-> None]
           j == [at |-> IF changed = {} THEN "pack" ELSE "collect",
                 draft |-> d, copying |-> written,
                 checked |-> written \union emptied \union same,
                 kept |-> [s \in Systems |-> IF s \in gone THEN 0 ELSE refs[s]]]
<1>1. /\ job' = [job EXCEPT ![p] = j] /\ UNCHANGED files
      /\ generation \in Generations /\ written \intersect emptied = {}
      /\ Latest = None => changed # {}
  BY DEF Plan
<1>2. /\ job'[p] = j /\ \A q \in Procs : q # p => job'[q].at = "idle"
      /\ UNCHANGED <<artifact, slot, former, commits, packs, staged>>
  BY <1>1, HolderAlone DEF Fresh, TypeInv, TypeOK, files
<1>3. /\ job'[p].at = IF changed = {} THEN "pack" ELSE "collect"
      /\ job'[p].draft = d /\ job'[p].copying = written
      /\ job'[p].kept = [s \in Systems |-> IF s \in gone THEN 0 ELSE refs[s]]
  BY <1>2
<1>4. Latest' = Latest
  BY <1>2, NextRefreshKept
<1>5. /\ Latest \in Manifests \union {None}
      /\ Latest # None => Kept(Latest)
  BY LatestKept DEF Fresh, CommitInv
<1>6. generation = GenerationOf(Latest) + (IF changed = {} THEN 0 ELSE 1)
  BY DEF NextGeneration
<1>7. d # None /\ d.systems = systems /\ d.generation = generation
  <2>1. TypeInv'
    BY TypePlan DEF Fresh
  <2> QED BY <1>3, <2>1, NoneAssumption DEF TypeInv, Drafted
<1>8. \A s \in Systems :
          /\ s \in written => systems[s] = NewEntry(s, generation)
          /\ s \in emptied \ written => systems[s] = NewEntry(s, NoArtifact)
          /\ s \in Present(Latest) \ changed => systems[s] = Latest.systems[s]
          /\ s \notin written \union emptied /\ s \notin Present(Latest) \ changed =>
                 systems[s] = None
  <2> HIDE DEF generation, refs, d, j
  <2> SUFFICES ASSUME NEW s \in Systems
               PROVE  /\ s \in written => systems[s] = NewEntry(s, generation)
                      /\ s \in emptied \ written => systems[s] = NewEntry(s, NoArtifact)
                      /\ s \in Present(Latest) \ changed =>
                             systems[s] = Latest.systems[s]
                      /\ s \notin written \union emptied
                         /\ s \notin Present(Latest) \ changed => systems[s] = None
    OBVIOUS
  <2>1. CASE s \in written
    BY <1>1, <2>1
  <2>2. CASE s \in emptied \ written
    BY <2>2
  <2>3. CASE s \notin written \union emptied
    BY <2>3
  <2> QED BY <2>1, <2>2, <2>3
<1>9. \A s \in Systems : Latest = None \/ Latest.systems[s] \in Entries \union {None}
  BY <1>5 DEF Manifests, Contents
<1> HIDE DEF d, systems, generation, changed
<1>10. \A s \in Present(Latest) \intersect Present(d) :
           Latest.systems[s].active \in {systems[s].active, systems[s].previous}
  <2> SUFFICES ASSUME NEW s \in Present(Latest) \intersect Present(d)
               PROVE  Latest.systems[s].active \in
                          {systems[s].active, systems[s].previous}
    OBVIOUS
  <2>1. s \in Systems /\ systems[s] # None
    BY <1>7 DEF Present
  <2>2. \A a : NewEntry(s, a).previous = Latest.systems[s].active
    BY DEF NewEntry
  <2>3. s \in written \union emptied \/ systems[s] = Latest.systems[s]
    BY <1>8, <2>1
  <2> QED BY <1>8, <2>1, <2>2, <2>3
<1>11. \A n \in References(d) :
           \/ n \in References(Latest)
           \/ n[1] \in written /\ n[2] = generation
  <2> SUFFICES ASSUME NEW n \in References(d)
               PROVE  \/ n \in References(Latest)
                      \/ n[1] \in written /\ n[2] = generation
    OBVIOUS
  <2>1. /\ n \in Names /\ n[1] \in Systems /\ n[2] # NoArtifact
        /\ systems[n[1]] # None
        /\ n[2] \in {systems[n[1]].active, systems[n[1]].previous}
    BY <1>7, BoundsAssumption DEF References, Present, Names, Generations, NoArtifact
  <2>2. ASSUME NEW a, systems[n[1]] = NewEntry(n[1], a), n[2] # a
        PROVE  n \in References(Latest)
    <3>1. n[2] = NewEntry(n[1], a).previous
      BY <2>1, <2>2 DEF NewEntry
    <3>2. n[1] \in Present(Latest) /\ n[2] = Latest.systems[n[1]].active
      BY <2>1, <3>1 DEF NewEntry
    <3> QED BY <2>1, <3>2 DEF References
  <2>3. CASE n[1] \in written \union emptied
    BY <1>8, <2>1, <2>2, <2>3
  <2>4. CASE n[1] \notin written \union emptied
    BY <1>8, <2>1, <2>4 DEF References
  <2> QED BY <2>3, <2>4
<1>12. changed = {} => /\ Latest # None /\ systems = Latest.systems /\ written = {}
                       /\ generation = GenerationOf(Latest)
  <2> SUFFICES ASSUME changed = {}
               PROVE  /\ Latest # None /\ systems = Latest.systems /\ written = {}
                      /\ generation = GenerationOf(Latest)
    OBVIOUS
  <2>1. Latest # None /\ Latest \in Manifests /\ written = {} /\ emptied = {}
    BY <1>1, <1>5 DEF changed
  <2>2. \A s \in Systems : systems[s] = Latest.systems[s]
    BY <1>8, <2>1 DEF Present, changed
  <2>3. systems = Latest.systems
    <3>1. systems = [s \in Systems |-> systems[s]]
      BY DEF systems
    <3>2. Latest.systems = [s \in Systems |-> Latest.systems[s]]
      BY <2>1 DEF Manifests, Contents
    <3> QED BY <2>2, <3>1, <3>2
  <2>4. GenerationOf(Latest) \in Nat
    BY <2>1 DEF GenerationOf, Manifests, Generations
  <2> QED BY <1>6, <2>1, <2>3, <2>4
<1>13. GenerationOf(Latest) \in Nat /\ generation \in Nat
       /\ (changed # {} => generation = GenerationOf(Latest) + 1)
       /\ GenerationOf(Latest) <= generation
  BY <1>1, <1>5, <1>6 DEF GenerationOf, Manifests, Generations
<1> HIDE DEF refs, j
<1>14. Planned(p)'
  <2>1. Follows(Latest, d)
    BY <1>7, <1>10 DEF Follows
  <2>2. Aged(d)
    <3> SUFFICES ASSUME NEW n \in References(d) PROVE n[2] <= generation
      BY <1>7 DEF Aged
    <3>1. CASE n \in References(Latest)
      <4>1. Latest # None /\ n[2] \in Nat
        BY <3>1 DEF References, Present, Names, Generations
      <4>2. n[2] <= GenerationOf(Latest)
        BY <1>5, <3>1, <4>1 DEF Kept, Aged, GenerationOf
      <4> QED BY <1>13, <4>1, <4>2
    <3>2. CASE n[2] = generation
      BY <1>13, <3>2
    <3> QED BY <1>11, <3>1, <3>2
  <2>3. Follows(Latest, job[p].draft)'
    BY <1>3, <1>4, <2>1 DEF Follows, Present
  <2>4. Aged(job[p].draft)'
    BY <1>3, <2>2 DEF Aged, References, Present
  <2>5. job'[p].draft.generation \in {GenerationOf(Latest), GenerationOf(Latest) + 1}
    BY <1>3, <1>6, <1>7, <1>13
  <2>6. job'[p].draft.generation = GenerationOf(Latest) =>
            Latest # None /\ job'[p].draft.systems = Latest.systems
    BY <1>3, <1>7, <1>12, <1>13
  <2> QED BY <1>4, <2>3, <2>4, <2>5, <2>6 DEF Planned, MetadataOnly, GenerationOf
<1>15. Remaining(p)' = {<<s, generation>> : s \in written}
  BY <1>3, <1>7 DEF Remaining, Target
<1>16. References(d) \subseteq References(Latest) \union {<<s, generation>> : s \in written}
  <2> SUFFICES ASSUME NEW n \in References(d), n[1] \in written, n[2] = generation
               PROVE  n \in {<<s, generation>> : s \in written}
    BY <1>11
  <2>1. n = <<n[1], n[2]>>
    BY DEF References, Names
  <2> QED BY <2>1
<1>17. Copied(p)'
  <2>1. References(Latest)' = References(Latest) /\ References(job[p].draft)' = References(d)
    BY <1>3, <1>4 DEF References, Present
  <2>2. CASE changed = {}
    <3>1. job'[p].at = "pack" /\ job'[p].copying = {}
      BY <1>3, <1>12, <2>2
    <3>2. \A n \in References(d) : artifact[n] = "whole"
      BY <1>12, <1>16, <2>2 DEF Fresh, SafeInv, Safe
    <3> QED BY <1>2, <2>1, <3>1, <3>2 DEF Copied, Copying, Drafting, BeforeStage
  <2>3. CASE changed # {}
    <3>1. job'[p].at = "collect"
      BY <1>3, <2>3
    <3>2. ~MetadataOnly(p)'
      BY <1>3, <1>4, <1>7, <1>13, <2>3 DEF MetadataOnly, GenerationOf
    <3>3. References(job[p].draft)' \subseteq References(Latest)' \union Remaining(p)'
      BY <1>15, <1>16, <2>1
    <3> QED BY <3>1, <3>2, <3>3 DEF Copied, Copying, Drafting, BeforeStage
  <2> QED BY <2>2, <2>3
<1>18. Refreshed(p)'
  <2>1. \A s \in Systems : /\ refs[s] \in packs \union {0}
                           /\ refs[s] <= RefreshGenerationOf(Latest)
    BY <1>5 DEF refs, Idle, RefreshGenerationOf, Kept, PacksKept
  <2>2. 0 <= RefreshGenerationOf(Latest)
    BY NextRefreshIsNew DEF Fresh
  <2>3. \A s \in Systems : /\ job'[p].kept[s] \in packs \union {0}
                           /\ job'[p].kept[s] <= RefreshGenerationOf(Latest)
    BY <1>3, <2>1, <2>2
  <2>4. job'[p].at \in {"pack", "collect"}
    BY <1>3
  <2> QED BY <1>2, <1>4, <2>3, <2>4 DEF Refreshed, BeforeStage, RefreshGenerationOf
<1>19. SlotsInv'
  BY <1>2, SlotsStay DEF Fresh, CommitInv
<1> QED BY <1>2, <1>14, <1>17, <1>18, <1>19, HolderDecides

-----------------------------------------------------------------------------
(* Every step.                                                             *)

LEMMA CommitStep ==
    ASSUME ~DiesUnsynced, Fresh, NEW p \in Procs, Step(p) PROVE CommitInv'
<1> USE DEF Drafting, BeforeStage
<1>1. CASE Acquire(p)
  <2>1. \A q \in Procs : job[q].at = "idle"
    BY <1>1, NoneAssumption DEF Acquire, Fresh, TypeInv, LeaseHeld
  <2>2. \A q \in Procs : q # p => job'[q].at = "idle"
    BY <1>1, <2>1 DEF Acquire, Fresh, TypeInv, TypeOK
  <2>3. job[p] \in Jobs /\ job'[p].at = "plan"
    BY <1>1, JobFields DEF Acquire, Fresh, TypeInv, TypeOK, Jobs
  <2> QED BY <1>1, <2>2, <2>3, LeavingStep DEF Acquire, files
<1>2. ASSUME job[p].at = "plan",
             NEW written \in SUBSET Systems, NEW emptied \in SUBSET Systems,
             NEW same \in SUBSET Systems, NEW gone \in SUBSET Systems,
             Plan(p, written, emptied, same, gone)
      PROVE  CommitInv'
  BY <1>2, PlanKeeps
<1>3. ASSUME NEW s \in Systems, CopyFails(p, s) PROVE CommitInv'
  <2>1. job'[p].at = "idle" /\ \A q \in Procs : q # p => job'[q].at = "idle"
    BY <1>3, HolderAlone DEF CopyFails, Idle, Fresh, TypeInv, TypeOK
  <2> QED BY <1>3, <2>1, LeavingStep DEF CopyFails
<1>4. CASE Settle(p) \/ Discarded(p)
  <2>1. job[p] \in Jobs /\ \A q \in Procs : q # p => job[q].at = "idle"
    BY <1>4, JobFields, HolderAlone DEF Settle, Discarded, Fresh, TypeInv
  <2>2. /\ \A q \in Procs : q # p => job'[q].at = "idle"
        /\ job'[p].at \in {"discard", "prune"}
    BY <1>4, <2>1 DEF Settle, Discarded, Fresh, TypeInv, TypeOK, Jobs
  <2> QED BY <1>4, <2>2, LeavingStep DEF Settle, Discarded, files
<1>5. CASE Discard(p)
  <2>1. job' = job /\ \A q \in Procs : q # p => job'[q].at = "idle"
    BY <1>5, HolderAlone DEF Discard, Fresh
  <2> QED BY <1>5, <2>1, LeavingStep DEF Discard, RemoveOrphan
<1>6. CASE Ends(p)
  <2>1. job'[p].at = "idle" /\ \A q \in Procs : q # p => job'[q].at = "idle"
    BY <1>6, HolderAlone DEF Ends, Idle, Fresh, TypeInv, TypeOK
  <2> QED BY <1>6, <2>1, LeavingStep DEF Ends, files
<1>7. CASE \/ Collect(p) \/ Collected(p) \/ SyncArtifacts(p) \/ WritePack(p)
           \/ Stage(p) \/ WriteCommit(p) \/ Publish(p) \/ Replace(p)
           \/ PruneCommit(p) \/ PrunePack(p)
  BY <1>7, CollectStep, CollectedStep, SyncArtifactsStep, WritePackStep, StageStep,
     WriteCommitStep, PublishKeeps, ReplaceKeeps, PruneKeeps
<1>8. ASSUME NEW s \in Systems, CopyStarts(p, s) \/ CopyEnds(p, s)
      PROVE  CommitInv'
  BY <1>8, CopyStartsStep, CopyEndsStep
<1> QED BY <1>1, <1>2, <1>3, <1>4, <1>5, <1>6, <1>7, <1>8 DEF Step

LEMMA FreshNext == ~DiesUnsynced /\ Fresh /\ [Next]_vars => Fresh'
<1> SUFFICES ASSUME ~DiesUnsynced, Fresh, [Next]_vars PROVE Fresh'
  OBVIOUS
<1>1. TypeInv' /\ SafeInv'
  BY TypeNext, SafeNext DEF Fresh
<1>2. CASE \E p \in Procs : Step(p)
  BY <1>1, <1>2, CommitStep DEF Fresh
<1>3. CASE PowerLoss
  BY <1>1, <1>3, PowerLossKeeps DEF Fresh, CommitInv
<1>4. CASE UNCHANGED vars
  <2>1. Latest' = Latest /\ NextRefresh' = NextRefresh /\ LatestOf(slot)' = LatestOf(slot)
        /\ LatestOf(former)' = LatestOf(former)
    BY <1>4, NextRefreshKept DEF vars, LatestOf
  <2>2. SlotsInv'
    BY <1>4, SlotsStay DEF vars, Fresh, CommitInv
  <2>3. ASSUME NEW p \in Procs PROVE Planned(p)' /\ Copied(p)' /\ Refreshed(p)'
    <3>1. Planned(p) /\ Copied(p) /\ Refreshed(p)
      BY DEF Fresh, CommitInv
    <3>2. Planned(p)'
      BY <1>4, <2>1, <3>1 DEF vars, Planned, MetadataOnly, Follows, Aged, References,
                              Present, GenerationOf
    <3>3. Copied(p)'
      BY <1>4, <2>1, <3>1 DEF vars, Copied, MetadataOnly, Remaining, Target,
                              References, Present, GenerationOf
    <3>4. Refreshed(p)'
      BY <1>4, <2>1, <3>1 DEF vars, Refreshed, PacksKept, RefreshGenerationOf
    <3> QED BY <3>2, <3>3, <3>4
  <2> QED BY <1>1, <2>2, <2>3 DEF Fresh, CommitInv
<1> QED BY <1>2, <1>3, <1>4 DEF Next

LEMMA FreshInit == Init => Fresh
  BY TypeInit, SafeInit, CommitInit DEF Fresh

-----------------------------------------------------------------------------
(* Both slots keep their refresh state, through the pruning of history,    *)
(* deaths of builders and losses of power (cleanup_refresh_history).       *)
THEOREM RefreshStaysKept == ~DiesUnsynced => (Spec => []RefreshKept)
<1> SUFFICES ASSUME ~DiesUnsynced PROVE Spec => []RefreshKept
  OBVIOUS
<1>1. Fresh /\ [Next]_vars => Fresh'
  BY FreshNext
<1>2. Fresh => RefreshKept
  BY DEF Fresh, CommitInv, SlotsInv, SlotsKept, Kept, PacksKept, RefreshKept
<1> QED BY FreshInit, <1>1, <1>2, PTL DEF Spec

(* A reader that opened the manifest of one commit ago finds the artifacts *)
(* it names, whatever garbage_collect_unreferenced removed meanwhile.      *)
LEMMA FreshServes == Fresh => ReaderServed
<1> SUFFICES ASSUME Fresh, NEW x \in Slots,
                    NEW s \in Present(slot[x]) \intersect Present(Latest),
                    slot[x].systems[s].active # NoArtifact
             PROVE  artifact[<<s, slot[x].systems[s].active>>] = "whole"
  BY DEF ReaderServed
<1> DEFINE n == <<s, slot[x].systems[s].active>>
<1>1. slot[x] # None /\ s \in Systems /\ slot[x].systems[s] # None
  BY DEF Present
<1>2. slot[x] \in Manifests
  BY <1>1 DEF Fresh, TypeInv, TypeOK
<1>3. n \in Names
  BY <1>1, <1>2 DEF Names, Manifests, Contents, Entries
<1>4. slot[x].systems[s].active \in {Latest.systems[s].active, Latest.systems[s].previous}
  BY <1>1 DEF Fresh, CommitInv, SlotsInv, SlotsKept, Follows, Latest
<1>5. n \in References(Latest)
  BY <1>3, <1>4 DEF References
<1> QED BY <1>5 DEF Fresh, SafeInv, Safe

THEOREM ReaderStaysServed == ~DiesUnsynced => (Spec => []ReaderServed)
<1> SUFFICES ASSUME ~DiesUnsynced PROVE Spec => []ReaderServed
  OBVIOUS
<1>1. Fresh /\ [Next]_vars => Fresh'
  BY FreshNext
<1> QED BY FreshInit, FreshServes, <1>1, PTL DEF Spec

(* The pack that a build is about to write is not in use.                  *)
LEMMA PackIsFree ==
    ASSUME Fresh PROVE ~PackReferenced(NextRefresh)
<1>1. /\ NextRefresh \in Nat /\ RefreshGenerationOf(Latest) \in Nat
      /\ RefreshGenerationOf(Latest) < NextRefresh
      /\ \A x \in Slots : StagedGeneration(x) < NextRefresh
  BY NextRefreshIsNew DEF Fresh
<1>2. ASSUME NEW s \in Systems, Latest # None, Latest.refresh.packs[s] = NextRefresh
      PROVE  FALSE
  <2>1. Latest.refresh.packs[s] <= Latest.refresh.generation
    BY <1>2, LatestKept DEF Fresh, CommitInv, Kept, PacksKept
  <2> QED BY <1>1, <1>2, <2>1 DEF RefreshGenerationOf
<1>3. ASSUME NEW x \in Slots, NEW s \in Systems, staged[x] # None,
             staged[x].packs[s] = NextRefresh
      PROVE  FALSE
  <2>1. staged[x].packs[s] <= staged[x].generation /\ staged[x] \in Refreshes
    BY <1>3 DEF Fresh, CommitInv, SlotsInv, StagedAged, TypeInv, TypeOK
  <2> QED BY <1>1, <1>3, <2>1, BoundsAssumption DEF StagedGeneration, Refreshes
<1> QED BY <1>2, <1>3 DEF PackReferenced

(* What is published passes the checks before the commit point.            *)
LEMMA PublishPasses ==
    ASSUME Fresh, NEW p \in Procs, job[p].at = "publish"
    PROVE  IF MetadataOnly(p) THEN ReplaceAccepted(job[p].draft)
           ELSE PublishAccepted(job[p].draft)
<1> DEFINE d == job[p].draft
<1>1. /\ d \in Drafts /\ d # None
      /\ Planned(p) /\ Copied(p) /\ Refreshed(p)
  BY DraftIsThere DEF Fresh, CommitInv, Drafting, BeforeStage
<1>2. RefreshReadable(d)
  BY <1>1 DEF Refreshed, RefreshReadable
<1>3. Latest \in Manifests \union {None}
  BY LatestKept DEF Fresh, CommitInv
<1>4. CASE MetadataOnly(p)
  <2>1. Latest # None /\ d.systems = Latest.systems /\ d.generation = Latest.generation
    BY <1>1, <1>4 DEF Planned, Drafting, MetadataOnly, GenerationOf
  <2>2. [Latest EXCEPT !.refresh = d.refresh] = d
    <3>1. d = [generation |-> d.generation, systems |-> d.systems, refresh |-> d.refresh]
      BY <1>1 DEF Drafts
    <3>2. [Latest EXCEPT !.refresh = d.refresh] =
              [generation |-> Latest.generation, systems |-> Latest.systems,
               refresh |-> d.refresh]
      BY <1>3, <2>1 DEF Manifests
    <3> QED BY <2>1, <3>1, <3>2
  <2> QED BY <1>2, <1>4, <2>1, <2>2 DEF ReplaceAccepted
<1>5. CASE ~MetadataOnly(p)
  <2>1. ArtifactsPresent(d)
    BY <1>1 DEF Copied, Drafting, Copying, BeforeStage, Remaining, ArtifactsPresent
  <2>2. d.generation = GenerationOf(Latest) + 1
    BY <1>1, <1>5 DEF Planned, Drafting, MetadataOnly
  <2>3. \A x \in Slots : GenerationOf(slot[x]) < d.generation
    <3> SUFFICES ASSUME NEW x \in Slots PROVE GenerationOf(slot[x]) < d.generation
      OBVIOUS
    <3>1. GenerationOf(Latest) \in Nat
      BY <1>3 DEF GenerationOf, Manifests, Generations
    <3>2. CASE slot[x] = None
      BY <2>2, <3>1, <3>2 DEF GenerationOf
    <3>3. CASE slot[x] # None
      <4>1. slot \in SlotSets /\ ~(\A y \in Slots : slot[y] = None)
        BY <3>3 DEF Fresh, TypeInv, TypeOK, SlotSets
      <4>2. Latest # None /\ slot[x].generation <= Latest.generation
        BY <3>3, <4>1, LatestIsNewest DEF Latest
      <4>3. slot[x].generation \in Nat
        BY <3>3, <4>1 DEF SlotSets, Manifests, Generations
      <4> QED BY <2>2, <3>1, <3>3, <4>2, <4>3 DEF GenerationOf
    <3> QED BY <3>2, <3>3
  <2> QED BY <1>2, <1>5, <2>1, <2>3 DEF PublishAccepted
<1> QED BY <1>4, <1>5

LEMMA FreshRetries == Fresh => RetryNotRefused
<1> SUFFICES ASSUME Fresh, NEW p \in Procs
             PROVE  /\ job[p].at = "copy" =>
                         \A s \in job[p].copying : artifact[Target(p, s)] = "absent"
                    /\ job[p].at = "pack" => ~PackReferenced(NextRefresh)
                    /\ job[p].at = "publish" =>
                         IF MetadataOnly(p) THEN ReplaceAccepted(job[p].draft)
                         ELSE PublishAccepted(job[p].draft)
  BY DEF RetryNotRefused
<1>1. job[p].at = "copy" => \A s \in job[p].copying : artifact[Target(p, s)] = "absent"
  BY DEF Fresh, CommitInv, Copied, Remaining
<1> QED BY <1>1, PackIsFree, PublishPasses

(* A build that starts over is not refused for what an interrupted one     *)
(* left, nor at the checks of publish_manifest_with_hash_policy.           *)
THEOREM RetryNotRefusedCorrect == ~DiesUnsynced => (Spec => []RetryNotRefused)
<1> SUFFICES ASSUME ~DiesUnsynced PROVE Spec => []RetryNotRefused
  OBVIOUS
<1>1. Fresh /\ [Next]_vars => Fresh'
  BY FreshNext
<1> QED BY FreshInit, FreshRetries, <1>1, PTL DEF Spec

-----------------------------------------------------------------------------
(* A rename is a commit of the register: only the draft's version is seen, *)
(* and what was on the card is what the draft followed.                    *)
LEMMA RenameCommits ==
    ASSUME Fresh, NEW p \in Procs, NEW x \in Slots, Rename(p, x),
           job[p].at = "publish", RefreshReadable(job[p].draft),
           \A y \in Slots : y # x /\ slot[y] # None =>
               slot[y].generation < job[p].draft.generation
    PROVE  Register!Commit
<1> DEFINE d == job[p].draft
<1>1. /\ d \in Drafts /\ d # None /\ d.refresh \in Refreshes
      /\ Planned(p) /\ Refreshed(p) /\ \A q \in Procs : q # p => job[q].at = "idle"
  <2>1. d \in Drafts /\ d # None /\ \A q \in Procs : q # p => job[q].at = "idle"
    BY DraftIsThere DEF Fresh, Drafting, BeforeStage
  <2> QED BY <2>1 DEF Fresh, CommitInv, RefreshReadable, Drafts
<1>2. former = slot /\ UNCHANGED former
  BY <1>1 DEF Fresh, SafeInv, Settled, Rename
<1>3. Latest' = d
  BY RenameLatest DEF Fresh, Latest, LatestOf
<1>4. LatestOf(former) = Latest /\ LatestOf(former)' = Latest
  BY <1>2 DEF Latest, LatestOf
<1>5. /\ d.generation \in {GenerationOf(Latest), GenerationOf(Latest) + 1}
      /\ RefreshGenerationOf(Latest) < d.refresh.generation
  BY <1>1 DEF Planned, Refreshed, Drafting
<1>6. d.generation \in Nat /\ d.refresh.generation \in Nat
      /\ RefreshGenerationOf(Latest) \in Nat
  BY <1>1, NextRefreshIsNew, BoundsAssumption
     DEF Fresh, Drafts, Refreshes, Generations
<1>7. /\ Version(Latest) = <<GenerationOf(Latest), RefreshGenerationOf(Latest)>>
      /\ Version(Latest)' = <<d.generation, d.refresh.generation>>
      /\ Version(LatestOf(former)) = Version(Latest)
      /\ Version(LatestOf(former))' = Version(Latest)
  <2>1. Version(Latest)' = <<d.generation, d.refresh.generation>>
    BY <1>1, <1>3 DEF Version, GenerationOf, RefreshGenerationOf
  <2>2. Version(LatestOf(former))' = Version(Latest)
    BY <1>4 DEF Version, GenerationOf, RefreshGenerationOf
  <2> QED BY <1>4, <2>1, <2>2 DEF Version
<1> HIDE DEF d
<1> QED BY <1>5, <1>6, <1>7 DEF Register!Commit

(* A step that leaves the slots settles the commit or is none of the       *)
(* register's.                                                             *)
LEMMA OthersSettle ==
    ASSUME UNCHANGED slot, former' \in {slot, former}
    PROVE  [Register!Next]_(Register!vars)
<1>1. Version(Latest)' = Version(Latest)
  BY DEF Version, Latest, LatestOf, GenerationOf, RefreshGenerationOf
<1>2. CASE former' = slot
  <2>1. Version(LatestOf(former))' = Version(Latest)
    BY <1>2 DEF Version, Latest, LatestOf, GenerationOf, RefreshGenerationOf
  <2> QED BY <1>1, <2>1 DEF Register!Next, Register!Settle
<1>3. CASE former' = former
  <2>1. Version(LatestOf(former))' = Version(LatestOf(former))
    BY <1>3 DEF Version, LatestOf, GenerationOf, RefreshGenerationOf
  <2> QED BY <1>1, <2>1 DEF Register!vars
<1> QED BY <1>2, <1>3

LEMMA RegisterStep ==
    Fresh /\ [Next]_vars => [Register!Next]_(Register!vars)
<1> SUFFICES ASSUME Fresh, [Next]_vars PROVE [Register!Next]_(Register!vars)
  OBVIOUS
<1>1. ASSUME NEW p \in Procs, Publish(p) PROVE Register!Commit
  <2>1. PICK x \in Slots : Rename(p, x)
    BY <1>1 DEF Publish, TargetSlots, Slots
  <2>2. \A y \in Slots : slot[y] # None => slot[y].generation < job[p].draft.generation
    BY <1>1 DEF Publish, PublishAccepted, GenerationOf
  <2> QED BY <1>1, <2>1, <2>2, RenameCommits DEF Publish, PublishAccepted
<1>2. ASSUME NEW p \in Procs, Replace(p) PROVE Register!Commit
  <2>1. PICK x \in Slots : slot[x] = Latest /\ Rename(p, x)
    BY <1>2 DEF Replace
  <2>2. \A y \in Slots : y # x /\ slot[y] # None =>
            slot[y].generation < job[p].draft.generation
    BY <1>2, <2>1, ReplaceIsNewest DEF Fresh
  <2> QED BY <1>2, <2>1, <2>2, RenameCommits DEF Replace, ReplaceAccepted
<1>3. ASSUME NEW p \in Procs, Step(p), ~Publish(p), ~Replace(p)
      PROVE  [Register!Next]_(Register!vars)
  <2>1. UNCHANGED slot /\ former' \in {slot, former}
    <3>1. CASE \/ Acquire(p) \/ Collected(p) \/ Discarded(p) \/ Ends(p)
               \/ Collect(p) \/ Discard(p)
      BY <3>1 DEF Acquire, Collected, Discarded, Ends, Collect, Discard,
                  RemoveOrphan, files
    <3>2. CASE \E written, emptied, same, gone \in SUBSET Systems :
                   Plan(p, written, emptied, same, gone)
      BY <3>2 DEF Plan, files
    <3>3. CASE \E s \in Systems :
                   CopyStarts(p, s) \/ CopyEnds(p, s) \/ CopyFails(p, s)
      BY <3>3 DEF CopyStarts, CopyEnds, CopyFails
    <3>4. CASE \/ SyncArtifacts(p) \/ WritePack(p) \/ Stage(p) \/ WriteCommit(p)
               \/ Settle(p) \/ PruneCommit(p) \/ PrunePack(p)
      BY <3>4 DEF SyncArtifacts, WritePack, Stage, WriteCommit, Settle, PruneCommit,
                  PrunePack, SyncAll
    <3> QED BY <1>3, <3>1, <3>2, <3>3, <3>4 DEF Step
  <2> QED BY <2>1, OthersSettle
<1>4. CASE PowerLoss
  <2>1. former' = slot' /\ slot' \in {slot, former}
    BY <1>4 DEF PowerLoss
  <2>2. CASE slot' = slot
    BY <2>1, <2>2, OthersSettle
  <2>3. CASE slot' = former
    <3>1. Version(Latest)' = Version(LatestOf(former))
          /\ Version(LatestOf(former))' = Version(LatestOf(former))
      BY <2>1, <2>3 DEF Version, Latest, LatestOf, GenerationOf, RefreshGenerationOf
    <3> QED BY <3>1 DEF Register!Next, Register!PowerLoss
  <2> QED BY <2>1, <2>2, <2>3
<1>5. CASE UNCHANGED vars
  BY <1>5, OthersSettle DEF vars
<1> QED BY <1>1, <1>2, <1>3, <1>4, <1>5 DEF Next, Register!Next

LEMMA RegisterInit == Init => Register!Init
<1> SUFFICES ASSUME Init PROVE Register!Init
  OBVIOUS
<1>1. Latest = None /\ LatestOf(former) = None
  BY DEF Init, Latest, LatestOf
<1> QED BY <1>1 DEF Register!Init, Register!Empty, Version, GenerationOf,
                   RefreshGenerationOf

(* Publication has one commit point, the rename of write_manifest_slot:    *)
(* nothing else changes the catalog a reader opens, and losing power takes *)
(* back at most the commit whose directory is not synced yet.              *)
THEOREM OneCommitPointCorrect == ~DiesUnsynced => (Spec => OneCommitPoint)
<1> SUFFICES ASSUME ~DiesUnsynced PROVE Spec => OneCommitPoint
  OBVIOUS
<1>1. Fresh /\ [Next]_vars => Fresh'
  BY FreshNext
<1> QED BY FreshInit, RegisterInit, RegisterStep, <1>1, PTL
        DEF Spec, OneCommitPoint, Register!Spec
=============================================================================
