------------------------ MODULE LauncherSessionProofs ------------------------
(***************************************************************************)
(* Type correctness and the safety properties of LauncherSession: the      *)
(* channel of the catalog job never holds more than its two messages, no   *)
(* catalog process is lost sight of, a launch is held whatever the job     *)
(* reports, a dialog that offers to continue can, and nothing takes the    *)
(* picture away.                                                           *)
(***************************************************************************)
EXTENDS LauncherSession, SequenceTheorems, TLAPS

(* A child sends a seed, then the registry; until it has sent them they    *)
(* are not in the channel.                                                 *)
ChannelFollows ==
    /\ stage = "started" => events = <<>>
    /\ stage \in {"seeded", "committed"} => Len(events) <= 1

(* However its job ended, a process that still exists has its handle.      *)
ProcessHeld == ~Reaped => handle

(* A catalog that a dialog offers is no capsule: the next failure, which   *)
(* discards a capsule, leaves it.                                          *)
OfferStands == life = "failed" /\ dialog.stale => catalogReady /\ ~capsule

SessionInv ==
    /\ TypeOK /\ ChannelFollows /\ ProcessHeld /\ BuildersNeverOverlap
    /\ LaunchIsHeld /\ OfferStands

-----------------------------------------------------------------------------
LEMMA EmptyChannel == <<>> \in Seq(Messages) /\ Len(<<>>) = 0
  BY EmptySeq

LEMMA SessionInit == Init => SessionInv
<1> SUFFICES ASSUME Init PROVE SessionInv
  OBVIOUS
<1>1. WorkerTypeOK /\ ChannelFollows /\ ProcessHeld /\ BuildersNeverOverlap
  <2>1. /\ \E kind \in {"idle", "running"}, req \in Requests : InitJob(kind, req)
        /\ answer \in {"none", "loadFailed"}
    BY DEF Init, InitSeeded, InitCapsuleGivenUp, InitEmpty, InitBroken, Requests
  <2>2. registry \in {"none", "broken", "behind", "current"}
    BY DEF Init
  <2>3. events = <<>> /\ terminal = "none" /\ orphans = 0 /\ failure = FALSE
    BY <2>1 DEF InitJob
  <2>4. /\ job \in {"idle", "running"} /\ request \in Requests
        /\ stage \in Stages /\ handle \in BOOLEAN /\ (stage # "gone" => handle)
    BY <2>1 DEF InitJob, Stages, Working
  <2>5. events \in Seq(Messages) /\ Len(events) = 0
    BY <2>3, EmptyChannel
  <2>6. WorkerTypeOK
    <3>1. failure \in BOOLEAN /\ answer \in {"none"} \union Terminals
      BY <2>1, <2>3 DEF Terminals
    <3> QED BY <2>2, <2>3, <2>4, <2>5, <3>1 DEF WorkerTypeOK
  <2>7. ChannelFollows
    BY <2>3, <2>5 DEF ChannelFollows
  <2> QED BY <2>3, <2>4, <2>6, <2>7 DEF BuildersNeverOverlap, ProcessHeld, Reaped
<1>2. reveal \in Reveals
  BY DEF Init, InitReveal, Modes, FirstReveal, ContextRestored, EmitsRestored,
         HydrationNeeded, Reveals
<1>3. /\ \A b \in {refreshDone, refreshFailed, summaryOnly, seedPartial, deferred,
                   held, catalogReady, capsule, pendingReady, intro, late, returning,
                   shard, launch, transport} : b \in BOOLEAN
  BY DEF Init, InitReveal
<1>4. /\ life \in Lives /\ dialog \in Dialogs /\ mode \in Modes
      /\ life \notin {"launching", "handoff", "failed"} /\ launch = FALSE
  BY DEF Init, InitSeeded, InitCapsuleGivenUp, InitEmpty, InitBroken, Dialogs, Causes,
         NoDialog
<1>5. TypeOK
  BY <1>1, <1>2, <1>3, <1>4 DEF TypeOK
<1> QED BY <1>1, <1>4, <1>5 DEF SessionInv, LaunchIsHeld, OfferStands

(* The lifecycle's functions stay in its states, and know nothing of       *)
(* launching but what the launch's own do.                                 *)
LEMMA LifeMoves ==
    ASSUME NEW l \in Lives
    PROVE  /\ AfterCatalogReady(l) \in Lives /\ AfterFailure(l) \in Lives
           /\ AfterBuilding(l) \in Lives /\ AfterValidation(l) \in Lives
           /\ AfterLaunchFailed(l) \in Lives /\ AfterLaunchSucceeded(l) \in Lives
           /\ \A m \in {"launching", "handoff"} :
                  /\ AfterCatalogReady(l) = m <=> l = m
                  /\ AfterFailure(l) = m <=> l = m
                  /\ AfterBuilding(l) = m <=> l = m
                  /\ AfterValidation(l) = m <=> l = m
           /\ AfterCatalogReady(l) = "failed" <=> l = "failed"
           /\ AfterBuilding(l) = "failed" <=> l = "failed"
           /\ AfterValidation(l) = "failed" <=> l = "failed"
           /\ AfterFailure(l) = "failed" => l = "failed" \/ TakesFailure(l)
  BY DEF Lives, AfterCatalogReady, AfterFailure, AfterBuilding, AfterValidation,
         AfterLaunchFailed, AfterLaunchSucceeded, TakesFailure, Catalogued

(* The reveal's functions stay in its states and never leave "enabled".    *)
LEMMA RevealMoves ==
    ASSUME NEW m \in Modes, NEW r \in Reveals, NEW late0 \in BOOLEAN,
           NEW ready \in BOOLEAN, NEW wait \in BOOLEAN
    PROVE  /\ MarkReady(r) \in Reveals /\ ContextRestored(m, r, wait) \in Reveals
           /\ Tick(m, r, late0, ready) \in Reveals
           /\ r = "enabled" => /\ MarkReady(r) = "enabled"
                               /\ ContextRestored(m, r, wait) = "enabled"
                               /\ Tick(m, r, late0, ready) = "enabled"
  BY DEF Reveals, MarkReady, ContextRestored, EmitsRestored, Tick, BlackTimeout,
         CanPresent

-----------------------------------------------------------------------------
(* The catalog job.                                                        *)

WorkerInv == WorkerTypeOK /\ ChannelFollows /\ ProcessHeld /\ BuildersNeverOverlap

LEMMA SendGrows ==
    ASSUME events \in Seq(Messages), NEW m \in Messages, events' = Append(events, m)
    PROVE  events' \in Seq(Messages) /\ Len(events') = Len(events) + 1
  BY AppendProperties

LEMMA TakeShrinks ==
    ASSUME events \in Seq(Messages), events # <<>>, events' = Tail(events)
    PROVE  events' \in Seq(Messages) /\ Len(events') = Len(events) - 1
  BY HeadTailProperties

LEMMA WorkerRests ==
    ASSUME WorkerInv, UNCHANGED workerVars PROVE WorkerInv'
<1>1. UNCHANGED <<registry, request, job, handle, orphans, events, stage, terminal,
                  failure, answer>>
  BY DEF workerVars, card, child, schedule
<1> QED BY <1>1 DEF WorkerInv, WorkerTypeOK, ChannelFollows, ProcessHeld, Reaped,
                    BuildersNeverOverlap

LEMMA ChildKeeps ==
    ASSUME WorkerInv, Child \/ Reap \/ Watchdog \/ GamesChange
    PROVE  WorkerInv'
<1> USE DEF WorkerInv, WorkerTypeOK, ChannelFollows, ProcessHeld, Reaped,
            BuildersNeverOverlap, Stages, Working, Messages, card, schedule, child
<1>1. CASE ChildLoads \/ ChildSeeds
  <2>1. PICK m \in Messages : events' = Append(events, m)
    BY <1>1 DEF ChildLoads, ChildSeeds, Sends
  <2>2. events' \in Seq(Messages) /\ Len(events') = 1
    BY <1>1, <2>1, SendGrows, EmptyChannel DEF ChildLoads, ChildSeeds
  <2> QED BY <1>1, <2>2 DEF ChildLoads, ChildSeeds, AfterSeed
<1>2. CASE ChildAnnounces
  <2>1. events' \in Seq(Messages) /\ Len(events') = Len(events) + 1
    BY <1>2, SendGrows DEF ChildAnnounces, Sends
  <2>2. Len(events) \in Nat
    BY LenProperties
  <2> QED BY <1>2, <2>1, <2>2 DEF ChildAnnounces
<1>3. CASE ChildCommits
  <2>1. stage = "started" => Len(events) = 0
    BY EmptyChannel
  <2> QED BY <1>3, <2>1 DEF ChildCommits
<1>4. CASE \/ ChildLoadFails \/ ChildFindsNothing \/ ChildEnds
           \/ ChildFails \/ Reap \/ Watchdog \/ GamesChange
  BY <1>4 DEF ChildLoadFails, ChildFindsNothing, ChildEnds, ChildFails,
              FailAndTerminate, Reap, Watchdog, GamesChange
<1> QED BY <1>1, <1>2, <1>3, <1>4 DEF Child

(* A worker starts only where no handle tells of a process, and then there *)
(* is none.                                                                *)
LEMMA StartKeeps ==
    ASSUME WorkerInv, NEW req \in Requests, StartWorker(req)
    PROVE  WorkerInv'
<1>1. CASE Available
  <2>1. stage = "gone"
    BY <1>1 DEF Available, Reaped, WorkerInv, ProcessHeld
  <2>2. /\ job' = "running" /\ request' = req /\ events' = <<>>
        /\ terminal' = "none" /\ UNCHANGED <<registry, answer>>
        /\ orphans' = orphans + 0
    BY <1>1, <2>1 DEF StartWorker, Reaped
  <2>3. /\ failure' \in BOOLEAN /\ handle' \in BOOLEAN
        /\ stage' \in {"started", "gone"} /\ (stage' # "gone" => handle')
    BY <1>1 DEF StartWorker
  <2>4. events' \in Seq(Messages) /\ Len(events') = 0
    BY <2>2, EmptyChannel
  <2>5. WorkerTypeOK'
    BY <2>2, <2>3, <2>4 DEF WorkerInv, WorkerTypeOK, Stages, Working
  <2>6. ChannelFollows' /\ ProcessHeld'
    BY <2>2, <2>3, <2>4 DEF ChannelFollows, ProcessHeld, Reaped
  <2> QED BY <2>2, <2>5, <2>6 DEF WorkerInv, BuildersNeverOverlap, WorkerTypeOK
<1>2. CASE ~Available
  BY <1>2, WorkerRests DEF StartWorker
<1> QED BY <1>1, <1>2

(* The end of a job drops its channels, and its handle only for a process  *)
(* that is gone.                                                           *)
LEMMA PollKeeps ==
    ASSUME WorkerInv, Poll PROVE WorkerInv'
<1>1. /\ job' = "idle" /\ events' = <<>> /\ terminal' = "none" /\ failure' = FALSE
      /\ handle' = KeepsHandle
      /\ UNCHANGED <<registry, request, stage, orphans>>
  BY DEF Poll, ReceiveTerminal, ReceiveDisconnected, EndJob, card
<1>2. answer' \in {"none"} \union Terminals
  BY DEF Poll, ReceiveTerminal, ReceiveDisconnected, Terminals
<1>3. events' \in Seq(Messages) /\ Len(events') = 0
  BY <1>1, EmptyChannel
<1>4. handle' \in BOOLEAN /\ failure' \in BOOLEAN
  BY <1>1 DEF KeepsHandle, WorkerInv, WorkerTypeOK
<1>5. WorkerTypeOK'
  BY <1>1, <1>2, <1>3, <1>4 DEF WorkerInv, WorkerTypeOK
<1>6. ProcessHeld'
  BY <1>1 DEF WorkerInv, ProcessHeld, Reaped, KeepsHandle
<1>7. ChannelFollows'
  BY <1>1, <1>3 DEF ChannelFollows
<1> QED BY <1>1, <1>5, <1>6, <1>7 DEF WorkerInv, BuildersNeverOverlap

LEMMA TakeReadyKeeps ==
    ASSUME WorkerInv, NEW m \in Messages, TakeReady(m) PROVE WorkerInv'
<1>1. events # <<>>
  BY DEF TakeReady, TryRecv, Messages, WorkerInv, WorkerTypeOK
<1>2. events' \in Seq(Messages) /\ Len(events') = Len(events) - 1
  BY <1>1, TakeShrinks DEF TakeReady, WorkerInv, WorkerTypeOK
<1>3. Len(events) \in Nat
  BY LenProperties DEF WorkerInv, WorkerTypeOK
<1>4. stage # "started"
  BY <1>1 DEF WorkerInv, ChannelFollows
<1>5. UNCHANGED <<registry, request, job, handle, orphans, answer, stage, terminal,
                  failure>>
  BY DEF TakeReady, card, schedule
<1> QED BY <1>2, <1>3, <1>4, <1>5 DEF WorkerInv, WorkerTypeOK, ChannelFollows,
                                      ProcessHeld, Reaped, BuildersNeverOverlap

LEMMA TakeAnswerKeeps ==
    ASSUME WorkerInv, NEW m, TakeAnswer(m) PROVE WorkerInv'
<1>1. /\ answer' = "none"
      /\ UNCHANGED <<registry, request, job, handle, orphans, events, stage, terminal,
                     failure>>
  BY DEF TakeAnswer, card, child
<1> QED BY <1>1 DEF WorkerInv, WorkerTypeOK, ChannelFollows, ProcessHeld, Reaped,
                    BuildersNeverOverlap

-----------------------------------------------------------------------------
(* The flags.                                                              *)

FlagsOK ==
    \A b \in {refreshDone, refreshFailed, summaryOnly, seedPartial, deferred,
              held, catalogReady, capsule, pendingReady, intro, late, returning,
              shard, launch, transport} : b \in BOOLEAN

LEMMA FlagsMessages ==
    ASSUME FlagsOK,
           \/ LoadFailed \/ PersistenceFailed \/ Done \/ SeedReady \/ RegistryReady
           \/ DeferReady \/ DeferredReady \/ StartDeferred \/ HoldWork \/ AllowWork
    PROVE  FlagsOK'
<1>1. CASE LoadFailed \/ PersistenceFailed \/ Done
  BY <1>1 DEF FlagsOK, LoadFailed, PersistenceFailed, Done, loop, start, handoff
<1>2. ASSUME NEW m, HandleReady(m), UNCHANGED handoff, pendingReady' \in BOOLEAN
      PROVE  FlagsOK'
  <2>1. CASE Duplicate(m)
    BY <1>2, <2>1 DEF FlagsOK, HandleReady, start, handoff
  <2>2. CASE ~Duplicate(m)
    BY <1>2, <2>2 DEF FlagsOK, HandleReady, UseCatalog, handoff
  <2> QED BY <2>1, <2>2
<1>3. CASE SeedReady \/ RegistryReady
  <2>1. pendingReady' \in BOOLEAN /\ UNCHANGED handoff
    BY <1>3 DEF FlagsOK, SeedReady, RegistryReady
  <2> QED BY <1>2, <1>3, <2>1 DEF SeedReady, RegistryReady
<1>4. CASE DeferredReady
  BY <1>2, <1>4 DEF DeferredReady
<1>5. CASE DeferReady \/ StartDeferred \/ HoldWork \/ AllowWork
  BY <1>5 DEF FlagsOK, DeferReady, StartDeferred, HoldWork, AllowWork, session, start,
              loop, handoff
<1> QED BY <1>1, <1>3, <1>4, <1>5

LEMMA FlagsOthers ==
    ASSUME FlagsOK,
           \/ TickReveal \/ ShardArrives \/ PreviewSettles \/ PresentFirstFrame
           \/ Deadline \/ RefreshDatabase \/ ConfirmDialog \/ CancelDialog
           \/ LaunchGame \/ LaunchSucceeds \/ LaunchFails \/ RecoverTransport
           \/ HandoffEnds \/ AcknowledgeFailure
    PROVE  FlagsOK'
<1>1. CASE TickReveal \/ ShardArrives \/ PreviewSettles \/ PresentFirstFrame \/ Deadline
  BY <1>1 DEF FlagsOK, TickReveal, ShardArrives, PreviewSettles, PresentFirstFrame,
              Deadline, OnlyReveal, session, loop, handoff
<1>2. CASE RefreshDatabase \/ ConfirmDialog \/ CancelDialog
  BY <1>2 DEF FlagsOK, RefreshDatabase, ConfirmDialog, CancelDialog, session, loop,
              start, handoff
<1>3. CASE \/ LaunchGame \/ LaunchSucceeds \/ LaunchFails \/ RecoverTransport
           \/ HandoffEnds \/ AcknowledgeFailure
  BY <1>3 DEF FlagsOK, LaunchGame, LaunchSucceeds, LaunchFails, RecoverTransport,
              HandoffEnds, AcknowledgeFailure, session, loop, start, handoff
<1> QED BY <1>1, <1>2, <1>3

-----------------------------------------------------------------------------
LEMMA WorkerNext ==
    ASSUME WorkerInv, Next PROVE WorkerInv'
<1>1. CASE Child \/ Reap \/ Watchdog \/ GamesChange \/ Poll
  BY <1>1, ChildKeeps, PollKeeps
<1>2. CASE LoadFailed \/ PersistenceFailed \/ Done
  BY <1>2, TakeAnswerKeeps DEF LoadFailed, PersistenceFailed, Done
<1>3. CASE SeedReady \/ RegistryReady \/ DeferReady
  BY <1>3, TakeReadyKeeps DEF SeedReady, RegistryReady, DeferReady, Messages
<1>4. CASE StartDeferred \/ RefreshDatabase
  BY <1>4, StartKeeps DEF StartDeferred, RefreshDatabase, Requests
<1>5. CASE ConfirmDialog \/ CancelDialog
  <2>1. PICK action : Choose(action)
    BY <1>5 DEF ConfirmDialog, CancelDialog
  <2> QED BY <2>1, StartKeeps, WorkerRests DEF Choose, Requests
<1>6. CASE \/ DeferredReady \/ HoldWork \/ AllowWork \/ TickReveal \/ ShardArrives \/ PreviewSettles
           \/ PresentFirstFrame \/ Deadline \/ LaunchGame \/ LaunchSucceeds \/ LaunchFails
           \/ RecoverTransport \/ HandoffEnds \/ AcknowledgeFailure
  BY <1>6, WorkerRests
     DEF DeferredReady, HoldWork, AllowWork, TickReveal, ShardArrives, PreviewSettles, PresentFirstFrame,
         Deadline, OnlyReveal, LaunchGame, LaunchSucceeds, LaunchFails,
         RecoverTransport, HandoffEnds, AcknowledgeFailure
<1> QED BY <1>1, <1>2, <1>3, <1>4, <1>5, <1>6 DEF Next, Handle

-----------------------------------------------------------------------------
(* The two charts, and what a launch holds.                                *)

ChartInv ==
    /\ life \in Lives /\ dialog \in Dialogs /\ mode \in Modes /\ reveal \in Reveals
    /\ LaunchIsHeld /\ OfferStands

(* Neither takes the picture away nor touches the launch.                  *)
ChartStep == ChartInv' /\ (reveal = "enabled" => reveal' = "enabled")

(* A step that keeps the launch and the lifecycle's place in it.           *)
LEMMA LaunchKept ==
    ASSUME LaunchIsHeld, UNCHANGED handoff,
           \A m \in {"launching", "handoff"} : life' = m <=> life = m
    PROVE  LaunchIsHeld'
  BY DEF LaunchIsHeld, handoff

LEMMA ChartDialog ==
    ASSUME ChartInv, NEW cause \in Causes, NEW stale \in BOOLEAN,
           NEW before \in Lives, before \in {life, AfterValidation(life)},
           NEW picture \in Reveals, reveal = "enabled" => picture = "enabled",
           OpenDialog(cause, stale, before, picture), UNCHANGED <<mode, handoff>>,
           stale => catalogReady' /\ ~capsule',
           catalogReady /\ ~capsule => catalogReady' /\ ~capsule'
    PROVE  ChartStep
<1>1. \A m \in {"launching", "handoff", "failed"} : before = m <=> life = m
  BY LifeMoves DEF ChartInv
<1>2. CASE TakesFailure(before)
  <2>1. life' = "failed" /\ dialog' = [cause |-> cause, stale |-> stale]
        /\ reveal' = MarkReady(picture) /\ life \notin {"launching", "handoff"}
    BY <1>1, <1>2 DEF OpenDialog, AfterFailure, TakesFailure, Catalogued
  <2>2. LaunchIsHeld'
    BY <2>1, LaunchKept DEF ChartInv
  <2>3. OfferStands'
    BY <2>1 DEF OfferStands
  <2>4. reveal' \in Reveals /\ (reveal = "enabled" => reveal' = "enabled")
    BY <2>1 DEF MarkReady, Reveals
  <2>5. life' \in Lives /\ dialog' \in Dialogs /\ mode' \in Modes
    BY <2>1 DEF ChartInv, Lives, Dialogs
  <2> QED BY <2>2, <2>3, <2>4, <2>5 DEF ChartStep, ChartInv
<1>3. CASE ~TakesFailure(before)
  <2>1. life' = before /\ dialog' = dialog /\ reveal' = picture
    BY <1>3 DEF OpenDialog, AfterFailure
  <2>2. LaunchIsHeld'
    BY <1>1, <2>1, LaunchKept DEF ChartInv
  <2>3. OfferStands'
    BY <1>1, <2>1 DEF ChartInv, OfferStands
  <2> QED BY <2>1, <2>2, <2>3 DEF ChartStep, ChartInv
<1> QED BY <1>2, <1>3

(* The end of a job may restore a return, and never under enabled input.   *)
LEMMA FinishedPicture ==
    ASSUME ChartInv, NEW picture \in BuildFinished
    PROVE  picture \in Reveals /\ (reveal = "enabled" => picture = "enabled")
<1>1. reveal \in Reveals /\ mode \in Modes
  BY DEF ChartInv
<1>2. picture = reveal \/ \E wait \in BOOLEAN : picture = ContextRestored(mode, reveal, wait)
  BY DEF BuildFinished
<1> QED BY <1>1, <1>2 DEF ContextRestored, EmitsRestored, Reveals

LEMMA ChartFailures ==
    ASSUME ChartInv, FlagsOK, LoadFailed \/ PersistenceFailed PROVE ChartStep
<1>1. AfterValidation(life) \in Lives
  BY LifeMoves DEF ChartInv
<1>2. PICK cause \in Causes, picture \in BuildFinished :
         OpenDialog(cause, HasStale, AfterValidation(life), picture)
  BY DEF LoadFailed, PersistenceFailed
<1>3. catalogReady \in BOOLEAN /\ capsule \in BOOLEAN
  BY DEF FlagsOK
<1>4. HasStale \in BOOLEAN
  BY <1>3 DEF HasStale
<1>5. UNCHANGED <<mode, handoff>>
  BY DEF LoadFailed, PersistenceFailed, start
<1>6. HasStale => catalogReady' /\ ~capsule'
  <2>1. CASE LoadFailed
    <3>1. catalogReady' = HasStale /\ capsule' = FALSE
      BY <2>1 DEF LoadFailed, HasStale
    <3> QED BY <3>1
  <2>2. CASE PersistenceFailed
    <3>1. catalogReady' = catalogReady /\ capsule' = capsule
      BY <2>2 DEF PersistenceFailed, loop
    <3> QED BY <3>1 DEF HasStale
  <2> QED BY <2>1, <2>2
<1>7. catalogReady /\ ~capsule => catalogReady' /\ ~capsule'
  BY <1>6 DEF HasStale
<1>8. picture \in Reveals /\ (reveal = "enabled" => picture = "enabled")
  BY FinishedPicture
<1> QED BY <1>1, <1>2, <1>4, <1>5, <1>6, <1>7, <1>8, ChartDialog

(* A step of the lifecycle that opens no dialog, and leaves the reveal or  *)
(* takes it on.                                                            *)
LEMMA ChartLife ==
    ASSUME ChartInv, life' \in Lives, dialog' \in Dialogs, UNCHANGED <<mode, handoff>>,
           reveal' \in Reveals, reveal = "enabled" => reveal' = "enabled",
           \A m \in {"launching", "handoff"} : life' = m <=> life = m,
           life' = "failed" =>
               life = "failed" /\ UNCHANGED <<dialog, catalogReady, capsule>>
    PROVE  ChartStep
<1>1. LaunchIsHeld'
  BY LaunchKept DEF ChartInv
<1>2. OfferStands'
  BY DEF ChartInv, OfferStands
<1> QED BY <1>1, <1>2 DEF ChartStep, ChartInv

(* A step of the reveal only.                                              *)
LEMMA ChartReveal ==
    ASSUME ChartInv, reveal' \in Reveals, reveal = "enabled" => reveal' = "enabled",
           UNCHANGED <<life, dialog, mode, handoff, catalogReady, capsule>>
    PROVE  ChartStep
<1>1. LaunchIsHeld'
  BY LaunchKept DEF ChartInv
<1>2. OfferStands'
  BY DEF ChartInv, OfferStands
<1> QED BY <1>1, <1>2 DEF ChartStep, ChartInv

LEMMA ChartReady ==
    ASSUME ChartInv, FlagsOK, NEW m, HandleReady(m), UNCHANGED handoff
    PROVE  ChartStep
<1>1. CASE Duplicate(m) /\ refreshFailed
  <2>1. OpenDialog("final", TRUE, life, reveal) /\ UNCHANGED <<mode, catalogReady, capsule>>
    BY <1>1 DEF HandleReady, start
  <2>2. catalogReady /\ ~capsule
    BY <1>1 DEF Duplicate
  <2>3. life \in Lives /\ reveal \in Reveals /\ "final" \in Causes
    BY DEF ChartInv, Causes
  <2> QED BY <2>1, <2>2, <2>3, ChartDialog
<1>2. CASE Duplicate(m) /\ ~refreshFailed
  BY <1>2, ChartReveal DEF HandleReady, chart, start, ChartInv
<1>3. CASE ~Duplicate(m)
  <2>1. UseCatalog
    BY <1>3 DEF HandleReady
  <2>2. /\ life' = AfterCatalogReady(life) /\ UNCHANGED <<dialog, mode>>
        /\ catalogReady' = TRUE /\ capsule' = FALSE
    BY <2>1 DEF UseCatalog
  <2>3. reveal' \in Reveals /\ (reveal = "enabled" => reveal' = "enabled")
    <3>1. CASE UNCHANGED reveal
      BY <3>1 DEF ChartInv
    <3>2. ASSUME NEW wait \in BOOLEAN,
                 reveal' = Tick(mode, ContextRestored(mode, reveal, wait), late, TRUE)
          PROVE  reveal' \in Reveals /\ (reveal = "enabled" => reveal' = "enabled")
      <4>1. mode \in Modes /\ reveal \in Reveals /\ late \in BOOLEAN
        BY DEF ChartInv, FlagsOK
      <4>2. /\ ContextRestored(mode, reveal, wait) \in Reveals
            /\ reveal = "enabled" => ContextRestored(mode, reveal, wait) = "enabled"
        BY <4>1, RevealMoves
      <4> QED BY <3>2, <4>1, <4>2, RevealMoves
    <3> QED BY <2>1, <3>1, <3>2 DEF UseCatalog
  <2>4. /\ life' \in Lives
        /\ \A n \in {"launching", "handoff", "failed"} : life' = n <=> life = n
    BY <2>2, LifeMoves DEF ChartInv
  <2>5. LaunchIsHeld'
    BY <2>4, LaunchKept DEF ChartInv
  <2>6. OfferStands'
    BY <2>2 DEF OfferStands
  <2> QED BY <2>2, <2>3, <2>4, <2>5, <2>6 DEF ChartStep, ChartInv
<1> QED BY <1>1, <1>2, <1>3 DEF FlagsOK

LEMMA ChartMessages ==
    ASSUME ChartInv, FlagsOK,
           \/ Handle \/ DeferReady \/ DeferredReady
           \/ StartDeferred \/ HoldWork \/ AllowWork
    PROVE  ChartStep
<1>1. CASE LoadFailed \/ PersistenceFailed
  BY <1>1, ChartFailures
<1>2. CASE Done \/ StartDeferred
  <2>1. life' \in {AfterValidation(life), AfterBuilding(life)}
        /\ UNCHANGED <<dialog, mode, handoff, catalogReady, capsule>>
    BY <1>2 DEF Done, StartDeferred, loop, start
  <2>2. /\ life' \in Lives
        /\ \A m \in {"launching", "handoff", "failed"} : life' = m <=> life = m
    BY <2>1, LifeMoves DEF ChartInv
  <2>3. reveal' \in Reveals /\ (reveal = "enabled" => reveal' = "enabled")
    BY <1>2, FinishedPicture DEF Done, StartDeferred, ChartInv
  <2>4. dialog' \in Dialogs
    BY <2>1 DEF ChartInv
  <2> QED BY <2>1, <2>2, <2>3, <2>4, ChartLife
<1>3. CASE SeedReady \/ RegistryReady \/ DeferredReady
  BY <1>3, ChartReady DEF SeedReady, RegistryReady, DeferredReady
<1>4. CASE DeferReady \/ HoldWork \/ AllowWork
  BY <1>4, ChartReveal DEF DeferReady, HoldWork, AllowWork, chart, start, ChartInv
<1> QED BY <1>1, <1>2, <1>3, <1>4 DEF Handle

LEMMA ChartReveals ==
    ASSUME ChartInv, FlagsOK,
           \/ TickReveal \/ ShardArrives \/ PreviewSettles \/ PresentFirstFrame \/ Deadline
    PROVE  ChartStep
<1>1. UNCHANGED <<life, dialog, mode, handoff, catalogReady, capsule>>
  BY DEF TickReveal, ShardArrives, PreviewSettles, PresentFirstFrame, Deadline,
         OnlyReveal, loop
<1>2. reveal \in Reveals /\ mode \in Modes /\ late \in BOOLEAN
      /\ ReadyForReveal \in BOOLEAN
  BY DEF ChartInv, FlagsOK, ReadyForReveal
<1>3. CASE TickReveal
  BY <1>1, <1>2, <1>3, RevealMoves, ChartReveal DEF TickReveal
<1>4. CASE ShardArrives
  BY <1>1, <1>4, FinishedPicture, ChartReveal DEF ShardArrives
<1>5. CASE PreviewSettles
  BY <1>1, <1>2, <1>5, RevealMoves, ChartReveal DEF PreviewSettles
<1>6. CASE PresentFirstFrame \/ Deadline
  BY <1>1, <1>2, <1>6, ChartReveal DEF PresentFirstFrame, Deadline, Reveals
<1> QED BY <1>3, <1>4, <1>5, <1>6

LEMMA ChartUser ==
    ASSUME ChartInv, FlagsOK,
           \/ RefreshDatabase \/ ConfirmDialog \/ CancelDialog \/ AcknowledgeFailure
    PROVE  ChartStep
<1>1. UNCHANGED <<mode, reveal, handoff, catalogReady, capsule>>
  BY DEF RefreshDatabase, ConfirmDialog, CancelDialog, AcknowledgeFailure, loop, start
<1>2. reveal' \in Reveals /\ (reveal = "enabled" => reveal' = "enabled")
  BY <1>1 DEF ChartInv
<1>3. CASE RefreshDatabase
  <2>1. life' = AfterBuilding(life) /\ dialog' = dialog
    BY <1>3 DEF RefreshDatabase
  <2>2. /\ life' \in Lives
        /\ \A m \in {"launching", "handoff", "failed"} : life' = m <=> life = m
    BY <2>1, LifeMoves DEF ChartInv
  <2>3. dialog' \in Dialogs
    BY <2>1 DEF ChartInv
  <2> QED BY <1>1, <1>2, <2>1, <2>2, <2>3, ChartLife
<1>4. CASE ConfirmDialog \/ CancelDialog
  <2>1. life = "failed" /\ life' \in {"idle", "retrying", "building", "exited"}
    BY <1>4 DEF ConfirmDialog, CancelDialog, Choose
  <2>2. dialog' = NoDialog
    BY <1>4 DEF ConfirmDialog, CancelDialog
  <2>3. NoDialog \in Dialogs
    BY DEF NoDialog, Dialogs, Causes
  <2>4. dialog' \in Dialogs
    BY <2>2, <2>3
  <2> QED BY <1>1, <1>2, <2>1, <2>4, ChartLife DEF Lives
<1>5. CASE AcknowledgeFailure
  <2>1. life = "recovered" /\ life' = "idle" /\ dialog' = dialog
    BY <1>5 DEF AcknowledgeFailure
  <2>2. dialog' \in Dialogs
    BY <2>1 DEF ChartInv
  <2> QED BY <1>1, <1>2, <2>1, <2>2, ChartLife DEF Lives
<1> QED BY <1>3, <1>4, <1>5

LEMMA ChartLaunch ==
    ASSUME ChartInv, FlagsOK,
           \/ LaunchGame \/ LaunchSucceeds \/ LaunchFails \/ RecoverTransport \/ HandoffEnds
    PROVE  ChartStep
<1>1. UNCHANGED <<dialog, mode, reveal, catalogReady, capsule>>
  BY DEF LaunchGame, LaunchSucceeds, LaunchFails, RecoverTransport, HandoffEnds, loop,
         start, chart
<1>2. ASSUME life' \in Lives, LaunchIsHeld', life' # "failed" \/ life = "failed"
      PROVE  ChartStep
  BY <1>1, <1>2 DEF ChartStep, ChartInv, OfferStands
<1>3. CASE LaunchGame
  <2>1. life' = "launching" /\ launch' = TRUE /\ transport' = TRUE
    BY <1>3 DEF LaunchGame, TakesLaunch, ChartInv, LaunchIsHeld
  <2> QED BY <1>2, <2>1 DEF LaunchIsHeld, Lives
<1>4. CASE LaunchSucceeds
  <2>1. life = "launching" /\ life' = "handoff" /\ launch' = FALSE
        /\ transport' = transport
    BY <1>4 DEF LaunchSucceeds, AfterLaunchSucceeded, ChartInv, LaunchIsHeld
  <2> QED BY <1>2, <2>1 DEF LaunchIsHeld, Lives, ChartInv
<1>5. CASE LaunchFails
  <2>1. life = "launching" /\ life' = "recovered" /\ launch' = FALSE
    BY <1>5 DEF LaunchFails, AfterLaunchFailed, ChartInv, LaunchIsHeld
  <2> QED BY <1>2, <2>1 DEF LaunchIsHeld, Lives
<1>6. CASE RecoverTransport
  BY <1>2, <1>6 DEF RecoverTransport, StaleTransport, chart, ChartInv, LaunchIsHeld
<1>7. CASE HandoffEnds
  BY <1>2, <1>7 DEF HandoffEnds, handoff, ChartInv, LaunchIsHeld, Lives
<1> QED BY <1>3, <1>4, <1>5, <1>6, <1>7

-----------------------------------------------------------------------------
LEMMA SessionParts ==
    /\ SessionInv <=> WorkerInv /\ FlagsOK /\ ChartInv
    /\ SessionInv' <=> WorkerInv' /\ FlagsOK' /\ ChartInv'
<1>1. TypeOK <=> /\ WorkerTypeOK /\ FlagsOK
                 /\ life \in Lives /\ dialog \in Dialogs
                 /\ mode \in Modes /\ reveal \in Reveals
  BY DEF TypeOK, FlagsOK
<1>2. TypeOK' <=> /\ WorkerTypeOK' /\ FlagsOK'
                  /\ life' \in Lives /\ dialog' \in Dialogs
                  /\ mode' \in Modes /\ reveal' \in Reveals
  BY DEF TypeOK, FlagsOK
<1> QED BY <1>1, <1>2 DEF SessionInv, WorkerInv, ChartInv

LEMMA SessionStep ==
    ASSUME SessionInv, Next
    PROVE  SessionInv' /\ (reveal = "enabled" => reveal' = "enabled")
<1>1. WorkerInv /\ FlagsOK /\ ChartInv
  BY SessionParts
<1>2. WorkerInv'
  BY <1>1, WorkerNext
<1>3. CASE (Child \/ Reap \/ Watchdog \/ GamesChange \/ Poll) /\ Beside
  <2>1. FlagsOK'
    BY <1>1, <1>3 DEF FlagsOK, Beside, session, loop, start, handoff
  <2>2. ChartInv' /\ (reveal = "enabled" => reveal' = "enabled")
    BY <1>1, <1>3 DEF ChartInv, LaunchIsHeld, OfferStands, Beside, loop, start, chart,
                      handoff
  <2> QED BY <1>2, <2>1, <2>2, SessionParts
<1>4. CASE \/ Handle \/ DeferReady \/ DeferredReady
           \/ StartDeferred \/ HoldWork \/ AllowWork
  <2>1. FlagsOK'
    BY <1>1, <1>4, FlagsMessages DEF Handle
  <2> QED BY <1>1, <1>2, <1>4, <2>1, ChartMessages, SessionParts DEF ChartStep
<1>5. CASE \/ TickReveal \/ ShardArrives \/ PreviewSettles \/ PresentFirstFrame
           \/ Deadline \/ RefreshDatabase \/ ConfirmDialog \/ CancelDialog
           \/ LaunchGame \/ LaunchSucceeds \/ LaunchFails \/ RecoverTransport
           \/ HandoffEnds \/ AcknowledgeFailure
  <2>1. FlagsOK'
    BY <1>1, <1>5, FlagsOthers
  <2>2. ChartStep
    BY <1>1, <1>5, ChartReveals, ChartUser, ChartLaunch
  <2> QED BY <1>2, <2>1, <2>2, SessionParts DEF ChartStep
<1> QED BY <1>3, <1>4, <1>5 DEF Next

LEMMA SessionRests ==
    ASSUME SessionInv, UNCHANGED vars
    PROVE  SessionInv' /\ (reveal = "enabled" => reveal' = "enabled")
<1>1. WorkerInv'
  BY WorkerRests, SessionParts DEF vars
<1>2. FlagsOK'
  BY SessionParts DEF FlagsOK, vars, session, loop, start, handoff
<1>3. ChartInv' /\ (reveal = "enabled" => reveal' = "enabled")
  BY SessionParts DEF ChartInv, LaunchIsHeld, OfferStands, vars, loop, start, chart,
                      handoff
<1> QED BY <1>1, <1>2, <1>3, SessionParts

LEMMA SessionHolds == Spec => []SessionInv
<1>1. SessionInv /\ [Next]_vars => SessionInv'
  BY SessionStep, SessionRests
<1> QED BY <1>1, SessionInit, PTL DEF Spec

(* The session, its job, the lifecycle and the reveal stay in their states *)
(* whatever the job sends, and the channel never holds more than the two   *)
(* catalogs a run of it announces (catalog_worker.rs).                     *)
THEOREM TypeCorrect == Spec => []TypeOK
<1>1. SessionInv => TypeOK
  BY DEF SessionInv
<1> QED BY <1>1, SessionHolds, PTL

(* From the start of the launch worker to its answer the lifecycle is      *)
(* "launching" and the process-wide flag is set, whatever the catalog job  *)
(* reports meanwhile: handle_worker_message's events are all ignored there *)
(* (launcher_lifecycle.rs, launch_handoff_session.rs).                     *)
THEOREM LaunchIsHeldCorrect == Spec => []LaunchIsHeld
<1>1. SessionInv => LaunchIsHeld
  BY DEF SessionInv
<1> QED BY <1>1, SessionHolds, PTL

(* A recovery dialog that offers to continue with the catalog in memory    *)
(* has one, and not a capsule that the next failed load would discard      *)
(* (has_stale_catalog in launcher_catalog_session.rs).                     *)
THEOREM StaleIsPlayableCorrect == Spec => []StaleIsPlayable
<1>1. SessionInv => StaleIsPlayable
  BY DEF SessionInv, OfferStands, StaleIsPlayable
<1> QED BY <1>1, SessionHolds, PTL

(* A refresh, a retry and the first build never start a catalog process    *)
(* beside one that still exists, though the job may have ended with its    *)
(* message, with a channel that was disconnected, or with a spawn that     *)
(* failed: poll_catalog drops the handle only of a process that is reaped  *)
(* (launcher_scheduler.rs), so that whatever still exists has one          *)
(* (ProcessHeld), and start_catalog_worker asks it.                        *)
THEOREM BuildersNeverOverlapCorrect == Spec => []BuildersNeverOverlap
<1>1. SessionInv => BuildersNeverOverlap
  BY DEF SessionInv
<1> QED BY <1>1, SessionHolds, PTL

(* No step of any handler takes the reveal out of "enabled": a late        *)
(* catalog, row, preview or deadline never blacks the picture of a user    *)
(* who has the input (launcher_startup_reveal.rs).                         *)
THEOREM InputNeverBlackCorrect == Spec => InputNeverBlack
<1>1. SessionInv /\ [Next]_vars => [reveal = "enabled" => reveal' = "enabled"]_vars
  BY SessionStep
<1> QED BY <1>1, SessionHolds, PTL DEF Spec, InputNeverBlack
=============================================================================
