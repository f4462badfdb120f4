--------------------------- MODULE CatalogWorker ---------------------------
(***************************************************************************)
(* One catalog job of the launcher: a child process that loads, reconciles  *)
(* or builds the registry (catalog_worker.rs), the thread that reads its    *)
(* protocol into the channels of CatalogWorkerReceiver, the thread that     *)
(* reaps it, and the scheduler's view of the job (launcher_scheduler.rs).   *)
(*                                                                          *)
(* The child exists until it is reaped.  The scheduler does not know that:  *)
(* it has the job, which ends with a message, and a handle, which it drops  *)
(* when it finds it reaped.                                                 *)
(*                                                                          *)
(* What is on the card is abstracted to how the registry stands to the      *)
(* games there.  A line that the child writes is read in the same step.     *)
(* How a registry is published is CatalogPublication.                       *)
(***************************************************************************)
EXTENDS Naturals, Sequences

VARIABLES
    registry, \* "none", "broken", "behind" the games, or "current"
    job,      \* the scheduler's job: "idle", or "running" with a receiver
    request,  \* what the child was started for
    stage,    \* how far the child is; "gone" once it is reaped
    handle,   \* the scheduler holds a catalog_child_control
    orphans,  \* children that existed when another was started
    events,   \* the Ready messages in the event channel
    terminal, \* Done or LoadFailed in the terminal channel
    failure,  \* PersistenceFailed in the watchdog's slot
    answer    \* what ended the job, received and not yet handled by the loop

card     == <<registry, request>>
child    == <<stage, events, terminal, failure>>
schedule == <<job, handle, orphans, answer>>
workerVars == <<card, child, schedule>>

Requests  == {"load", "reconcile", "fresh"}
Working   == {"started", "seeded", "committed", "announced"}
Stages    == Working \union {"ending", "gone"}

(* A Ready message, a seed from the navigation projection or the registry, *)
(* and the messages that end a job.                                        *)
Messages  == {"seed", "full"}
Terminals == {"done", "loadFailed", "failed"}

WorkerTypeOK ==
    /\ registry \in {"none", "broken", "behind", "current"}
    /\ job \in {"idle", "running"}
    /\ request \in Requests
    /\ stage \in Stages
    /\ handle \in BOOLEAN
    /\ orphans \in Nat
    /\ events \in Seq(Messages) /\ Len(events) <= 2
    /\ terminal \in {"none", "done", "loadFailed"}
    /\ failure \in BOOLEAN
    /\ answer \in {"none"} \union Terminals

-----------------------------------------------------------------------------
(* The child.                                                              *)

Sends(m) == events' = Append(events, m)

(* The path of a fresh build: asked for, or the registry cannot be refreshed.*)
BuildsFresh == \/ request = "fresh"
               \/ request = "reconcile" /\ registry \in {"none", "broken"}

(* Mutant: nothing remembers that the seed was sent. *)
AfterSeedForgotten == "started"

AfterSeed == "seeded"

(* StrictLoad reads the registry and announces it.                         *)
ChildLoads ==
    /\ stage = "started" /\ request = "load" /\ registry \in {"behind", "current"}
    /\ stage' = "announced" /\ Sends("full")
    /\ UNCHANGED <<card, schedule, terminal, failure>>

ChildLoadFails ==
    /\ stage = "started" /\ request = "load"
    /\ stage' = "ending" /\ terminal' = "loadFailed"
    /\ UNCHANGED <<card, schedule, events, failure>>

(* A reconciliation that finds nothing to rebuild or remove announces      *)
(* nothing.                                                                *)
ChildFindsNothing ==
    /\ stage = "started" /\ request = "reconcile" /\ registry = "current"
    /\ stage' = "announced"
    /\ UNCHANGED <<card, schedule, events, terminal, failure>>

(* A fresh build may show Arcade from the navigation projection first.     *)
ChildSeeds ==
    /\ stage = "started" /\ BuildsFresh
    /\ stage' = AfterSeed /\ Sends("seed")
    /\ UNCHANGED <<card, schedule, terminal, failure>>

ChildCommits ==
    /\ \/ stage \in {"started", "seeded"} /\ BuildsFresh
       \/ stage = "started" /\ request = "reconcile" /\ registry = "behind"
    /\ registry' = "current" /\ stage' = "committed"
    /\ UNCHANGED <<request, schedule, events, terminal, failure>>

(* publish_registry_ready_at, after the commit.                            *)
ChildAnnounces ==
    /\ stage = "committed"
    /\ stage' = "announced" /\ Sends("full")
    /\ UNCHANGED <<card, schedule, terminal, failure>>

ChildEnds ==
    /\ stage = "announced"
    /\ stage' = "ending" /\ terminal' = "done"
    /\ UNCHANGED <<card, schedule, events, failure>>

(* fail_and_terminate: the child reports a failure, dies, breaks the       *)
(* protocol, overruns the channel, or never shakes hands.                  *)
FailAndTerminate ==
    /\ stage \in Working
    /\ stage' = "ending" /\ failure' = TRUE
    /\ UNCHANGED <<card, schedule, events, terminal>>

ChildFails == FailAndTerminate

(* The reaper thread's wait returns.                                       *)
Reap ==
    /\ stage = "ending"
    /\ stage' = "gone"
    /\ UNCHANGED <<card, schedule, events, terminal, failure>>

(* Games are added or removed, and the registry falls behind.              *)
GamesChange ==
    /\ registry = "current"
    /\ registry' = "behind"
    /\ UNCHANGED <<request, child, schedule>>

Child == \/ ChildLoads \/ ChildLoadFails \/ ChildFindsNothing \/ ChildSeeds
         \/ ChildCommits \/ ChildAnnounces \/ ChildEnds \/ ChildFails

-----------------------------------------------------------------------------
(* The scheduler.                                                          *)

Reaped == stage = "gone"

(* catalog_worker_available, and what start_catalog_worker asks again: the *)
(* handle is asked for the process, and without one there is none to ask.  *)
Available == job = "idle" /\ (handle => Reaped)

(* start_catalog_worker: refused unless available.  A child that cannot be *)
(* spawned is a job with a failure and no handle.                          *)
StartWorker(req) ==
    IF Available
    THEN /\ job' = "running" /\ request' = req
         /\ \/ stage' = "started" /\ handle' = TRUE /\ failure' = FALSE
            \/ stage' = "gone" /\ handle' = FALSE /\ failure' = TRUE
         /\ orphans' = orphans + (IF Reaped THEN 0 ELSE 1)
         /\ events' = <<>> /\ terminal' = "none"
         /\ UNCHANGED <<registry, answer>>
    ELSE UNCHANGED workerVars

(* Mutant: a child that has shaken hands is not watched. *)
StalledUnannounced == job = "running" /\ handle /\ stage = "started" /\ request # "load"

(* No progress for 120 seconds.                                            *)
Stalled == job = "running" /\ handle /\ stage \in Working

(* tick_catalog_progress                                                   *)
Watchdog == Stalled /\ FailAndTerminate

(* try_recv looks at the watchdog's slot, then for a failed load, then at  *)
(* the events, and only then at Done.                                      *)
TryRecv == IF failure THEN "failed"
           ELSE IF events # <<>> /\ terminal # "loadFailed" THEN Head(events)
           ELSE terminal

(* Mutant: the end of a job is taken for the end of its process. *)
KeepsHandleNever == FALSE

(* The handle is kept while the process is not known to be gone.           *)
KeepsHandle == handle /\ ~Reaped

(* The job ends and its receiver is dropped.                               *)
EndJob ==
    /\ job' = "idle" /\ handle' = KeepsHandle
    /\ events' = <<>> /\ terminal' = "none" /\ failure' = FALSE
    /\ UNCHANGED <<card, orphans, stage>>

(* poll_catalog.  A message that ends the job does so when it is received; *)
(* it may wait in deferred_catalog_events while the job is idle.           *)
ReceiveTerminal ==
    /\ job = "running" /\ answer = "none" /\ TryRecv \in Terminals
    /\ answer' = TryRecv
    /\ EndJob

(* The reader thread sends its last message and closes the channels between*)
(* two looks of one try_recv, which then finds them disconnected.  If the  *)
(* process is gone the message is lost and the job has failed; if not it is*)
(* terminated, and the message is there for the next poll.                 *)
ReceiveDisconnected ==
    /\ job = "running" /\ answer = "none" /\ TryRecv \in Terminals /\ events = <<>>
    /\ handle /\ ~KeepsHandle
    /\ answer' = "loadFailed"
    /\ EndJob

Poll == ReceiveTerminal \/ ReceiveDisconnected

(* The loop takes the next message.  A Ready is left in its channel until  *)
(* then, after what an earlier job left to handle.                         *)
TakeReady(m) ==
    /\ job = "running" /\ answer = "none" /\ TryRecv = m
    /\ events' = Tail(events)
    /\ UNCHANGED <<card, schedule, stage, terminal, failure>>

TakeAnswer(m) ==
    /\ answer = m
    /\ answer' = "none"
    /\ UNCHANGED <<card, child, job, handle, orphans>>
=============================================================================
