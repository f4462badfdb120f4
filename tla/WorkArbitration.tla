-------------------------- MODULE WorkArbitration --------------------------
(***************************************************************************)
(* Who works while the user interface moves: the frame loop publishes     *)
(* motion (ui_motion.rs), background units wait for its end or for a      *)
(* bounded time, at the work coordinator (work_coordinator.rs) or parked  *)
(* at a checkpoint (cooperative_work.rs).                                 *)
(*                                                                        *)
(* The two condition variables are modelled with their mutexes, for a     *)
(* wake-up can only be lost between a test of the motion signal, which no *)
(* mutex protects, and the wait that follows.  Time is counted in ticks   *)
(* up to MAX_DEFERRAL; the slices of a wait may end at any time.          *)
(***************************************************************************)
EXTENDS Integers

CONSTANTS
    Prefetchers,  \* background threads that yield to motion and foreground
    Streams,      \* background threads watched live: foreground only
    Scopes,       \* threads in a background scope with checkpoints
    Foregrounds,  \* threads that take foreground leases
    Nobody,       \* holder of a free mutex
    MaxDeferral,  \* MAX_DEFERRAL in ticks
    FairnessYieldLimit

Coordinated == Prefetchers \union Streams
Threads     == Coordinated \union Scopes

ASSUME ArbitrationAssumption ==
    /\ Prefetchers \intersect Streams = {}
    /\ Coordinated \intersect Scopes = {}
    /\ Nobody \notin Threads
    /\ MaxDeferral \in Nat \ {0}
    /\ FairnessYieldLimit \in Nat

VARIABLES
    active,       \* ui_motion::ACTIVE
    loop,         \* where the frame loop stands in set_active
    lock,         \* holders of the two mutexes
    pc,           \* where each background thread stands
    began,        \* age of a thread's own deferral: started, parked_at
    yieldStart,   \* age of motion_yield_started
    consecutive,  \* consecutive_background_yields
    leases        \* foreground leases

coordinator == <<yieldStart, consecutive, leases>>
vars == <<active, loop, lock, pc, began, yieldStart, consecutive, leases>>

NotStarted == -1
Ages == {NotStarted} \union 0 .. MaxDeferral

Gates   == {"work", "parked"}
Gate(t) == IF t \in Scopes THEN "parked" ELSE "work"

TypeOK ==
    /\ active \in BOOLEAN
    /\ loop \in {"run", "wakeParked", "notifyParked", "wakeMotion"}
    /\ lock \in [Gates -> Threads \union {Nobody}]
    /\ pc \in [Threads -> {"unit", "ask", "askMotion", "check", "enter",
                           "asleep", "woken", "brief"}]
    /\ began \in [Threads -> 0 .. MaxDeferral]
    /\ yieldStart \in Ages
    /\ consecutive \in 0 .. FairnessYieldLimit
    /\ leases \in SUBSET Foregrounds

Init ==
    /\ active = FALSE /\ loop = "run"
    /\ lock = [g \in Gates |-> Nobody]
    /\ pc = [t \in Threads |-> "unit"]
    /\ began = [t \in Threads |-> 0]
    /\ yieldStart = NotStarted /\ consecutive = 0 /\ leases = {}

-----------------------------------------------------------------------------
Free(g)   == lock[g] = Nobody
Take(t)   == lock' = [lock EXCEPT ![Gate(t)] = t]
Release(t) == lock' = [lock EXCEPT ![Gate(t)] = Nobody]
Goto(t, place) == pc' = [pc EXCEPT ![t] = place]

(* notify_all on the condition variable of gate g. *)
Notify(g) == pc' = [t \in Threads |-> IF pc[t] = "asleep" /\ Gate(t) = g
                                      THEN "woken" ELSE pc[t]]

(* Mutant: a deferral has no bound. *)
WithinBoundAlways(age) == TRUE

WithinBound(age) == age < MaxDeferral

(* get_or_insert *)
Started(age) == IF age = NotStarted THEN 0 ELSE age

(***************************************************************************)
(* set_active: the frame loop publishes motion, and wakes the parked      *)
(* scopes and then the coordinator's waiters when motion ends.            *)
(***************************************************************************)
StartMotion ==
    /\ loop = "run" /\ ~active
    /\ active' = TRUE
    /\ UNCHANGED <<loop, lock, pc, began, coordinator>>

EndMotion ==
    /\ loop = "run" /\ active
    /\ active' = FALSE
    /\ loop' = "wakeParked"
    /\ UNCHANGED <<lock, pc, began, coordinator>>

(* Mutant: the mutex is not taken before the notification. *)
LockParkedUnlocked ==
    /\ loop = "wakeParked"
    /\ loop' = "notifyParked"
    /\ UNCHANGED <<active, lock, pc, began, coordinator>>

(* wake_parked takes the mutex, drops it, and only then notifies. *)
LockParked ==
    /\ loop = "wakeParked" /\ Free("parked")
    /\ loop' = "notifyParked"
    /\ UNCHANGED <<active, lock, pc, began, coordinator>>

NotifyParked ==
    /\ loop = "notifyParked"
    /\ Notify("parked")
    /\ loop' = "wakeMotion"
    /\ UNCHANGED <<active, lock, began, coordinator>>

(* wake_motion_waiters *)
WakeMotionWaiters ==
    /\ loop = "wakeMotion" /\ Free("work")
    /\ Notify("work")
    /\ loop' = "run"
    /\ UNCHANGED <<active, lock, began, coordinator>>

-----------------------------------------------------------------------------
(* Foreground leases: taking and dropping one notifies every waiter. *)

AcquireForeground(f) ==
    /\ Free("work") /\ f \notin leases
    /\ leases' = leases \union {f}
    /\ Notify("work")
    /\ UNCHANGED <<active, loop, lock, began, yieldStart, consecutive>>

ReleaseForeground(f) ==
    /\ Free("work") /\ f \in leases
    /\ leases' = leases \ {f}
    /\ Notify("work")
    /\ UNCHANGED <<active, loop, lock, began, yieldStart, consecutive>>

-----------------------------------------------------------------------------
(* cooperate_background *)

(* cooperate reads the motion signal before it takes the mutex;           *)
(* cooperate_with_foreground never asks for motion.                       *)
Cooperate(t) ==
    /\ pc[t] = "unit"
    /\ Goto(t, IF t \in Prefetchers /\ active THEN "askMotion" ELSE "ask")
    /\ UNCHANGED <<active, loop, lock, began, coordinator>>

YieldsToMotion(t) ==
    pc[t] = "askMotion" /\ active /\ WithinBound(Started(yieldStart))

YieldToMotion(t) ==
    /\ Free("work") /\ YieldsToMotion(t)
    /\ yieldStart' = Started(yieldStart)
    /\ began' = [began EXCEPT ![t] = Started(yieldStart)]
    /\ Take(t) /\ Goto(t, "check")
    /\ UNCHANGED <<active, loop, consecutive, leases>>

(* Mutant: one yield too many before a pass. *)
FairnessDueLate == consecutive > FairnessYieldLimit

FairnessDue == consecutive >= FairnessYieldLimit

(* No foreground lease, or as many yields as fairness allows: run.        *)
RunUnit(t) ==
    /\ Free("work") /\ pc[t] \in {"ask", "askMotion"} /\ ~YieldsToMotion(t)
    /\ leases = {} \/ FairnessDue
    /\ yieldStart' = NotStarted /\ consecutive' = 0
    /\ Goto(t, "unit")
    /\ UNCHANGED <<active, loop, lock, began, leases>>

(* One short wait, which ends by itself or by any notification. *)
YieldToForeground(t) ==
    /\ Free("work") /\ pc[t] \in {"ask", "askMotion"} /\ ~YieldsToMotion(t)
    /\ leases # {} /\ ~FairnessDue
    /\ yieldStart' = NotStarted /\ consecutive' = consecutive + 1
    /\ Goto(t, "brief")
    /\ UNCHANGED <<active, loop, lock, began, leases>>

BriefWaitEnds(t) ==
    /\ pc[t] = "brief" /\ Free("work")
    /\ Goto(t, "unit")
    /\ UNCHANGED <<active, loop, lock, began, coordinator>>

-----------------------------------------------------------------------------
(* checkpoint; production never pauses the permission bit. *)

Checkpoint(t) ==
    /\ pc[t] = "unit" /\ active
    /\ Goto(t, "askMotion")
    /\ UNCHANGED <<active, loop, lock, began, coordinator>>

Park(t) ==
    /\ pc[t] = "askMotion" /\ Free("parked")
    /\ Take(t) /\ Goto(t, "check")
    /\ UNCHANGED <<active, loop, began, coordinator>>

-----------------------------------------------------------------------------
(* The wait both share: while motion lasts and the bound holds, wait on   *)
(* the condition variable.                                                *)

MustWait(t) == active /\ WithinBound(began[t])

Recheck(t) ==
    /\ pc[t] = "check"
    /\ IF MustWait(t)
       THEN Goto(t, "enter") /\ UNCHANGED <<lock, began>>
       ELSE Goto(t, "unit") /\ Release(t) /\ began' = [began EXCEPT ![t] = 0]
    /\ UNCHANGED <<active, loop, coordinator>>

FallAsleep(t) ==
    /\ pc[t] = "enter"
    /\ Release(t) /\ Goto(t, "asleep")
    /\ UNCHANGED <<active, loop, began, coordinator>>

SliceEnds(t) ==
    /\ pc[t] = "asleep"
    /\ Goto(t, "woken")
    /\ UNCHANGED <<active, loop, lock, began, coordinator>>

Relock(t) ==
    /\ pc[t] = "woken" /\ Free(Gate(t))
    /\ Take(t) /\ Goto(t, "check")
    /\ UNCHANGED <<active, loop, began, coordinator>>

-----------------------------------------------------------------------------
(* A deferral of t is running: a scope's from its first test on.          *)
Deferred(t) == \/ pc[t] \in {"check", "enter", "asleep", "woken"}
               \/ t \in Scopes /\ pc[t] = "askMotion"

Older(age) == IF age \in {NotStarted, MaxDeferral} THEN age ELSE age + 1

Tick ==
    /\ began' = [t \in Threads |-> IF Deferred(t) THEN Older(began[t]) ELSE began[t]]
    /\ yieldStart' = Older(yieldStart)
    /\ UNCHANGED <<active, loop, lock, pc, consecutive, leases>>

-----------------------------------------------------------------------------
(* What a thread does by itself, once it has asked. *)
Proceed(t) ==
    \/ t \in Coordinated /\ (RunUnit(t) \/ YieldToForeground(t) \/ BriefWaitEnds(t))
    \/ t \in Prefetchers /\ YieldToMotion(t)
    \/ t \in Scopes /\ Park(t)
    \/ Recheck(t) \/ FallAsleep(t) \/ SliceEnds(t) \/ Relock(t)

Wake == LockParked \/ NotifyParked \/ WakeMotionWaiters

Next ==
    \/ StartMotion \/ EndMotion \/ Wake
    \/ \E f \in Foregrounds : AcquireForeground(f) \/ ReleaseForeground(f)
    \/ \E t \in Coordinated : Cooperate(t)
    \/ \E t \in Scopes : Checkpoint(t)
    \/ \E t \in Threads : Proceed(t)
    \/ Tick

Safety == Init /\ [][Next]_vars

(* Time passes; what follows a request or the end of motion is fair,      *)
(* strongly because it may need a mutex: every holder lets go, and no     *)
(* thread is passed over for ever.                                        *)
Fairness ==
    /\ WF_vars(Tick)
    /\ SF_vars(Wake)
    /\ \A t \in Threads : SF_vars(Proceed(t))

Spec == Safety /\ Fairness
-----------------------------------------------------------------------------
(* Properties *)

(* No wake-up is lost: once the frame loop has published the end of       *)
(* motion, no unit waits for it or is about to, whatever it had tested    *)
(* before; without this a unit sleeps on for a whole slice.               *)
NoLostWakeup ==
    ~active /\ loop = "run" =>
        \A t \in Prefetchers \union Scopes : pc[t] \notin {"enter", "asleep"}

(* What makes it inductive: a thread between its test and its wait holds  *)
(* its mutex, and after the end of motion a waiting thread still has its  *)
(* notification ahead.                                                    *)
Holding ==
    \A t \in Threads : pc[t] \in {"check", "enter"} => lock[Gate(t)] = t

WakeAhead ==
    /\ loop # "run" => ~active
    /\ ~active => \A t \in Threads :
          /\ pc[t] = "enter" => IF t \in Scopes THEN loop = "wakeParked"
                                               ELSE loop # "run"
          /\ pc[t] = "asleep" => IF t \in Scopes THEN loop \in {"wakeParked", "notifyParked"}
                                                ELSE loop # "run"

(* Background work is deferred, never starved: a unit that asks is let go,*)
(* though motion lasts and foreground work goes on.                       *)
NotStarved == \A t \in Threads : pc[t] # "unit" ~> pc[t] = "unit"
=============================================================================
