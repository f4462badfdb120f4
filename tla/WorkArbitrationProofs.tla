----------------------- MODULE WorkArbitrationProofs -----------------------
(***************************************************************************)
(* No wake-up is lost, for any number of threads, any bound and any       *)
(* fairness limit.                                                        *)
(***************************************************************************)
EXTENDS WorkArbitration, TLAPS

ArbitrationInvariant == TypeOK /\ Holding /\ WakeAhead

(* The counters and places of the coordinator, the parked scopes and the  *)
(* frame loop have their types.                                           *)
LEMMA TypeInductive ==
    /\ Init => TypeOK
    /\ TypeOK /\ [Next]_vars => TypeOK'
<1> USE ArbitrationAssumption DEF TypeOK, Ages, NotStarted, Gates, Threads, Coordinated
<1>1. Init => TypeOK
  <2>1. 0 \in 0 .. MaxDeferral /\ 0 \in 0 .. FairnessYieldLimit
    OBVIOUS
  <2>2. QED
    BY <2>1 DEF Init
<1>2. ASSUME TypeOK, [Next]_vars PROVE TypeOK'
  <2> USE <1>2 DEF Goto, Notify, Take, Release, Gate, coordinator
  <2>1. CASE StartMotion \/ EndMotion \/ Wake
    BY <2>1 DEF StartMotion, EndMotion, Wake, LockParked, NotifyParked, WakeMotionWaiters
  <2>2. ASSUME NEW f \in Foregrounds, AcquireForeground(f) \/ ReleaseForeground(f)
        PROVE  TypeOK'
    BY <2>2 DEF AcquireForeground, ReleaseForeground
  <2>3. ASSUME NEW t \in Threads, \/ t \in Coordinated /\ Cooperate(t)
                                  \/ t \in Scopes /\ Checkpoint(t)
        PROVE  TypeOK'
    BY <2>3 DEF Cooperate, Checkpoint
  <2>4. ASSUME NEW t \in Threads, Proceed(t)
        PROVE  TypeOK'
    <3>1. CASE RunUnit(t) \/ YieldToForeground(t) \/ BriefWaitEnds(t) \/ Park(t)
      BY <3>1 DEF RunUnit, YieldToForeground, BriefWaitEnds, Park, FairnessDue
    <3>2. CASE YieldToMotion(t)
      <4>1. Started(yieldStart) \in 0 .. MaxDeferral
        BY DEF Started
      <4>2. QED
        BY <3>2, <4>1 DEF YieldToMotion
    <3>3. CASE Recheck(t) \/ FallAsleep(t) \/ SliceEnds(t) \/ Relock(t)
      BY <3>3 DEF Recheck, FallAsleep, SliceEnds, Relock
    <3>4. QED
      BY <2>4, <3>1, <3>2, <3>3 DEF Proceed
  <2>5. CASE Tick
    <3>1. \A age \in Ages : Older(age) \in Ages /\ (age # NotStarted => Older(age) # NotStarted)
      BY DEF Older
    <3>2. began' \in [Threads -> 0 .. MaxDeferral]
      BY <2>5, <3>1 DEF Tick
    <3>3. QED
      BY <2>5, <3>1, <3>2 DEF Tick
  <2>6. CASE UNCHANGED vars
    BY <2>6 DEF vars
  <2>7. QED
    BY <2>1, <2>2, <2>3, <2>4, <2>5, <2>6 DEF Next
<1>3. QED
  BY <1>1, <1>2

(* A thread that stands between its test of the motion signal and its     *)
(* wait is alone at its gate.                                             *)
LEMMA Alone ==
    ASSUME TypeOK, Holding, NEW t \in Threads, NEW g \in Gates, Free(g), Gate(t) = g
    PROVE  pc[t] \notin {"check", "enter"}
BY ArbitrationAssumption DEF Holding, Free

(* The steps of a thread keep the mutexes held and the notification of    *)
(* whoever waits ahead of it.                                             *)
LEMMA ProceedKeeps ==
    ASSUME TypeOK, Holding, WakeAhead, NEW t \in Threads, Proceed(t)
    PROVE  Holding' /\ WakeAhead'
<1> USE ArbitrationAssumption
    DEF TypeOK, Holding, WakeAhead, Goto, Take, Release, Gate, Gates, Free, coordinator
<1>1. CASE RunUnit(t) \/ YieldToForeground(t) \/ BriefWaitEnds(t)
  BY <1>1 DEF RunUnit, YieldToForeground, BriefWaitEnds
<1>2. CASE t \in Prefetchers /\ YieldToMotion(t)
  <2>1. Gate(t) = "work"
    BY <1>2 DEF Coordinated
  <2>2. \A u \in Threads : Gate(u) = "work" => pc[u] \notin {"check", "enter"}
    BY <1>2, Alone DEF YieldToMotion
  <2>3. QED
    BY <1>2, <2>1, <2>2 DEF YieldToMotion
<1>3. CASE t \in Scopes /\ Park(t)
  BY <1>3, Alone DEF Park
<1>4. CASE Recheck(t)
  BY <1>4 DEF Recheck, MustWait
<1>5. CASE FallAsleep(t)
  BY <1>5 DEF FallAsleep
<1>6. CASE SliceEnds(t)
  BY <1>6 DEF SliceEnds
<1>7. CASE Relock(t)
  BY <1>7, Alone DEF Relock
<1>8. QED
  BY <1>1, <1>2, <1>3, <1>4, <1>5, <1>6, <1>7 DEF Proceed

(* The frame loop's wake-ups reach everybody who waits for them.          *)
LEMMA WakeKeeps ==
    ASSUME TypeOK, Holding, WakeAhead, Wake
    PROVE  Holding' /\ WakeAhead'
<1> USE DEF TypeOK, Holding, WakeAhead, Notify, Gate, Gates, coordinator
<1>1. CASE LockParked
  BY <1>1, Alone DEF LockParked
<1>2. CASE NotifyParked
  BY <1>2 DEF NotifyParked
<1>3. CASE WakeMotionWaiters
  BY <1>3, Alone DEF WakeMotionWaiters
<1>4. QED
  BY <1>1, <1>2, <1>3 DEF Wake

THEOREM ArbitrationInvariantHolds == Safety => []ArbitrationInvariant
<1>1. Init => ArbitrationInvariant
  BY TypeInductive DEF Init, ArbitrationInvariant, Holding, WakeAhead
<1>2. ASSUME ArbitrationInvariant, [Next]_vars PROVE ArbitrationInvariant'
  <2>1. TypeOK /\ Holding /\ WakeAhead
    BY <1>2 DEF ArbitrationInvariant
  <2>2. TypeOK'
    BY <1>2, <2>1, TypeInductive
  <2> USE <2>1 DEF TypeOK, Holding, WakeAhead, Goto, Notify, Gate, coordinator
  <2>3. CASE StartMotion \/ EndMotion
    BY <2>3, <2>2 DEF StartMotion, EndMotion, ArbitrationInvariant
  <2>4. CASE Wake
    BY <2>4, <2>2, WakeKeeps DEF ArbitrationInvariant
  <2>5. ASSUME NEW f \in Foregrounds, AcquireForeground(f) \/ ReleaseForeground(f)
        PROVE  ArbitrationInvariant'
    BY <2>5, <2>2 DEF AcquireForeground, ReleaseForeground, ArbitrationInvariant
  <2>6. ASSUME NEW t \in Threads, Cooperate(t) \/ Checkpoint(t)
        PROVE  ArbitrationInvariant'
    BY <2>6, <2>2 DEF Cooperate, Checkpoint, ArbitrationInvariant
  <2>7. ASSUME NEW t \in Threads, Proceed(t)
        PROVE  ArbitrationInvariant'
    BY <2>7, <2>2, ProceedKeeps DEF ArbitrationInvariant
  <2>8. CASE Tick \/ UNCHANGED vars
    BY <2>8, <2>2 DEF Tick, vars, ArbitrationInvariant
  <2>9. QED
    BY <1>2, <2>3, <2>4, <2>5, <2>6, <2>7, <2>8 DEF Next, Threads
<1>3. QED
  BY <1>1, <1>2, PTL DEF Safety

(* Type correctness of the work arbitration. *)
THEOREM ArbitrationTypeCorrect == Safety => []TypeOK
BY ArbitrationInvariantHolds, PTL DEF ArbitrationInvariant

(* No wake-up is lost: after the end of motion was published no unit      *)
(* waits for it, whatever it tested before (set_active, wake_parked and   *)
(* wake_motion_waiters against the two waiting loops).                    *)
THEOREM NoLostWakeupCorrect == Safety => []NoLostWakeup
<1>1. ArbitrationInvariant => NoLostWakeup
  BY DEF ArbitrationInvariant, WakeAhead, NoLostWakeup, Threads, Coordinated
<1>2. QED
  BY <1>1, ArbitrationInvariantHolds, PTL
=============================================================================
