------------------------ MODULE LatchRecoveryProofs ------------------------
(***************************************************************************)
(* Whatever the number of retries and their delays, a frozen display is   *)
(* somebody's business and no restart request is swallowed.  The          *)
(* strengthening: a request, made or handed over, is the end of the       *)
(* process's presenter, because a disabled retry never starts again.      *)
(***************************************************************************)
EXTENDS LatchRecovery, TLAPS

Escalated == requested \/ claimed

(* FrozenIsCovered and RequestNotSwallowed need that only a frozen        *)
(* presenter is ever retried and that an escalated one never is.          *)
RecoveryInvariant ==
    /\ TypeOK
    /\ FrozenIsCovered
    /\ RequestNotSwallowed
    /\ Escalated => presenter = "frozen" /\ autoRetry = "disabled"
    /\ autoRetry = "ready" =>
          presenter = "frozen" /\ due # NoDeadline /\ attempts < MaxRetries

(* The first of LATCH_RETRY_DELAYS is a delay, if there is one.           *)
LEMMA FirstDelay == MaxRetries > 0 => Delay[0] \in Nat /\ Delay[0] # NoDeadline
<1>. SUFFICES ASSUME MaxRetries > 0
              PROVE  Delay[0] \in Nat /\ Delay[0] # NoDeadline
  OBVIOUS
<1>1. 0 \in 0 .. MaxRetries - 1
  BY DelayAssumption
<1>2. Delay[0] \in Nat
  BY <1>1, DelayAssumption
<1>. QED BY <1>2 DEF NoDeadline

(* A new process starts covered: live, or frozen with a retry or a        *)
(* request (LauncherPresenter::new).                                      *)
LEMMA RecoveryInit == Init => RecoveryInvariant
<1>. SUFFICES ASSUME Init PROVE RecoveryInvariant
  OBVIOUS
<1>. USE DEF RecoveryInvariant, TypeOK, FrozenIsCovered, RequestNotSwallowed,
             Escalated, NoDeadline
<1>1. MaxRetries \in Nat /\ 0 \in 0 .. MaxRetries
  BY DelayAssumption
<1>2. CASE presenter = "live" /\ autoRetry = "disabled" /\ due = NoDeadline
           /\ requested = FALSE
  BY <1>1, <1>2 DEF Init
<1>3. CASE presenter = "frozen" /\ autoRetry = "ready" /\ MaxRetries > 0
           /\ due = Delay[0] /\ requested = FALSE
  BY <1>1, <1>3, FirstDelay DEF Init
<1>4. CASE presenter = "frozen" /\ autoRetry = "disabled" /\ due = NoDeadline
           /\ requested = TRUE
  BY <1>1, <1>4 DEF Init
<1>. QED BY <1>2, <1>3, <1>4 DEF Init

(* record_failure leaves the display covered, whatever failed.            *)
LEMMA FailureCovered ==
    ASSUME NEW transient \in BOOLEAN, NEW tries \in 0 .. MaxRetries,
           RecordFailure(transient, tries),
           requested \in BOOLEAN
    PROVE  /\ presenter' = "frozen"
           /\ \/ /\ autoRetry' = "ready" /\ tries < MaxRetries
                 /\ due' \in Nat /\ requested' = requested
              \/ autoRetry' = "disabled" /\ due' = NoDeadline /\ requested' = TRUE
<1>1. CASE transient /\ tries < MaxRetries
  <2>1. tries \in 0 .. MaxRetries - 1
    BY <1>1, DelayAssumption
  <2>2. Delay[tries] \in Nat
    BY <2>1, DelayAssumption
  <2>. QED BY <1>1, <2>2 DEF RecordFailure
<1>2. CASE ~(transient /\ tries < MaxRetries)
  BY <1>2 DEF RecordFailure, TerminalFailure
<1>. QED BY <1>1, <1>2

(* Each step of the loop, of the clock and of Main keeps the display      *)
(* covered and its request unswallowed.                                   *)
LEMMA RecoveryStep == RecoveryInvariant /\ [Next]_vars => RecoveryInvariant'
<1>. SUFFICES ASSUME RecoveryInvariant, [Next]_vars
              PROVE  RecoveryInvariant'
  OBVIOUS
<1>. USE DEF RecoveryInvariant, TypeOK, FrozenIsCovered, RequestNotSwallowed,
             Escalated, NoDeadline
<1>1. CASE RetrySkipped
  BY <1>1 DEF RetrySkipped, recovery, escalation
<1>2. CASE RetrySucceeds
  BY <1>2, DelayAssumption DEF RetrySucceeds, RetryDue, escalation
<1>3. ASSUME NEW transient \in BOOLEAN, RetryFails(transient)
      PROVE  RecoveryInvariant'
  <2>1. attempts + 1 \in 0 .. MaxRetries
    BY <1>3, DelayAssumption DEF RetryFails, RetryDue
  <2>2. RecordFailure(transient, attempts + 1)
    BY <1>3 DEF RetryFails
  <2>3. requested' \in BOOLEAN /\ presenter' = "frozen"
    BY <2>1, <2>2, FailureCovered
  <2>. HIDE DEF NoDeadline
  <2>4. \/ /\ autoRetry' = "ready" /\ attempts + 1 < MaxRetries
           /\ due' \in Nat /\ requested' = requested
        \/ autoRetry' = "disabled" /\ due' = NoDeadline /\ requested' = TRUE
    BY <2>1, <2>2, FailureCovered
  <2>. USE DEF NoDeadline
  <2>5. ~Escalated
    BY <1>3 DEF RetryFails, RetryDue
  <2>. QED BY <1>3, <2>1, <2>3, <2>4, <2>5 DEF RetryFails, escalation
<1>4. CASE NoRequest
  BY <1>4 DEF NoRequest, recovery, escalation
<1>5. ASSUME NEW outcome \in {"sent", "lost"}, TakeRequest(outcome)
      PROVE  RecoveryInvariant'
  BY <1>5 DEF TakeRequest
<1>6. CASE PresentFine
  BY <1>6 DEF PresentFine, recovery, escalation
<1>7. ASSUME NEW transient \in BOOLEAN, PresentFails(transient)
      PROVE  RecoveryInvariant'
  <2>1. RecordFailure(transient, attempts) /\ ~Escalated
    BY <1>7 DEF PresentFails
  <2>2. presenter' = "frozen"
    BY <2>1, FailureCovered
  <2>3. \/ /\ autoRetry' = "ready" /\ attempts < MaxRetries
           /\ due' \in Nat /\ requested' = requested
        \/ autoRetry' = "disabled" /\ due' = NoDeadline /\ requested' = TRUE
    BY <2>1, FailureCovered
  <2>4. /\ at' = "retry" /\ attempts' = attempts
        /\ claimed' = claimed /\ command' = command
    BY <1>7 DEF PresentFails, escalation
  <2>5. CASE /\ autoRetry' = "ready" /\ attempts < MaxRetries
             /\ due' \in Nat /\ requested' = requested
    BY <2>1, <2>2, <2>4, <2>5
  <2>6. CASE autoRetry' = "disabled" /\ due' = NoDeadline /\ requested' = TRUE
    BY <2>1, <2>2, <2>4, <2>6
  <2>. QED BY <2>3, <2>5, <2>6
<1>8. CASE Tick
  BY <1>8 DEF Tick, escalation
<1>9. CASE MainRestarts
  <2>1. 0 \in 0 .. MaxRetries /\ MaxRetries \in Nat
    BY DelayAssumption
  <2>2. \/ presenter' = "live" /\ autoRetry' = "disabled" /\ due' = NoDeadline
           /\ requested' = FALSE
        \/ presenter' = "frozen" /\ autoRetry' = "ready" /\ MaxRetries > 0
           /\ due' = Delay[0] /\ requested' = FALSE
        \/ presenter' = "frozen" /\ autoRetry' = "disabled" /\ due' = NoDeadline
           /\ requested' = TRUE
    BY <1>9 DEF MainRestarts, TerminalFailure
  <2>3. at' = "retry" /\ attempts' = 0 /\ claimed' = FALSE /\ command' = "none"
    BY <1>9 DEF MainRestarts
  <2>4. CASE presenter' = "live" /\ autoRetry' = "disabled" /\ due' = NoDeadline
             /\ requested' = FALSE
    BY <2>1, <2>3, <2>4
  <2>5. CASE presenter' = "frozen" /\ autoRetry' = "ready" /\ MaxRetries > 0
             /\ due' = Delay[0] /\ requested' = FALSE
    BY <2>1, <2>3, <2>5, FirstDelay
  <2>6. CASE presenter' = "frozen" /\ autoRetry' = "disabled" /\ due' = NoDeadline
             /\ requested' = TRUE
    BY <2>1, <2>3, <2>6
  <2>. QED BY <2>2, <2>4, <2>5, <2>6
<1>10. CASE UNCHANGED vars
  BY <1>10 DEF vars
<1>. HIDE DEF RecoveryInvariant
<1>. QED
  BY <1>1, <1>2, <1>3, <1>4, <1>5, <1>6, <1>7, <1>8, <1>9, <1>10 DEF Next, Loop

(* Retry counter, deadline and flags keep their types: attempts never     *)
(* passes MAX_AUTO_RETRY_ATTEMPTS.                                        *)
THEOREM RecoveryTypeCorrect == Spec => []TypeOK
<1>1. RecoveryInvariant => TypeOK
  BY DEF RecoveryInvariant
<1>. QED BY RecoveryInit, RecoveryStep, <1>1, PTL DEF Spec, Safety

(* A frozen display always has a retry scheduled or a supervised restart  *)
(* requested (record_failure, begin_retry).                               *)
THEOREM FrozenIsCoveredCorrect == Spec => []FrozenIsCovered
<1>1. RecoveryInvariant => FrozenIsCovered
  BY DEF RecoveryInvariant
<1>. QED BY RecoveryInit, RecoveryStep, <1>1, PTL DEF Spec, Safety

(* The REQUESTED flag of request_supervised_launcher_restart never drops  *)
(* a request of the process that set it.                                  *)
THEOREM RequestNotSwallowedCorrect == Spec => []RequestNotSwallowed
<1>1. RecoveryInvariant => RequestNotSwallowed
  BY DEF RecoveryInvariant
<1>. QED BY RecoveryInit, RecoveryStep, <1>1, PTL DEF Spec, Safety
=============================================================================
