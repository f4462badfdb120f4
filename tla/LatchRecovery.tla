--------------------------- MODULE LatchRecovery ---------------------------
(***************************************************************************)
(* What happens to a frozen display: LatchRecoveryController retries the  *)
(* presenter a bounded number of times with growing delays and then asks  *)
(* Main_MiSTer to restart the launcher (launcher_present/orchestrator.rs, *)
(* launcher_loop/frame_loop.rs, launcher.rs).  LatchSlots has the same    *)
(* freeze and reopen as PlanFails ... AwaitFails and Reopen; here is when *)
(* and how often they happen.                                             *)
(*                                                                        *)
(* One frame of the loop is: retry if it is time, hand a restart request  *)
(* over, present.  A retry is made within one call, so its InProgress     *)
(* state is never seen between steps.                                     *)
(***************************************************************************)
EXTENDS Integers

CONSTANTS MaxRetries,  \* MAX_AUTO_RETRY_ATTEMPTS
          Delay        \* Delay[n]: ticks before the retry that follows n others

ASSUME DelayAssumption ==
    /\ MaxRetries \in Nat
    /\ Delay \in [0 .. MaxRetries - 1 -> Nat]

VARIABLES
    at,         \* where the frame loop stands
    presenter,  \* LauncherPresenterState: live or frozen
    attempts,   \* retry_attempts
    autoRetry,  \* LatchAutoRetryState
    due,        \* ticks until next_retry_at
    requested,  \* supervised_restart_requested
    claimed,    \* the process-wide REQUESTED flag
    command     \* the restart command: none, sent to Main or lost

recovery == <<presenter, attempts, autoRetry, due, requested>>
escalation == <<claimed, command>>
vars == <<at, presenter, attempts, autoRetry, due, requested, claimed, command>>

NoDeadline == -1

TypeOK ==
    /\ at \in {"retry", "restart", "present"}
    /\ presenter \in {"live", "frozen"}
    /\ attempts \in 0 .. MaxRetries
    /\ autoRetry \in {"disabled", "ready"}
    /\ due \in Nat \union {NoDeadline}
    /\ requested \in BOOLEAN /\ claimed \in BOOLEAN
    /\ command \in {"none", "sent", "lost"}

(* Mutant: a failure that cannot be retried leaves the retry armed. *)
TerminalFailureArmed ==
    /\ UNCHANGED <<autoRetry, due>>
    /\ requested' = TRUE

(* The failures that a retry cannot mend, or the retries are used up.     *)
TerminalFailure ==
    /\ autoRetry' = "disabled" /\ due' = NoDeadline
    /\ requested' = TRUE

(* Mutant: the last failed retry neither retries nor escalates. *)
RecordFailureSilently(transient, tries) ==
    /\ presenter' = "frozen"
    /\ IF transient
       THEN /\ IF tries < MaxRetries
               THEN autoRetry' = "ready" /\ due' = Delay[tries]
               ELSE autoRetry' = "disabled" /\ due' = NoDeadline
            /\ UNCHANGED requested
       ELSE TerminalFailure

(* record_failure, after tries retries. *)
RecordFailure(transient, tries) ==
    /\ presenter' = "frozen"
    /\ IF transient /\ tries < MaxRetries
       THEN /\ autoRetry' = "ready" /\ due' = Delay[tries]
            /\ UNCHANGED requested
       ELSE TerminalFailure

(* A launcher process starts: its presenter opens, or fails to.           *)
Init ==
    /\ at = "retry" /\ attempts = 0
    /\ claimed = FALSE /\ command = "none"
    /\ \/ presenter = "live" /\ autoRetry = "disabled" /\ due = NoDeadline
          /\ requested = FALSE
       \/ presenter = "frozen" /\ autoRetry = "ready" /\ MaxRetries > 0
          /\ due = Delay[0] /\ requested = FALSE
       \/ presenter = "frozen" /\ autoRetry = "disabled" /\ due = NoDeadline
          /\ requested = TRUE

-----------------------------------------------------------------------------
(* Mutant: neither the budget nor a missing deadline holds a retry back. *)
RetryDueUnbounded == due <= 0

(* Mutant: the last retry of the budget is never begun. *)
RetryDueOffByOne == autoRetry = "ready" /\ attempts + 1 < MaxRetries /\ due = 0

(* begin_retry *)
RetryDue == autoRetry = "ready" /\ attempts < MaxRetries /\ due = 0

RetrySkipped ==
    /\ at = "retry" /\ ~RetryDue
    /\ at' = "restart"
    /\ UNCHANGED <<recovery, escalation>>

RetrySucceeds ==
    /\ at = "retry" /\ RetryDue
    /\ attempts' = attempts + 1
    /\ presenter' = "live" /\ autoRetry' = "disabled" /\ due' = NoDeadline
    /\ at' = "restart"
    /\ UNCHANGED <<requested, escalation>>

RetryFails(transient) ==
    /\ at = "retry" /\ RetryDue
    /\ attempts' = attempts + 1
    /\ RecordFailure(transient, attempts + 1)
    /\ at' = "restart"
    /\ UNCHANGED escalation

NoRequest ==
    /\ at = "restart" /\ ~requested
    /\ at' = "present"
    /\ UNCHANGED <<recovery, escalation>>

(* take_supervised_restart_request, request_supervised_launcher_restart:  *)
(* only the first request of a process is sent, and sending may fail.     *)
TakeRequest(outcome) ==
    /\ at = "restart" /\ requested
    /\ requested' = FALSE
    /\ claimed' = TRUE
    /\ command' = IF claimed THEN command ELSE outcome
    /\ at' = "present"
    /\ UNCHANGED <<presenter, attempts, autoRetry, due>>

PresentFine ==
    /\ at = "present"
    /\ at' = "retry"
    /\ UNCHANGED <<recovery, escalation>>

(* Any failure of a live presenter: planning, copying, posting, waiting.  *)
PresentFails(transient) ==
    /\ at = "present" /\ presenter = "live"
    /\ RecordFailure(transient, attempts)
    /\ at' = "retry"
    /\ UNCHANGED <<attempts, escalation>>

(* Time passes.  It matters only while a deadline lies ahead. *)
Tick ==
    /\ due > 0
    /\ due' = due - 1
    /\ UNCHANGED <<at, presenter, attempts, autoRetry, requested, escalation>>

(* Main_MiSTer ends the process and starts a new one. *)
MainRestarts ==
    /\ command = "sent"
    /\ at' = "retry" /\ attempts' = 0
    /\ claimed' = FALSE /\ command' = "none"
    /\ \/ /\ presenter' = "live" /\ autoRetry' = "disabled" /\ due' = NoDeadline
          /\ requested' = FALSE
       \/ \E transient \in BOOLEAN :
             /\ presenter' = "frozen"
             /\ IF transient /\ MaxRetries > 0
                THEN autoRetry' = "ready" /\ due' = Delay[0] /\ requested' = FALSE
                ELSE TerminalFailure

Loop ==
    \/ RetrySkipped \/ RetrySucceeds \/ \E transient \in BOOLEAN : RetryFails(transient)
    \/ NoRequest \/ \E outcome \in {"sent", "lost"} : TakeRequest(outcome)
    \/ PresentFine \/ \E transient \in BOOLEAN : PresentFails(transient)

Next == Loop \/ Tick \/ MainRestarts

Safety == Init /\ [][Next]_vars

(* The loop runs on: an idle iteration sleeps no longer than a frame      *)
(* period or a timer; and the clock advances.                             *)
Spec == Safety /\ WF_vars(Loop) /\ WF_vars(Tick)
-----------------------------------------------------------------------------
(* A frozen display is always somebody's business: a retry is scheduled,  *)
(* or the supervised restart is requested or has been handed over.  No    *)
(* path through record_failure and begin_retry leaves it to nobody.       *)
FrozenIsCovered ==
    presenter = "frozen" =>
        \/ autoRetry = "ready" /\ due # NoDeadline /\ attempts < MaxRetries
        \/ requested
        \/ claimed

(* The process-wide REQUESTED flag never swallows a request: the one that *)
(* sets it is the last one the controller of that process makes.          *)
RequestNotSwallowed == requested => ~claimed

(* A frozen display does not stay so for ever unless the restart command  *)
(* was handed over: the retries are bounded and each comes in time.       *)
RecoversOrEscalates == presenter = "frozen" ~> (presenter = "live" \/ command # "none")
=============================================================================
