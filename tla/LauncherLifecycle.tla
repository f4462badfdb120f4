------------------------- MODULE LauncherLifecycle -------------------------
(***************************************************************************)
(* The two charts of launcher_runtime/lifecycle.rs, as functions of the     *)
(* state a handler finds to the state it leaves: the lifecycle proper       *)
(* (catalog, launch, handoff) and the reveal of the first picture.  An      *)
(* input that a state does not take leaves it as it is.                     *)
(*                                                                          *)
(* CatalogReady is only ever left standing while a validation runs ("ready")*)
(* and becomes Idle otherwise; "exited" is the end of the process.          *)
(***************************************************************************)

Lives == {"building", "retrying", "failed", "ready", "idle",
          "launching", "handoff", "recovered", "exited"}

Modes   == {"cold", "warm", "return"}
Reveals == {"progress", "holdBlack", "hydrate", "waitPreview", "reveal", "enabled"}

(* What the dialog of CatalogLoadFailed offers: why it was opened, and     *)
(* whether a catalog is left to continue with.  Load and persistence       *)
(* failures differ in wording only.                                        *)
Causes  == {"upgrade", "transient", "final"}
Dialogs == [cause : Causes, stale : BOOLEAN]

(* What stands for the dialog where none is open.                          *)
NoDialog == [cause |-> "final", stale |-> FALSE]

(* The states in which catalog events count.                               *)
Catalogued == {"building", "retrying", "ready", "idle"}

(* Mutant: a failure is taken in every state but its own. *)
TakesFailureAlways(life) == life \notin {"failed", "exited"}

TakesFailure(life) == life \in Catalogued

AfterCatalogReady(life)  == IF life \in Catalogued THEN "idle" ELSE life
AfterFailure(life)       == IF TakesFailure(life) THEN "failed" ELSE life
AfterBuilding(life)      == IF life \in Catalogued \ {"retrying"} THEN "building" ELSE life
AfterValidation(life)    == IF life = "ready" THEN "idle" ELSE life
AfterLaunchFailed(life)  == IF life = "launching" THEN "recovered" ELSE life
AfterLaunchSucceeded(life) == IF life = "launching" THEN "handoff" ELSE life

(* LaunchRequested: only with the catalog settled and input enabled.       *)
TakesLaunch(life, reveal) == life \in {"idle", "ready"} /\ reveal = "enabled"

(* CatalogRecoveryMode::action.                                            *)
RecoveryAction(d, choice) ==
    CASE choice = "left"  /\ d.stale                       -> "continue"
      [] choice = "left"  /\ ~d.stale /\ d.cause = "transient" -> "retry"
      [] choice = "left"  /\ ~d.stale /\ d.cause # "transient" -> "exit"
      [] choice = "right" /\ d.stale /\ d.cause = "upgrade"    -> "rebuild"
      [] choice = "right" /\ ~(d.stale /\ d.cause = "upgrade") -> "fresh"

-----------------------------------------------------------------------------
(* The reveal.                                                             *)

CanPresent(reveal) == reveal \in {"progress", "reveal", "enabled"}

(* begin_startup_reveal *)
FirstReveal(mode) == CASE mode = "cold"   -> "progress"
                       [] mode = "warm"   -> "reveal"
                       [] mode = "return" -> "holdBlack"

MarkReady(reveal) == IF reveal = "enabled" THEN "enabled" ELSE "reveal"

HydrationNeeded(reveal) == IF reveal = "holdBlack" THEN "hydrate" ELSE reveal

(* Mutant: the context is restored whatever is on the screen. *)
EmitsRestoredAlways(mode, reveal) == mode = "return"

(* emit_return_context_restored: not once the input is enabled.            *)
EmitsRestored(mode, reveal) == mode = "return" /\ reveal # "enabled"

ContextRestored(mode, reveal, previewMissing) ==
    IF EmitsRestored(mode, reveal)
    THEN IF previewMissing THEN "waitPreview" ELSE "reveal"
    ELSE reveal

(* The five seconds of black that a return may take.                       *)
BlackTimeout(mode, reveal, late) == mode = "return" /\ late /\ ~CanPresent(reveal)

(* Mutant: the black deadline only counts while a preview is awaited. *)
TickPreviewOnly(mode, reveal, late, ready) ==
    IF \/ BlackTimeout(mode, reveal, late) /\ reveal = "waitPreview"
       \/ reveal = "progress" /\ (ready \/ (mode = "cold" /\ late))
    THEN "reveal" ELSE reveal

(* tick_startup_reveal; the preview's own timeout is an action of the loop.*)
Tick(mode, reveal, late, ready) ==
    IF \/ BlackTimeout(mode, reveal, late)
       \/ reveal = "progress" /\ (ready \/ (mode = "cold" /\ late))
    THEN "reveal" ELSE reveal
=============================================================================
