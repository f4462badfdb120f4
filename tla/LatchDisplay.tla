---------------------------- MODULE LatchDisplay ----------------------------
(***************************************************************************)
(* What the launcher promises a viewer: every frame the latch shows, or   *)
(* is about to show, is a whole frame.  Pixels are never written into a   *)
(* slot the scaler reads, nor into one that already waits for the blank.  *)
(***************************************************************************)
VARIABLES shown,   \* what is on screen: a frame or another owner's output
          coming   \* what the next vertical blank brings

displayVars == <<shown, coming>>

Init ==
    /\ shown \in {"off", "foreign"}
    /\ coming = "none"

(* A finished frame is handed over, only when no other is waiting. *)
Submit ==
    /\ coming = "none"
    /\ coming' = "whole"
    /\ UNCHANGED shown

Flip ==
    /\ coming = "whole"
    /\ shown' = "whole"
    /\ coming' = "none"

Takeover ==
    /\ shown' \in {"off", "foreign"}
    /\ coming' = "none"

Next == Submit \/ Flip \/ Takeover

Spec == Init /\ [][Next]_displayVars
=============================================================================
