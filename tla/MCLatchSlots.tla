---------------------------- MODULE MCLatchSlots ----------------------------
(***************************************************************************)
(* Small layouts for LatchSlots: a cell under the preview and a cell      *)
(* under the list; each shows the base while its layer is hidden.  In     *)
(* landscape only the preview is published, in portrait both layers are.  *)
(***************************************************************************)
EXTENDS LatchSlots

CONSTANTS p, a

MCCells     == {p, a}
MCLayerRect == [r \in Roles |-> IF r = "preview" THEN {p} ELSE {a}]
Landscape   == {"preview"}
Portrait    == {"preview", "arcade"}

(* The list alone, on every path. *)
ListNext ==
    \/ \E D \in SUBSET Cells \ {{}} : RenderBase(D)
    \/ LayerContent("arcade") \/ LayerShow("arcade") \/ LayerHide("arcade")
    \/ \E o \in Offsets : ListScroll(o)
    \/ Present \/ DirectPath \/ Flip \/ Takeover
ListSpec == Init /\ [][ListNext]_vars

(* Home frames alone, every post confirmed: what a new input does to the  *)
(* obligation of a raster that it interrupts.                             *)
HomeFrame ==
    \/ \E D \in SUBSET Cells \ {{}} : RenderBase(D)
    \/ Submit \/ PlanNext({}) \/ Compose(FALSE) \/ PostConfirmed \/ AwaitDone
    \/ Flip
HomeYieldSpec == Init /\ [][HomeFrame \/ PreemptRaster \/ YieldAfterTake]_vars
=============================================================================
