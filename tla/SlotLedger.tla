----------------------------- MODULE SlotLedger -----------------------------
(***************************************************************************)
(* The bookkeeping of the two hidden scanout slots (TwoBufferLatchState   *)
(* and TwoSlotDamageLedger, framebuffer/latch_state.rs and damage.rs):    *)
(* what each slot owes to the cached base frame, which physical layers    *)
(* and publications it holds, and the plan that brings one of them up to  *)
(* date.  Everything here is a function of a ledger value; LatchSlots     *)
(* gives it a state, a compositor and a device.                           *)
(*                                                                        *)
(* Cells are the smallest regions the properties tell apart: a rectangle  *)
(* is a set of cells.  Versions and publication generations are counters  *)
(* that only grow and are only compared with the ones the launcher wants  *)
(* now, so a slot's copy of one is "now" or "old".                        *)
(***************************************************************************)
EXTENDS Naturals

CONSTANTS
    Cells,       \* regions of the composition
    LayerRect,   \* LayerRect[r]: the cells a physical layer covers
    Published,   \* roles whose pixels come as immutable publications
    Offsets      \* scroll positions of a layer's content

Roles == {"preview", "arcade"}
Slots == {1, 2}

ASSUME LayoutAssumption ==
    /\ LayerRect \in [Roles -> SUBSET Cells]
    /\ LayerRect["preview"] \intersect LayerRect["arcade"] = {}
    /\ Published \subseteq Roles
    /\ 0 \in Offsets

(* PhysicalLayerState or None.  What scroll position an old version was   *)
(* at is never asked.                                                     *)
NoLayer  == [version |-> "none", offset |-> 0]
OldLayer == [version |-> "old",  offset |-> 0]
Current(offset) == [version |-> "now", offset |-> offset]

LayerStates  == {NoLayer, OldLayer} \union {Current(o) : o \in Offsets}
HeldLayers   == [Roles -> LayerStates]
Publications == [Roles -> {"none", "old", "now"}]
NoLayers       == [r \in Roles |-> NoLayer]
NoPublications == [r \in Roles |-> "none"]

Ledgers == [debt    : [Slots -> SUBSET Cells],
            held    : [Slots -> HeldLayers],
            heldPub : [Slots -> Publications],
            next    : Slots]

(* A new presenter, and every loss of coherency, owes both slots all.     *)
FreshLedger ==
    [debt    |-> [s \in Slots |-> Cells],
     held    |-> [s \in Slots |-> NoLayers],
     heldPub |-> [s \in Slots |-> NoPublications],
     next    |-> 1]

(* Role r gets a new version: every slot's record of it is an old one.    *)
AgeVersion(L, r) ==
    [L EXCEPT !.held = [s \in Slots |->
        IF L.held[s][r].version = "now" THEN [L.held[s] EXCEPT ![r] = OldLayer]
                                        ELSE L.held[s]]]

(* Mutant: the generation of a new publication is not compared. *)
AgePublicationNever(L, r) == L

(* Role r gets a new publication. *)
AgePublication(L, r) ==
    [L EXCEPT !.heldPub = [s \in Slots |->
        IF L.heldPub[s][r] = "now" THEN [L.heldPub[s] EXCEPT ![r] = "old"]
                                   ELSE L.heldPub[s]]]

(* Mutant: the slot index is not wrapped. *)
OtherSlotUnwrapped(s) == s + 1

OtherSlot(s) == 3 - s

(* Mutant: damage is recorded only for the slot that is drawn next. *)
RecordDamageOnce(L, damage, overflow) ==
    [L EXCEPT !.debt[L.next] = IF L.next \in overflow THEN Cells ELSE @ \union damage]

(* extend_canonical keeps a bounded list of rectangles and falls back to  *)
(* the full frame when it overflows, so a debt may also jump to Cells.    *)
RecordDamage(L, damage, overflow) ==
    [L EXCEPT !.debt = [s \in Slots |-> IF s \in overflow THEN Cells
                                        ELSE L.debt[s] \union damage]]

(* Mutant: the preferred slot is taken without asking the hardware. *)
SelectSlotBlindly(L, scan) == L.next

(* select_writable_slot, when nothing is pending: the preferred slot      *)
(* unless the hardware scans it out.                                      *)
SelectSlot(L, scan) == IF L.next # scan THEN L.next ELSE OtherSlot(L.next)

(***************************************************************************)
(* plan_for_slot.  A request is what the frame wants: for each role the   *)
(* desired layer, its publication and the update of this frame.           *)
(***************************************************************************)
Updates  == {"none", "full", "scroll"}
Requests == [desired : HeldLayers, pub : Publications, update : [Roles -> Updates]]

(* Mutant: a layer that left the frame is not restored. *)
NeedsRestoreChanged(L, s, req, r) ==
    /\ L.held[s][r].version \notin {"none", req.desired[r].version}
    /\ req.desired[r].version # "none"

(* A recorded layer that is not wanted any more, or not in this version.  *)
NeedsRestore(L, s, req, r) ==
    /\ L.held[s][r].version # "none"
    /\ L.held[s][r].version # req.desired[r].version

RestoreCells(L, s, req) ==
    L.debt[s] \union
        UNION {LayerRect[r] : r \in {q \in Roles : NeedsRestore(L, s, req, q)}}

IntersectsRestore(L, s, req, r) ==
    LayerRect[r] \intersect RestoreCells(L, s, req) # {}

PublicationChanged(L, s, req, r) ==
    r \in Published /\ L.heldPub[s][r] # req.pub[r]

(* Mutant: publication generations do not force a copy. *)
RequiresFullNever(L, s, req, r) == FALSE

(* An unchanged layer whose slot copy is older than the publication, in a *)
(* frame that carries no update of it.                                    *)
RequiresFull(L, s, req, r) ==
    PublicationChanged(L, s, req, r) /\ req.update[r] = "none"

(* direct_layer_redraw_rect and direct_layer_redraw_update: every update  *)
(* covers the whole layer rectangle; a scroll only changes how it is      *)
(* copied.                                                                *)
Redraw(L, s, req, r) ==
    LET held == L.held[s][r]
        want == req.desired[r]
    IN  IF want = NoLayer THEN "none"
        ELSE IF \/ RequiresFull(L, s, req, r)
                \/ req.update[r] = "full"
                \/ held.version # want.version
             THEN "full"
        ELSE IF held.offset # want.offset THEN "scroll"
        ELSE IF IntersectsRestore(L, s, req, r) THEN "full"
        ELSE req.update[r]

(* Mutant: the version the slot holds is not compared. *)
DiffSafeUnversioned(L, s, req, r) ==
    /\ ~IntersectsRestore(L, s, req, r)
    /\ ~RequiresFull(L, s, req, r)
    /\ req.desired[r] # NoLayer

(* Whether a sparse copy may trust the mirror of the slot's old pixels.   *)
DiffSafe(L, s, req, r) ==
    /\ ~IntersectsRestore(L, s, req, r)
    /\ ~RequiresFull(L, s, req, r)
    /\ req.desired[r] # NoLayer
    /\ L.held[s][r].version = req.desired[r].version

(* mark_post_success: the slot now holds the frame, pub is what the plan  *)
(* still remembers of the publications.                                   *)
PostSuccess(L, s, desired, pub) ==
    [debt    |-> [L.debt    EXCEPT ![s] = {}],
     held    |-> [L.held    EXCEPT ![s] = desired],
     heldPub |-> [L.heldPub EXCEPT ![s] = pub],
     next    |-> OtherSlot(s)]

(* mark_attempt_failed: nothing of the slot can be trusted. *)
AttemptFailed(L, s) ==
    [L EXCEPT !.debt[s]    = Cells,
              !.held[s]    = NoLayers,
              !.heldPub[s] = NoPublications]
=============================================================================
