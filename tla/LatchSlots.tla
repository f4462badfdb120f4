----------------------------- MODULE LatchSlots -----------------------------
(***************************************************************************)
(* The launcher presenter composing frames into two hidden scanout slots: *)
(* the frame loop renders into a cached base frame and two physical       *)
(* layers, plans a slot from the ledger, repairs exactly what the plan    *)
(* says, posts the slot to the FPGA latch and waits for the flip          *)
(* (launcher_present/latch.rs, launcher_present/orchestrator.rs and       *)
(* launcher_loop/frame_loop.rs).                                          *)
(*                                                                        *)
(* Slot memory is kept relative to the present: a cell reads Base or      *)
(* <<role, offset>> while its pixels are those the launcher wants there   *)
(* now, and becomes Stale when the content they came from changes.        *)
(***************************************************************************)
EXTENDS SlotLedger

VARIABLES
    scan, queued,  \* the device, see LatchDevice
    layer,         \* the layers the frame loop wants, with their content
    damage,        \* base damage of the frame being made
    update,        \* layer updates of the frame being made
    owed,          \* a frame was rendered and never published
    open,          \* the presenter is live; otherwise the display is frozen
    ledger,        \* TwoBufferLatchState
    verified,      \* hidden_active_verified
    mirror,        \* arcade_slot_mirrors, relative to the slot's pixels
    pc,            \* where the frame loop stands
    slot, plan,    \* the slot being worked on and its LatchPresentPlan
    mem,           \* pixels of the slots
    intact         \* slots that hold a whole frame (history)

Device  == INSTANCE LatchDevice
device  == <<scan, queued>>
frame   == <<layer, damage, update, owed>>
work    == <<slot, plan>>
vars    == <<scan, queued, layer, damage, update, owed, open, ledger,
             verified, mirror, pc, slot, plan, mem, intact>>

NoSlot  == Device!NoSlot
Off     == Device!Off
Foreign == Device!Foreign

(* Roles whose publications change content under one layer version: the   *)
(* portrait list counts content generations, the preview versions.        *)
Tracking == Published \intersect {"arcade"}

Base    == <<"base", 0>>
Stale   == <<"stale", 0>>
Direct  == <<"direct", 0>>
Pixels  == {Base, Stale, Direct} \union (Roles \X Offsets)

NoUpdate  == [r \in Roles |-> "none"]
NoMirrors == [s \in Slots |-> "none"]
NoPlan    == [restore  |-> {}, redraw |-> NoUpdate,
              diffSafe |-> FALSE, pub |-> NoPublications]
Plans     == [restore  : SUBSET Cells, redraw : [Roles -> Updates],
              diffSafe : BOOLEAN, pub : Publications]
Layers    == [on : BOOLEAN, offset : Offsets]

TypeOK ==
    /\ Device!DeviceTypeOK
    /\ layer \in [Roles -> Layers]
    /\ damage \in SUBSET Cells
    /\ update \in [Roles -> Updates]
    /\ owed \in BOOLEAN /\ open \in BOOLEAN /\ verified \in BOOLEAN
    /\ ledger \in Ledgers
    /\ mirror \in [Slots -> {"none", "same", "differ"}]
    /\ pc \in {"render", "present", "compose", "post", "await", "direct", "awaitDirect"}
    /\ slot \in Slots
    /\ plan \in Plans
    /\ mem \in [Slots -> [Cells -> Pixels]]
    /\ intact \in SUBSET Slots

Init ==
    /\ Device!DeviceInit
    /\ layer = [r \in Roles |-> [on |-> FALSE, offset |-> 0]]
    /\ damage = {} /\ update = NoUpdate /\ owed = TRUE
    /\ open = TRUE /\ verified = FALSE
    /\ ledger = FreshLedger /\ mirror = NoMirrors
    /\ pc = "render" /\ slot = 1 /\ plan = NoPlan
    /\ mem = [s \in Slots |-> [c \in Cells |-> Stale]]
    /\ intact = {}

-----------------------------------------------------------------------------
(* What the frame asks of the ledger, and the picture it should show.     *)

Desired(r) == IF layer[r].on THEN Current(layer[r].offset) ELSE NoLayer
DesiredLayers == [r \in Roles |-> Desired(r)]

Request ==
    [desired |-> DesiredLayers,
     pub     |-> [r \in Roles |-> IF layer[r].on /\ r \in Published
                                  THEN "now" ELSE "none"],
     update  |-> [r \in Roles |-> IF layer[r].on THEN update[r] ELSE "none"]]

Covers(r, c) == layer[r].on /\ c \in LayerRect[r]
Pixel(r)     == <<r, layer[r].offset>>

RightPixel(c, p) ==
    IF \E r \in Roles : Covers(r, c)
    THEN \E r \in Roles : Covers(r, c) /\ p = Pixel(r)
    ELSE p = Base

-----------------------------------------------------------------------------
(* The frame loop makes a frame. *)

(* Slint rasterises D of the base; the slots' copies of it grow old.      *)
RenderBase(D) ==
    /\ pc = "render"
    /\ damage' = damage \union D
    /\ mem' = [s \in Slots |-> [c \in Cells |->
                 IF c \in D /\ mem[s][c] = Base THEN Stale ELSE mem[s][c]]]
    /\ UNCHANGED <<device, layer, update, owed, open, ledger, verified, mirror,
                   pc, work, intact>>

(* The slots' copies of layer r grow old. *)
AgeLayer(r) ==
    mem' = [s \in Slots |-> [c \in Cells |->
              IF mem[s][c][1] = r THEN Stale ELSE mem[s][c]]]

(* New content: a new version, or for a publication that tracks content,  *)
(* a new generation under the same version.                               *)
LayerContent(r) ==
    /\ pc = "render" /\ update[r] = "none"
    /\ layer' = [layer EXCEPT ![r].on = TRUE]
    /\ update' = [update EXCEPT ![r] = "full"]
    /\ ledger' = LET L == IF r \in Published THEN AgePublication(ledger, r) ELSE ledger
                 IN  IF r \in Tracking THEN L ELSE AgeVersion(L, r)
    /\ AgeLayer(r)
    /\ UNCHANGED <<device, damage, owed, open, verified, mirror, pc, work, intact>>

(* The list scrolls.  A publication is captured again, so every copy of   *)
(* the old one is old; the cached list only moved under the same content. *)
ListScroll(o) ==
    LET r == "arcade" IN
    /\ pc = "render" /\ update[r] = "none"
    /\ layer[r].on /\ o # layer[r].offset
    /\ layer' = [layer EXCEPT ![r].offset = o]
    /\ update' = [update EXCEPT ![r] = "scroll"]
    /\ IF r \in Published
       THEN ledger' = AgePublication(ledger, r) /\ AgeLayer(r)
       ELSE UNCHANGED <<ledger, mem>>
    /\ UNCHANGED <<device, damage, owed, open, verified, mirror, pc, work, intact>>

(* The layer comes back with the content it had. *)
LayerShow(r) ==
    /\ pc = "render" /\ ~layer[r].on
    /\ layer' = [layer EXCEPT ![r].on = TRUE]
    /\ UNCHANGED <<device, damage, update, owed, open, ledger, verified, mirror,
                   pc, work, mem, intact>>

(* The layer retires.  Composition lets a complete frame carry the        *)
(* retirement of a publication.                                           *)
LayerHide(r) ==
    /\ pc = "render" /\ layer[r].on
    /\ layer' = [layer EXCEPT ![r].on = FALSE]
    /\ update' = [update EXCEPT ![r] = "none"]
    /\ IF r \in Published
       THEN /\ damage' = Cells
            /\ mem' = [s \in Slots |-> [c \in Cells |->
                         IF mem[s][c] = Base THEN Stale ELSE mem[s][c]]]
       ELSE UNCHANGED <<damage, mem>>
    /\ UNCHANGED <<device, owed, open, ledger, verified, mirror, pc, work, intact>>

-----------------------------------------------------------------------------
(* Presentation of a cached frame. *)

(* shield_base_damage_under_publication, for the preview then the list:   *)
(* base damage under a published layer becomes a full update of it.       *)
Shielded(D, r) == r \in Published /\ layer[r].on /\ D \intersect LayerRect[r] # {}
ShieldDamage(D) ==
    D \ UNION {LayerRect[r] : r \in {q \in Roles : Shielded(D, q)}}
ShieldUpdate(D) ==
    [r \in Roles |-> IF Shielded(D, r) THEN "full" ELSE update[r]]

FrameDamage == IF owed THEN Cells ELSE damage

(* The finished frame goes to the presenter; a frozen display drops it.   *)
Submit ==
    /\ pc = "render"
    /\ owed' = FALSE
    /\ damage' = IF open THEN ShieldDamage(FrameDamage) ELSE {}
    /\ update' = IF open THEN ShieldUpdate(FrameDamage) ELSE NoUpdate
    /\ pc' = IF open THEN "present" ELSE "render"
    /\ UNCHANGED <<device, layer, open, ledger, verified, mirror, work, mem, intact>>

(* Startup has not been revealed: the frame is dropped, and the frame     *)
(* that reveals the launcher is a full one.                               *)
Suppress ==
    /\ pc = "render" /\ open
    /\ damage' = {} /\ update' = NoUpdate /\ owed' = TRUE
    /\ UNCHANGED <<device, layer, open, ledger, verified, mirror, pc, work, mem, intact>>

(* Newer input preempts the raster of a home frame: what it rasterised is *)
(* owed to the next frame.                                                *)
Home == \A r \in Roles : ~layer[r].on

PreemptRaster ==
    /\ pc = "render" /\ Home /\ damage # {}
    /\ owed' = TRUE
    /\ damage' = {} /\ update' = NoUpdate
    /\ UNCHANGED <<device, layer, open, ledger, verified, mirror, pc, work, mem, intact>>

(* The loop takes what is owed when a frame begins, and returns early,    *)
(* with nothing rendered yet, when input wakes the wait for the blank,    *)
(* when the home cards are not ready or when it goes idle.                *)
YieldAfterTake ==
    /\ pc = "render" /\ owed /\ damage = {} /\ update = NoUpdate
    /\ owed' = FALSE
    /\ UNCHANGED <<device, layer, damage, update, open, ledger, verified, mirror,
                   pc, work, mem, intact>>

(* sync_latch_state_from_status: a base of somebody else's, after one of  *)
(* ours was seen on screen, invalidates everything.                       *)
Recovered    == scan = Foreign /\ verified
SyncedLedger == IF Recovered THEN FreshLedger ELSE ledger
SyncedMirror == IF Recovered THEN NoMirrors ELSE mirror
SyncVerified == verified' = (scan # Foreign /\ (verified \/ scan \in Slots))

PlanNext(overflow) ==
    /\ pc = "present" /\ queued = NoSlot
    /\ SyncVerified
    /\ mirror' = SyncedMirror
    /\ LET L == RecordDamage(SyncedLedger, damage, overflow)
           s == SelectSlot(L, scan)
       IN  /\ ledger' = L
           /\ slot' = s
           /\ plan' = [restore  |-> RestoreCells(L, s, Request),
                       redraw   |-> [r \in Roles |-> Redraw(L, s, Request, r)],
                       diffSafe |-> DiffSafe(L, s, Request, "arcade"),
                       pub      |-> Request.pub]
           /\ intact' = intact \ {s}
    /\ damage' = {} /\ update' = NoUpdate
    /\ pc' = "compose"
    /\ UNCHANGED <<device, layer, owed, open, mem>>

(* The presenter is dropped; the frame loop goes on with a frozen display *)
Freeze ==
    /\ open' = FALSE
    /\ ledger' = FreshLedger /\ mirror' = NoMirrors /\ verified' = FALSE
    /\ damage' = {} /\ update' = NoUpdate
    /\ plan' = NoPlan
    /\ pc' = "render"
    /\ UNCHANGED <<layer, owed, slot>>

(* The settle loop gives up on a slot that stays pending, or planning     *)
(* fails on a status that cannot be read.                                 *)
PlanFails ==
    /\ pc = "present"
    /\ Freeze
    /\ UNCHANGED <<device, mem, intact>>

(* copy_published_arcade_with_mirror writes only what differs from the    *)
(* mirror when the plan calls it safe and little differs.                 *)
MaySkipEqual == /\ "arcade" \in Published
                /\ plan.redraw["arcade"] = "full"
                /\ plan.diffSafe
                /\ mirror[slot] # "none"

ListPixel(sparse) ==
    IF sparse /\ mirror[slot] = "differ" THEN Stale ELSE Pixel("arcade")

Redrawn(r, c) == plan.redraw[r] # "none" /\ c \in LayerRect[r]

MirrorAfter(sparse) ==
    IF "arcade" \notin Published             THEN mirror[slot]
    ELSE IF plan.redraw["arcade"] = "scroll" THEN "none"
    ELSE IF plan.redraw["arcade"] = "full"   THEN IF sparse THEN mirror[slot] ELSE "same"
    ELSE IF /\ mirror[slot] = "same"
            /\ plan.restore \intersect LayerRect["arcade"] # {}
         THEN "differ"
    ELSE mirror[slot]

(* present_cached_full_frame: base copies, then the layers over them.     *)
Compose(sparse) ==
    /\ pc = "compose"
    /\ sparse => MaySkipEqual
    /\ mem' = [mem EXCEPT ![slot] = [c \in Cells |->
                 IF Redrawn("arcade", c)       THEN ListPixel(sparse)
                 ELSE IF Redrawn("preview", c) THEN Pixel("preview")
                 ELSE IF c \in plan.restore    THEN Base
                 ELSE mem[slot][c]]]
    /\ mirror' = [mirror EXCEPT ![slot] = MirrorAfter(sparse)]
    /\ intact' = intact \union {slot}
    /\ pc' = "post"
    /\ UNCHANGED <<device, frame, open, ledger, verified, work>>

(* A copy comes up short: the slot is left half written. *)
ComposeFails ==
    /\ pc = "compose"
    /\ Freeze
    /\ mem' = [mem EXCEPT ![slot] = [c \in Cells |-> Stale]]
    /\ UNCHANGED <<device, intact>>

(* post_confirm_prepared_frame reads the status again under the lock, so  *)
(* the ledger may be invalidated between the plan and its success.        *)
PostConfirmed ==
    /\ pc = "post"
    /\ Device!Accept(slot)
    /\ SyncVerified
    /\ mirror' = SyncedMirror
    /\ ledger' = PostSuccess(SyncedLedger, slot, DesiredLayers,
                             IF Recovered THEN NoPublications ELSE plan.pub)
    /\ plan' = NoPlan
    /\ pc' = "await"
    /\ UNCHANGED <<frame, open, slot, mem, intact>>

(* The post is refused or never arrives; or it is accepted and the answer *)
(* is lost.                                                               *)
PostRefused ==
    /\ pc \in {"post", "direct"}
    /\ Freeze
    /\ UNCHANGED <<device, mem, intact>>

PostLost ==
    /\ pc \in {"post", "direct"}
    /\ Device!Accept(slot)
    /\ Freeze
    /\ intact' = intact \union {slot}
    /\ UNCHANGED mem

(* The confirmation wait: the flip is seen, or it times out, or input on  *)
(* a home screen without layers supersedes the frame.                     *)
AwaitDone ==
    /\ pc \in {"await", "awaitDirect"} /\ queued = NoSlot /\ scan = slot
    /\ pc' = "render"
    /\ UNCHANGED <<device, frame, open, ledger, verified, mirror, work, mem, intact>>

AwaitFails ==
    /\ pc \in {"await", "awaitDirect"}
    /\ Freeze
    /\ UNCHANGED <<device, mem, intact>>

AwaitInterrupted ==
    /\ pc \in {"await", "awaitDirect"} /\ Home
    /\ pc' = "render"
    /\ UNCHANGED <<device, frame, open, ledger, verified, mirror, work, mem, intact>>

(* The automatic retry opens a new presenter. *)
Reopen ==
    /\ pc = "render" /\ ~open
    /\ open' = TRUE
    /\ UNCHANGED <<device, frame, ledger, verified, mirror, pc, work, mem, intact>>

-----------------------------------------------------------------------------
(* Frames drawn straight into a hidden slot (home cards, intro).          *)

DirectRender ==
    /\ pc = "render" /\ open /\ queued = NoSlot
    /\ SyncVerified
    /\ mirror' = SyncedMirror
    /\ ledger' = SyncedLedger
    /\ slot' = SelectSlot(SyncedLedger, scan)
    /\ mem' = [mem EXCEPT ![slot'] = [c \in Cells |-> Direct]]
    /\ intact' = intact \ {slot'}
    /\ pc' = "direct"
    /\ UNCHANGED <<device, frame, open, plan>>

(* A direct post leaves nothing of the cached bookkeeping standing.       *)
DirectPost ==
    /\ pc = "direct"
    /\ Device!Accept(slot)
    /\ ledger' = FreshLedger /\ mirror' = NoMirrors /\ verified' = TRUE
    /\ intact' = intact \union {slot}
    /\ owed' = FALSE /\ damage' = {} /\ update' = NoUpdate
    /\ pc' = "awaitDirect"
    /\ UNCHANGED <<layer, open, work, mem>>

(* Newer input preempts the card frame before it is posted: the slot's    *)
(* writes are disowned and rasterised damage is owed (restart_unpublished_*)
(* home_frame, discard_completed_hidden_frame).  Cards are drawn directly *)
(* only in frames that owe nothing.                                       *)
DirectDiscard ==
    /\ pc = "direct" /\ ~owed
    /\ ledger' = AttemptFailed(ledger, slot)
    /\ mirror' = [mirror EXCEPT ![slot] = "none"]
    /\ owed' = (damage # {})
    /\ damage' = {} /\ update' = NoUpdate
    /\ pc' = "render"
    /\ UNCHANGED <<device, layer, open, verified, work, mem, intact>>

(* The mode that owned the slots ends (invalidate_external_mode). *)
DirectModeEnds ==
    /\ pc = "direct"
    /\ ledger' = FreshLedger /\ mirror' = NoMirrors
    /\ pc' = "render"
    /\ UNCHANGED <<device, frame, open, verified, work, mem, intact>>

-----------------------------------------------------------------------------
LoopVars == <<layer, damage, update, owed, open, ledger, verified, mirror, pc,
              slot, plan, mem, intact>>

Flip == Device!Flip /\ UNCHANGED LoopVars

Takeover == /\ \E output \in {Off, Foreign} : Device!Takeover(output)
            /\ UNCHANGED LoopVars

Make ==
    \/ \E D \in SUBSET Cells \ {{}} : RenderBase(D)
    \/ \E r \in Roles : LayerContent(r) \/ LayerShow(r) \/ LayerHide(r)
    \/ \E o \in Offsets : ListScroll(o)

Present ==
    \/ Submit \/ Suppress \/ PreemptRaster
    \/ \E overflow \in SUBSET Slots : PlanNext(overflow)
    \/ PlanFails
    \/ \E sparse \in BOOLEAN : Compose(sparse)
    \/ ComposeFails
    \/ PostConfirmed \/ PostRefused \/ PostLost
    \/ AwaitDone \/ AwaitFails \/ AwaitInterrupted
    \/ Reopen

DirectPath == DirectRender \/ DirectPost \/ DirectDiscard \/ DirectModeEnds

Next == \/ Make \/ Present
        \/ DirectPath
        \/ Flip \/ Takeover

(* Spec is the loop whose frames, once begun, are rendered: the           *)
(* obligation to copy a full frame is never dropped.  YieldingSpec adds   *)
(* the early returns that do drop it.                                     *)
Spec         == Init /\ [][Next]_vars
YieldingSpec == Init /\ [][Next \/ YieldAfterTake]_vars
-----------------------------------------------------------------------------
(* Properties *)

(* A slot the presenter is writing: the ledger does not describe it yet.  *)
InTransit(s) == pc \in {"post", "direct"} /\ s = slot

Holds(s, r) == ledger.held[s][r] # NoLayer

(* Outside what a slot owes, and outside the layers it holds, its pixels  *)
(* are the base frame's: no damage is ever lost between the two slots,    *)
(* whichever frames were skipped, refused, interrupted or drawn directly. *)
BaseCoherent ==
    \A s \in Slots, c \in Cells :
        (/\ open /\ ~owed /\ ~InTransit(s)
         /\ c \notin ledger.debt[s] \union damage
         /\ \A r \in Roles : c \in LayerRect[r] =>
                ~Holds(s, r) /\ ~(r \in Published /\ layer[r].on))
        => mem[s][c] = Base

(* A slot recorded with the current content of a layer shows exactly that *)
(* content, at the recorded scroll position: slot.layers and              *)
(* slot_publications never claim more than the slot's memory holds.       *)
LayerCoherent ==
    \A s \in Slots, r \in Roles :
        (/\ ~InTransit(s)
         /\ ledger.held[s][r].version = "now"
         /\ r \in Published => ledger.heldPub[s][r] = "now")
        => \A c \in LayerRect[r] : mem[s][c] = <<r, ledger.held[s][r].offset>>

(* Repairing only what the plan names yields the whole picture: a cached  *)
(* frame that is posted is pixel for pixel the frame the loop wanted.     *)
PostedPicture ==
    pc \in {"post", "await"} => \A c \in Cells : RightPixel(c, mem[slot][c])

(* A sparse copy is only taken when the mirror equals the slot's pixels.  *)
MirrorHonest ==
    /\ \A s \in Slots : mirror[s] = "differ" /\ ~InTransit(s) => ~Holds(s, "arcade")
    /\ pc = "compose" /\ MaySkipEqual => mirror[slot] = "same"
    /\ "arcade" \notin Published => mirror = NoMirrors

(* What makes the properties above inductive: where the loop stands, what *)
(* a plan still knows of the ledger it was made from, and which slot may  *)
(* be written.                                                            *)
LoopDiscipline ==
    /\ ~open => pc = "render" /\ \A s \in Slots : ledger.debt[s] = Cells
    /\ pc \in {"present", "compose", "post", "await"} => ~owed
    /\ pc \in {"compose", "post", "await"} => damage = {}

PlanFaithful ==
    pc = "compose" =>
        /\ ledger.debt[slot] \subseteq plan.restore
        /\ \A r \in Roles :
              /\ Holds(slot, r) /\ ~layer[r].on => LayerRect[r] \subseteq plan.restore
              /\ ~layer[r].on => plan.redraw[r] = "none"
              /\ layer[r].on /\ plan.redraw[r] = "none" =>
                    /\ ledger.held[slot][r] = Desired(r)
                    /\ r \in Published => ledger.heldPub[slot][r] = "now"
                    /\ LayerRect[r] \intersect plan.restore = {}
        /\ plan.diffSafe => Holds(slot, "arcade")

PlannedPublication ==
    pc = "post" /\ mirror[slot] = "differ" => ~layer["arcade"].on

WriteTarget ==
    /\ pc \in {"compose", "post", "direct"} =>
           queued = NoSlot /\ scan # slot
    /\ pc = "post" => slot \in intact
    /\ scan \in Slots => scan \in intact
    /\ queued \in Slots => queued \in intact

(* What a viewer sees, for the refinement of LatchDisplay.                *)
shown  == IF scan = Off THEN "off"
          ELSE IF scan = Foreign THEN "foreign"
          ELSE IF scan \in intact THEN "whole" ELSE "torn"
coming == IF queued = NoSlot THEN "none"
          ELSE IF queued \in intact THEN "whole" ELSE "torn"

Display == INSTANCE LatchDisplay

(* The launcher shows and queues only whole frames. *)
WholeFrames == Display!Spec
=============================================================================
