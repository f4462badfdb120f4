-------------------------- MODULE LatchSlotsProofs --------------------------
(***************************************************************************)
(* Proofs about LatchSlots, for every layout of cells and layers, every   *)
(* set of published roles and every set of scroll positions.              *)
(***************************************************************************)
EXTENDS LatchSlots, TLAPS

(* The layer records of a slot (PhysicalLayerState or None) are layer     *)
(* states.                                                                *)
LEMMA LayersTyped ==
    ASSUME NEW o \in Offsets
    PROVE  /\ Current(o) \in LayerStates
           /\ NoLayer \in LayerStates /\ OldLayer \in LayerStates
           /\ NoLayers \in HeldLayers /\ NoPublications \in Publications
  BY LayoutAssumption DEF Current, NoLayer, OldLayer, LayerStates, NoLayers,
     HeldLayers, NoPublications, Publications

(* TwoBufferLatchState::new is a ledger. *)
LEMMA FreshTyped == FreshLedger \in Ledgers
  BY LayersTyped, LayoutAssumption DEF FreshLedger, Ledgers, Slots

(* Every operation on a ledger returns a ledger. *)
LEMMA LedgerTyped ==
    ASSUME NEW L \in Ledgers, NEW s \in Slots
    PROVE  /\ \A r \in Roles : AgeVersion(L, r) \in Ledgers
           /\ \A r \in Roles : AgePublication(L, r) \in Ledgers
           /\ \A D \in SUBSET Cells, O \in SUBSET Slots : RecordDamage(L, D, O) \in Ledgers
           /\ \A d \in HeldLayers, P \in Publications : PostSuccess(L, s, d, P) \in Ledgers
           /\ AttemptFailed(L, s) \in Ledgers
<1>0. /\ L.debt \in [Slots -> SUBSET Cells] /\ L.held \in [Slots -> HeldLayers]
      /\ L.heldPub \in [Slots -> Publications] /\ L.next \in Slots
      /\ L = [debt |-> L.debt, held |-> L.held, heldPub |-> L.heldPub, next |-> L.next]
  BY DEF Ledgers
<1>1. ASSUME NEW r \in Roles PROVE AgeVersion(L, r) \in Ledgers
  <2>1. [t \in Slots |-> IF L.held[t][r].version = "now"
                         THEN [L.held[t] EXCEPT ![r] = OldLayer]
                         ELSE L.held[t]] \in [Slots -> HeldLayers]
    BY <1>0, LayersTyped, LayoutAssumption DEF HeldLayers
  <2> QED BY <1>0, <2>1 DEF AgeVersion, Ledgers
<1>2. ASSUME NEW r \in Roles PROVE AgePublication(L, r) \in Ledgers
  <2>1. [t \in Slots |-> IF L.heldPub[t][r] = "now"
                         THEN [L.heldPub[t] EXCEPT ![r] = "old"]
                         ELSE L.heldPub[t]] \in [Slots -> Publications]
    BY <1>0 DEF Publications
  <2> QED BY <1>0, <2>1 DEF AgePublication, Ledgers
<1>3. ASSUME NEW D \in SUBSET Cells, NEW O \in SUBSET Slots
      PROVE  RecordDamage(L, D, O) \in Ledgers
  BY <1>0 DEF RecordDamage, Ledgers
<1>4. ASSUME NEW d \in HeldLayers, NEW P \in Publications
      PROVE  PostSuccess(L, s, d, P) \in Ledgers
  BY <1>0 DEF PostSuccess, Ledgers, OtherSlot, Slots
<1>5. AttemptFailed(L, s) \in Ledgers
  <2>1. [L.held EXCEPT ![s] = NoLayers] \in [Slots -> HeldLayers]
    BY <1>0, LayersTyped, LayoutAssumption
  <2>2. [L.heldPub EXCEPT ![s] = NoPublications] \in [Slots -> Publications]
    BY <1>0, LayersTyped, LayoutAssumption
  <2> QED BY <1>0, <2>1, <2>2 DEF AttemptFailed, Ledgers
<1> QED BY <1>1, <1>2, <1>3, <1>4, <1>5

(* What the frame asks of the ledger. *)
LEMMA RequestTyped ==
    ASSUME TypeOK
    PROVE  /\ DesiredLayers \in HeldLayers
           /\ \A r \in Roles : DesiredLayers[r] = Desired(r) /\ Desired(r) \in LayerStates
           /\ Request \in Requests
           /\ Request.desired = DesiredLayers
           /\ \A r \in Roles :
                 /\ Request.pub[r] = IF layer[r].on /\ r \in Published THEN "now" ELSE "none"
                 /\ Request.update[r] = IF layer[r].on THEN update[r] ELSE "none"
<1>1. \A r \in Roles : Desired(r) \in LayerStates
  BY LayersTyped, LayoutAssumption DEF TypeOK, Layers, Desired
<1>2. DesiredLayers \in HeldLayers /\ \A r \in Roles : DesiredLayers[r] = Desired(r)
  BY <1>1 DEF DesiredLayers, HeldLayers
<1> QED BY <1>1, <1>2 DEF Request, Requests, Publications, TypeOK, Updates

(* sync_hardware and the mirrors it clears keep their types. *)
LEMMA SyncTyped ==
    ASSUME TypeOK
    PROVE  /\ SyncedLedger \in Ledgers
           /\ SyncedMirror \in [Slots -> {"none", "same", "differ"}]
  BY FreshTyped DEF TypeOK, SyncedLedger, SyncedMirror, NoMirrors

(* What compose writes into a slot is a pixel. *)
LEMMA PixelsTyped ==
    ASSUME TypeOK
    PROVE  /\ Base \in Pixels /\ Stale \in Pixels /\ Direct \in Pixels
           /\ \A r \in Roles : Pixel(r) \in Pixels
  BY DEF TypeOK, Layers, Pixels, Pixel

(* plan_for_slot returns a plan whatever it is asked for. *)
LEMMA PlanTyped ==
    ASSUME NEW L \in Ledgers, NEW s \in Slots, NEW req \in Requests
    PROVE  /\ RestoreCells(L, s, req) \in SUBSET Cells
           /\ \A r \in Roles : Redraw(L, s, req, r) \in Updates
           /\ \A r \in Roles : DiffSafe(L, s, req, r) \in BOOLEAN
<1>1. L.debt[s] \in SUBSET Cells
  BY DEF Ledgers
<1>2. \A r \in Roles : LayerRect[r] \in SUBSET Cells
  BY LayoutAssumption
<1>3. RestoreCells(L, s, req) \in SUBSET Cells
  BY <1>1, <1>2 DEF RestoreCells
<1>4. ASSUME NEW r \in Roles PROVE Redraw(L, s, req, r) \in Updates
  <2>1. req.update[r] \in Updates
    BY DEF Requests
  <2> QED BY <2>1 DEF Redraw, Updates
<1> QED BY <1>3, <1>4 DEF DiffSafe

(* Every step keeps every variable within its type. *)
LEMMA TypeStep == TypeOK /\ [Next]_vars => TypeOK'
<1> SUFFICES ASSUME TypeOK, [Next]_vars PROVE TypeOK'
  OBVIOUS
<1> USE DEF TypeOK, Device!DeviceTypeOK, Device!Slots, Device!NoSlot, Device!Off,
            Device!Foreign, device, frame, work
<1>f. FreshLedger \in Ledgers /\ NoMirrors \in [Slots -> {"none", "same", "differ"}]
      /\ NoPlan \in Plans /\ NoUpdate \in [Roles -> Updates]
  <2>1. NoPublications \in Publications
    BY DEF NoPublications, Publications
  <2> QED BY FreshTyped, <2>1 DEF NoMirrors, NoPlan, Plans, NoUpdate, Updates
<1>1. CASE Make
  <2>1. ASSUME NEW D \in SUBSET Cells \ {{}}, RenderBase(D) PROVE TypeOK'
    BY <2>1, PixelsTyped DEF RenderBase
  <2>2. ASSUME NEW r \in Roles, LayerContent(r) PROVE TypeOK'
    <3>1. layer' \in [Roles -> Layers] /\ update' \in [Roles -> Updates]
      BY <2>2 DEF LayerContent, Layers, Updates
    <3>2. ledger' \in Ledgers
      BY <2>2, LedgerTyped DEF LayerContent, Slots
    <3>3. mem' \in [Slots -> [Cells -> Pixels]]
      BY <2>2, PixelsTyped DEF LayerContent, AgeLayer
    <3> QED BY <2>2, <3>1, <3>2, <3>3 DEF LayerContent
  <2>3. ASSUME NEW r \in Roles, LayerShow(r) PROVE TypeOK'
    BY <2>3 DEF LayerShow, Layers
  <2>4. ASSUME NEW r \in Roles, LayerHide(r) PROVE TypeOK'
    <3>1. layer' \in [Roles -> Layers] /\ update' \in [Roles -> Updates]
      BY <2>4 DEF LayerHide, Layers, Updates
    <3>2. mem' \in [Slots -> [Cells -> Pixels]] /\ damage' \in SUBSET Cells
      BY <2>4, PixelsTyped DEF LayerHide
    <3> QED BY <2>4, <3>1, <3>2 DEF LayerHide
  <2>5. ASSUME NEW o \in Offsets, ListScroll(o) PROVE TypeOK'
    <3>1. layer' \in [Roles -> Layers] /\ update' \in [Roles -> Updates]
      BY <2>5 DEF ListScroll, Layers, Updates
    <3>2. ledger' \in Ledgers
      BY <2>5, LedgerTyped DEF ListScroll, Slots, Roles
    <3>3. mem' \in [Slots -> [Cells -> Pixels]]
      <4>1. AgeLayer("arcade") \/ mem' = mem
        BY <2>5 DEF ListScroll
      <4>2. AgeLayer("arcade") => mem' \in [Slots -> [Cells -> Pixels]]
        BY PixelsTyped DEF AgeLayer
      <4> QED BY <4>1, <4>2
    <3> QED BY <2>5, <3>1, <3>2, <3>3 DEF ListScroll
  <2> QED BY <1>1, <2>1, <2>2, <2>3, <2>4, <2>5 DEF Make
<1>2. CASE Present
  <2>1. CASE Submit
    <3>1. damage' \in SUBSET Cells
      BY <2>1, LayoutAssumption DEF Submit, ShieldDamage, FrameDamage
    <3>2. update' \in [Roles -> Updates]
      BY <2>1, <1>f DEF Submit, ShieldUpdate, Updates
    <3> QED BY <2>1, <3>1, <3>2 DEF Submit
  <2>2. CASE Suppress
    BY <2>2, <1>f DEF Suppress
  <2>3. CASE PreemptRaster
    BY <2>3, <1>f DEF PreemptRaster
  <2>4. ASSUME NEW O \in SUBSET Slots, PlanNext(O) PROVE TypeOK'
    <3> DEFINE L == RecordDamage(SyncedLedger, damage, O)
               s == SelectSlot(L, scan)
    <3>1. L \in Ledgers
      BY SyncTyped, LedgerTyped DEF Slots
    <3>2. s \in Slots
      BY <3>1 DEF SelectSlot, OtherSlot, Slots, Ledgers
    <3>3. Request \in Requests /\ Request.pub \in Publications
      BY RequestTyped DEF Requests
    <3>4. plan' \in Plans
      <4>1. /\ RestoreCells(L, s, Request) \in SUBSET Cells
            /\ [r \in Roles |-> Redraw(L, s, Request, r)] \in [Roles -> Updates]
            /\ DiffSafe(L, s, Request, "arcade") \in BOOLEAN
        BY <3>1, <3>2, <3>3, PlanTyped DEF Roles
      <4> HIDE DEF L, s
      <4>2. plan' = [restore  |-> RestoreCells(L, s, Request),
                     redraw   |-> [r \in Roles |-> Redraw(L, s, Request, r)],
                     diffSafe |-> DiffSafe(L, s, Request, "arcade"),
                     pub      |-> Request.pub]
        BY <2>4 DEF PlanNext, L, s
      <4> QED BY <3>3, <4>1, <4>2 DEF Plans
    <3>5. ledger' = L /\ slot' = s /\ intact' \in SUBSET Slots
      BY <2>4 DEF PlanNext
    <3>6. verified' \in BOOLEAN /\ mirror' \in [Slots -> {"none", "same", "differ"}]
      BY <2>4, SyncTyped DEF PlanNext, SyncVerified
    <3> HIDE DEF L, s
    <3> QED BY <2>4, <3>1, <3>2, <3>4, <3>5, <3>6, <1>f DEF PlanNext
  <2>5. CASE PlanFails
    BY <2>5, <1>f DEF PlanFails, Freeze
  <2>6. ASSUME NEW sparse \in BOOLEAN, Compose(sparse) PROVE TypeOK'
    <3>1. mem' \in [Slots -> [Cells -> Pixels]]
      BY <2>6, PixelsTyped DEF Compose, ListPixel, Roles
    <3>2. mirror' \in [Slots -> {"none", "same", "differ"}]
      BY <2>6 DEF Compose, MirrorAfter
    <3> QED BY <2>6, <3>1, <3>2 DEF Compose
  <2>7. CASE ComposeFails
    BY <2>7, <1>f, PixelsTyped DEF ComposeFails, Freeze
  <2>8. CASE PostConfirmed
    <3>1. ledger' \in Ledgers
      <4>1. (IF Recovered THEN NoPublications ELSE plan.pub) \in Publications
        BY DEF Plans, NoPublications, Publications
      <4> QED BY <2>8, <4>1, SyncTyped, RequestTyped, LedgerTyped DEF PostConfirmed
    <3>2. verified' \in BOOLEAN /\ mirror' \in [Slots -> {"none", "same", "differ"}]
      BY <2>8, SyncTyped DEF PostConfirmed, SyncVerified
    <3> QED BY <2>8, <3>1, <3>2, <1>f DEF PostConfirmed, Device!Accept, Slots
  <2>9. CASE PostRefused
    BY <2>9, <1>f DEF PostRefused, Freeze
  <2>10. CASE PostLost
    BY <2>10, <1>f DEF PostLost, Freeze, Device!Accept, Slots
  <2>11. CASE AwaitDone
    BY <2>11 DEF AwaitDone
  <2>12. CASE AwaitFails
    BY <2>12, <1>f DEF AwaitFails, Freeze
  <2>13. CASE AwaitInterrupted
    BY <2>13 DEF AwaitInterrupted
  <2>14. CASE Reopen
    BY <2>14 DEF Reopen
  <2> QED BY <1>2, <2>1, <2>2, <2>3, <2>4, <2>5, <2>6, <2>7, <2>8, <2>9, <2>10,
             <2>11, <2>12, <2>13, <2>14 DEF Present
<1>3. CASE DirectPath
  <2>1. CASE DirectRender
    <3>1. slot' \in Slots
      BY <2>1, SyncTyped DEF DirectRender, SelectSlot, OtherSlot, Slots, Ledgers
    <3>2. mem' \in [Slots -> [Cells -> Pixels]]
      BY <2>1, PixelsTyped DEF DirectRender
    <3>3. verified' \in BOOLEAN
      BY <2>1 DEF DirectRender, SyncVerified
    <3> QED BY <2>1, <3>1, <3>2, <3>3, SyncTyped DEF DirectRender
  <2>2. CASE DirectPost
    BY <2>2, <1>f DEF DirectPost, Device!Accept, Slots
  <2>3. CASE DirectDiscard
    BY <2>3, <1>f, LedgerTyped DEF DirectDiscard
  <2>4. CASE DirectModeEnds
    BY <2>4, <1>f DEF DirectModeEnds
  <2> QED BY <1>3, <2>1, <2>2, <2>3, <2>4 DEF DirectPath
<1>4. CASE Flip
  BY <1>4 DEF Flip, LoopVars, Device!Flip, Slots
<1>5. CASE Takeover
  BY <1>5 DEF Takeover, LoopVars, Device!Takeover
<1>6. CASE UNCHANGED vars
  BY <1>6 DEF vars
<1> QED BY <1>1, <1>2, <1>3, <1>4, <1>5, <1>6 DEF Next

(* The launcher's bookkeeping never leaves its types: a slot is one of    *)
(* the two, a debt is part of the composition, a layer record names a     *)
(* known scroll position.                                                 *)
THEOREM TypeCorrect == Spec => []TypeOK
<1>1. Init => TypeOK
  <2> SUFFICES ASSUME Init PROVE TypeOK
    OBVIOUS
  <2>1. NoPlan \in Plans /\ NoUpdate \in [Roles -> Updates]
    BY DEF NoPlan, Plans, NoPublications, Publications, NoUpdate, Updates
  <2>2. layer \in [Roles -> Layers]
    BY LayoutAssumption DEF Init, Layers
  <2>3. mem \in [Slots -> [Cells -> Pixels]]
    BY DEF Init, Pixels
  <2>4. Device!DeviceTypeOK
    BY DEF Init, Device!DeviceInit, Device!DeviceTypeOK, Device!Slots, Device!NoSlot,
           Device!Off, Device!Foreign
  <2>5. mirror \in [Slots -> {"none", "same", "differ"}]
    BY DEF Init, NoMirrors
  <2> QED BY <2>1, <2>2, <2>3, <2>4, <2>5, FreshTyped DEF Init, TypeOK, Slots
<1> QED BY <1>1, TypeStep, PTL DEF Spec

-----------------------------------------------------------------------------
(* The slot chosen for writing is never the one scanned out. *)
LEMMA SelectedSlot ==
    ASSUME NEW L \in Ledgers, NEW x
    PROVE  SelectSlot(L, x) \in Slots /\ SelectSlot(L, x) # x
<1>1. L.next \in Slots
  BY DEF Ledgers
<1> QED BY <1>1 DEF SelectSlot, OtherSlot, Slots

(* record_damage does not change which slot is preferred. *)
LEMMA RecordDamageNext ==
    ASSUME NEW L \in Ledgers, NEW D, NEW O
    PROVE  RecordDamage(L, D, O).next = L.next
  BY DEF RecordDamage, Ledgers

(* select_writable_slot never returns the slot the hardware scans out. *)
LEMMA PlannedSlot ==
    ASSUME TypeOK, NEW O \in SUBSET Slots, PlanNext(O)
    PROVE  slot' \in Slots /\ slot' # scan
<1>1. RecordDamage(SyncedLedger, damage, O) \in Ledgers
  BY SyncTyped, LedgerTyped DEF Slots, TypeOK
<1>2. slot' = SelectSlot(RecordDamage(SyncedLedger, damage, O), scan)
  BY DEF PlanNext
<1> QED BY <1>1, <1>2, SelectedSlot

(* The same for the slot a direct frame is drawn into. *)
LEMMA DirectSlot ==
    ASSUME TypeOK, DirectRender
    PROVE  slot' \in Slots /\ slot' # scan
  BY SyncTyped, SelectedSlot DEF DirectRender

(* No step starts a write into a slot that is shown or queued, and none   *)
(* queues a slot that is not whole.                                       *)
LEMMA WriteTargetStep == TypeOK /\ WriteTarget /\ [Next]_vars => WriteTarget'
<1> SUFFICES ASSUME TypeOK, WriteTarget, [Next]_vars PROVE WriteTarget'
  OBVIOUS
<1> USE DEF WriteTarget, NoSlot, device, frame, work
<1>t. scan \in {0, 1, 2, 3} /\ queued \in {0, 1, 2} /\ slot \in {1, 2}
  BY DEF TypeOK, Device!DeviceTypeOK, Device!Slots, Device!NoSlot, Device!Off, Device!Foreign,
         Slots
<1>1. CASE Make
  <2>1. UNCHANGED <<scan, queued, pc, slot, intact>>
    BY <1>1 DEF Make, RenderBase, LayerContent, LayerShow, LayerHide, ListScroll
  <2> QED BY <2>1
<1>2. CASE Present
  <2>1. CASE Submit \/ Suppress \/ PreemptRaster \/ AwaitDone \/ AwaitInterrupted \/ Reopen
    <3>1. UNCHANGED <<scan, queued, intact>> /\ pc' \in {pc, "render", "present"}
      BY <2>1 DEF Submit, Suppress, PreemptRaster, AwaitDone, AwaitInterrupted, Reopen
    <3>2. UNCHANGED slot
      BY <2>1 DEF Submit, Suppress, PreemptRaster, AwaitDone, AwaitInterrupted, Reopen
    <3> QED BY <3>1, <3>2
  <2>2. CASE PlanFails \/ ComposeFails \/ PostRefused \/ AwaitFails
    BY <2>2 DEF PlanFails, ComposeFails, PostRefused, AwaitFails, Freeze
  <2>3. ASSUME NEW O \in SUBSET Slots, PlanNext(O) PROVE WriteTarget'
    <3>1. queued = 0 /\ queued' = 0 /\ scan' = scan /\ pc' = "compose"
          /\ intact' = intact \ {slot'}
      BY <2>3 DEF PlanNext, Device!NoSlot
    <3> QED BY <2>3, <3>1, PlannedSlot DEF Device!NoSlot, Slots
  <2>4. ASSUME NEW sparse \in BOOLEAN, Compose(sparse) PROVE WriteTarget'
    BY <2>4 DEF Compose
  <2>5. CASE PostConfirmed
    BY <2>5, <1>t DEF PostConfirmed, Device!Accept
  <2>6. CASE PostLost
    BY <2>6, <1>t DEF PostLost, Freeze, Device!Accept
  <2> QED BY <1>2, <2>1, <2>2, <2>3, <2>4, <2>5, <2>6 DEF Present
<1>3. CASE DirectPath
  <2>1. CASE DirectRender
    <3>1. queued = 0 /\ queued' = 0 /\ scan' = scan /\ pc' = "direct"
          /\ intact' = intact \ {slot'}
      BY <2>1 DEF DirectRender, Device!NoSlot
    <3> QED BY <2>1, <3>1, DirectSlot DEF Device!NoSlot, Slots
  <2>2. CASE DirectPost
    BY <2>2, <1>t DEF DirectPost, Device!Accept
  <2>3. CASE DirectDiscard
    BY <2>3 DEF DirectDiscard
  <2>4. CASE DirectModeEnds
    BY <2>4 DEF DirectModeEnds
  <2> QED BY <1>3, <2>1, <2>2, <2>3, <2>4 DEF DirectPath
<1>4. CASE Flip
  BY <1>4, <1>t DEF Flip, LoopVars, Device!Flip, Device!NoSlot, Slots
<1>5. CASE Takeover
  BY <1>5, <1>t DEF Takeover, LoopVars, Device!Takeover, Device!Off, Device!Foreign,
     Device!NoSlot, Slots
<1>6. CASE UNCHANGED vars
  BY <1>6 DEF vars
<1> QED BY <1>1, <1>2, <1>3, <1>4, <1>5, <1>6 DEF Next

(* At the start nothing is queued and no slot is shown. *)
LEMMA WriteTargetInit == Init => WriteTarget
  BY DEF Init, WriteTarget, Device!DeviceInit, Device!Off, Device!Foreign, Device!NoSlot, Slots

(* The presenter never writes into the slot the scaler reads, nor into    *)
(* one that waits for the blank: select_writable_slot under the latch.    *)
THEOREM WriteTargetCorrect == Spec => []WriteTarget
<1>1. Init => WriteTarget
  BY WriteTargetInit
<1> QED BY <1>1, TypeCorrect, WriteTargetStep, PTL DEF Spec

(* Every step of the presenter and the device is a step of the display or *)
(* none of its.                                                           *)
LEMMA DisplayStep ==
    ASSUME TypeOK, WriteTarget, WriteTarget', [Next]_vars
    PROVE  [Display!Next]_(Display!displayVars)
<1> USE DEF shown, coming, Display!displayVars, NoSlot, Off, Foreign, Device!NoSlot,
            Device!Off, Device!Foreign, device
<1>t. scan \in {0, 1, 2, 3} /\ queued \in {0, 1, 2} /\ slot \in {1, 2}
  BY DEF TypeOK, Device!DeviceTypeOK, Device!Slots, Slots
<1>w. /\ scan \in {1, 2} => scan \in intact
      /\ queued \in {1, 2} => queued \in intact
  BY DEF WriteTarget, Slots
<1>1. ASSUME UNCHANGED <<scan, queued>>,
             scan \in {1, 2} => scan \in intact',
             queued \in {1, 2} => queued \in intact'
      PROVE  UNCHANGED <<shown, coming>>
  BY <1>1, <1>t, <1>w
<1>2. ASSUME Device!Accept(slot),
             intact \subseteq intact', slot \in intact'
      PROVE  Display!Submit
  BY <1>2, <1>t, <1>w DEF Device!Accept, Display!Submit
<1>3. CASE Flip
  BY <1>3, <1>t, <1>w DEF Flip, LoopVars, Device!Flip, Display!Next, Display!Flip
<1>4. CASE Takeover
  BY <1>4, <1>t, <1>w DEF Takeover, LoopVars, Device!Takeover, Display!Next, Display!Takeover
<1>5. CASE Make \/ Present \/ DirectPath \/ UNCHANGED vars
  <2>1. CASE PostConfirmed \/ PostLost \/ DirectPost
    <3>1. Device!Accept(slot)
      BY <2>1 DEF PostConfirmed, PostLost, DirectPost
    <3>2. intact \subseteq intact' /\ slot \in intact'
      BY <2>1, <1>t DEF PostConfirmed, PostLost, DirectPost, WriteTarget
    <3> QED BY <3>1, <3>2, <1>2 DEF Display!Next
  <2>2. CASE ~(PostConfirmed \/ PostLost \/ DirectPost)
    <3>1. UNCHANGED <<scan, queued>>
      BY <1>5, <2>2 DEF Make, RenderBase, LayerContent, LayerShow, LayerHide, ListScroll,
         Present, Submit, Suppress, PreemptRaster, PlanNext, PlanFails, Compose, ComposeFails,
         PostRefused, AwaitDone, AwaitFails, AwaitInterrupted, Reopen, Freeze, DirectPath,
         DirectRender, DirectDiscard, DirectModeEnds, vars
    <3>2. (scan \in {1, 2} => scan \in intact') /\ (queued \in {1, 2} => queued \in intact')
      BY <3>1 DEF WriteTarget, Slots
    <3> QED BY <3>1, <3>2, <1>1
  <2> QED BY <2>1, <2>2
<1> QED BY <1>3, <1>4, <1>5 DEF Next

(* Every behaviour of the presenter shows and queues only whole frames,   *)
(* through refusals, lost answers, preempted frames and takeovers.        *)
THEOREM WholeFramesCorrect == Spec => WholeFrames
<1>1. Init => Display!Init
  BY DEF Init, Display!Init, shown, coming, Device!DeviceInit, NoSlot, Off, Foreign,
         Device!NoSlot, Device!Off, Device!Foreign
<1> QED BY <1>1, TypeCorrect, WriteTargetCorrect, DisplayStep, PTL
        DEF Spec, WholeFrames, Display!Spec

-----------------------------------------------------------------------------
(***************************************************************************)
(* The bookkeeping of the two slots never claims more than their memory   *)
(* holds, so a frame repaired where the plan says and nowhere else is the *)
(* whole picture.  BaseCoherent, LayerCoherent, PostedPicture and         *)
(* MirrorHonest are proved together: each needs the others.               *)
(***************************************************************************)

Coherence ==
    /\ LoopDiscipline
    /\ BaseCoherent /\ LayerCoherent
    /\ PlanFaithful /\ PostedPicture
    /\ MirrorHonest /\ PlannedPublication

-----------------------------------------------------------------------------
(* Facts about values. *)

(* The three kinds of layer record are told apart by their version. *)
LEMMA LayerStateFacts ==
    /\ NoLayer.version = "none" /\ OldLayer.version = "old" /\ OldLayer # NoLayer
    /\ \A o \in Offsets : /\ Current(o).version = "now" /\ Current(o).offset = o
                          /\ Current(o) # NoLayer
    /\ \A h \in LayerStates :
          /\ h.version = "none" <=> h = NoLayer
          /\ h.version = "now" => h.offset \in Offsets /\ h = Current(h.offset)
  BY DEF LayerStates, NoLayer, OldLayer, Current

(* Base, stale and direct pixels are no layer's pixels. *)
LEMMA PixelFacts ==
    /\ Base # Stale /\ Base[1] \notin Roles
    /\ \A r \in Roles : \A o : <<r, o>> # Base /\ <<r, o>>[1] = r
  BY DEF Base, Stale, Roles

(* What the frame loop asks of the presenter for a role. *)
LEMMA DesiredFacts ==
    ASSUME TypeOK, NEW r \in Roles
    PROVE  /\ layer[r].on \in BOOLEAN /\ layer[r].offset \in Offsets
           /\ DesiredLayers[r] = Desired(r)
           /\ layer[r].on => /\ Desired(r) = Current(layer[r].offset)
                             /\ Desired(r).version = "now"
                             /\ Desired(r).offset = layer[r].offset
                             /\ Desired(r) # NoLayer
           /\ ~layer[r].on => Desired(r) = NoLayer
  BY LayerStateFacts DEF TypeOK, Layers, Desired, DesiredLayers

(* What each operation does to a ledger, field by field. *)
LEMMA FreshEffect ==
    \A s \in Slots : /\ FreshLedger.debt[s] = Cells
                     /\ \A r \in Roles : /\ FreshLedger.held[s][r] = NoLayer
                                         /\ FreshLedger.held[s][r].version = "none"
  BY LayerStateFacts DEF FreshLedger, NoLayers

(* A new layer version touches only the slots' records of that layer. *)
LEMMA AgeVersionEffect ==
    ASSUME NEW L \in Ledgers, NEW q \in Roles
    PROVE  /\ AgeVersion(L, q).debt = L.debt
           /\ AgeVersion(L, q).heldPub = L.heldPub
           /\ \A s \in Slots, r \in Roles :
                 AgeVersion(L, q).held[s][r] =
                    IF r = q /\ L.held[s][r].version = "now" THEN OldLayer ELSE L.held[s][r]
<1>1. L.held \in [Slots -> HeldLayers]
  BY DEF Ledgers
<1>2. AgeVersion(L, q).held = [s \in Slots |->
         IF L.held[s][q].version = "now" THEN [L.held[s] EXCEPT ![q] = OldLayer] ELSE L.held[s]]
  BY DEF AgeVersion, Ledgers
<1>3. AgeVersion(L, q).debt = L.debt /\ AgeVersion(L, q).heldPub = L.heldPub
  BY DEF AgeVersion, Ledgers
<1> QED BY <1>1, <1>2, <1>3 DEF HeldLayers

(* A new publication touches only the slots' records of that publication. *)
LEMMA AgePublicationEffect ==
    ASSUME NEW L \in Ledgers, NEW q \in Roles
    PROVE  /\ AgePublication(L, q).debt = L.debt
           /\ AgePublication(L, q).held = L.held
           /\ \A s \in Slots, r \in Roles :
                 AgePublication(L, q).heldPub[s][r] =
                    IF r = q /\ L.heldPub[s][r] = "now" THEN "old" ELSE L.heldPub[s][r]
<1>1. L.heldPub \in [Slots -> Publications]
  BY DEF Ledgers
<1>2. AgePublication(L, q).heldPub = [s \in Slots |->
         IF L.heldPub[s][q] = "now" THEN [L.heldPub[s] EXCEPT ![q] = "old"] ELSE L.heldPub[s]]
  BY DEF AgePublication, Ledgers
<1>3. AgePublication(L, q).debt = L.debt /\ AgePublication(L, q).held = L.held
  BY DEF AgePublication, Ledgers
<1> QED BY <1>1, <1>2, <1>3 DEF Publications

(* record_damage only adds to what the slots owe. *)
LEMMA RecordDamageEffect ==
    ASSUME NEW L \in Ledgers, NEW D \in SUBSET Cells, NEW O \in SUBSET Slots
    PROVE  /\ RecordDamage(L, D, O).held = L.held
           /\ RecordDamage(L, D, O).heldPub = L.heldPub
           /\ \A s \in Slots : L.debt[s] \union D \subseteq RecordDamage(L, D, O).debt[s]
  BY DEF RecordDamage, Ledgers

(* mark_post_success touches only the slot that was posted. *)
LEMMA PostSuccessEffect ==
    ASSUME NEW L \in Ledgers, NEW s \in Slots, NEW d, NEW P
    PROVE  /\ PostSuccess(L, s, d, P).debt[s] = {}
           /\ PostSuccess(L, s, d, P).held[s] = d
           /\ PostSuccess(L, s, d, P).heldPub[s] = P
           /\ \A t \in Slots \ {s} : /\ PostSuccess(L, s, d, P).debt[t] = L.debt[t]
                                     /\ PostSuccess(L, s, d, P).held[t] = L.held[t]
                                     /\ PostSuccess(L, s, d, P).heldPub[t] = L.heldPub[t]
  BY DEF PostSuccess, Ledgers

(* mark_attempt_failed touches only the slot that failed. *)
LEMMA AttemptFailedEffect ==
    ASSUME NEW L \in Ledgers, NEW s \in Slots
    PROVE  /\ AttemptFailed(L, s).debt[s] = Cells
           /\ \A r \in Roles : /\ AttemptFailed(L, s).held[s][r] = NoLayer
                               /\ AttemptFailed(L, s).held[s][r].version = "none"
           /\ \A t \in Slots \ {s} : /\ AttemptFailed(L, s).debt[t] = L.debt[t]
                                     /\ AttemptFailed(L, s).held[t] = L.held[t]
                                     /\ AttemptFailed(L, s).heldPub[t] = L.heldPub[t]
<1>1. /\ AttemptFailed(L, s).debt = [L.debt EXCEPT ![s] = Cells]
      /\ AttemptFailed(L, s).held = [L.held EXCEPT ![s] = NoLayers]
      /\ AttemptFailed(L, s).heldPub = [L.heldPub EXCEPT ![s] = NoPublications]
  BY DEF AttemptFailed, Ledgers
<1> QED BY <1>1, LayerStateFacts DEF Ledgers, NoLayers

(* A synchronised ledger is the old one or owes everything. *)
LEMMA SyncedEffect ==
    /\ SyncedLedger \in {ledger, FreshLedger}
    /\ Recovered => SyncedLedger = FreshLedger /\ SyncedMirror = NoMirrors
    /\ ~Recovered => SyncedLedger = ledger /\ SyncedMirror = mirror
  BY DEF SyncedLedger, SyncedMirror

-----------------------------------------------------------------------------
(* The steps, by what they touch. *)

(* Steps that leave the presenter's bookkeeping and its memory alone.     *)
LEMMA QuietSteps ==
    ASSUME AwaitDone \/ AwaitInterrupted \/ Flip \/ Takeover \/ UNCHANGED vars
    PROVE  /\ UNCHANGED <<layer, damage, owed, open, ledger, mirror, slot, plan, mem>>
           /\ pc' = pc \/ (pc \in {"await", "awaitDirect"} /\ pc' = "render")
  BY DEF AwaitDone, AwaitInterrupted, Flip, Takeover, LoopVars, vars, device, frame, work

(* A dropped presenter leaves a fresh ledger behind. *)
LEMMA FreezeSteps ==
    ASSUME PlanFails \/ ComposeFails \/ PostRefused \/ PostLost \/ AwaitFails
    PROVE  /\ open' = FALSE /\ pc' = "render"
           /\ ledger' = FreshLedger /\ mirror' = NoMirrors
  BY DEF PlanFails, ComposeFails, PostRefused, PostLost, AwaitFails, Freeze

(* Steps that make a frame. *)
LEMMA MakeSteps ==
    ASSUME TypeOK, Make
    PROVE  /\ pc = "render" /\ pc' = "render"
           /\ UNCHANGED <<owed, open, mirror, slot, plan>>
           /\ ledger'.debt = ledger.debt
           /\ damage \subseteq damage'
           /\ \A s \in Slots, r \in Roles :
                 /\ ledger'.held[s][r] = NoLayer <=> ledger.held[s][r] = NoLayer
                 /\ ledger'.held[s][r].version = "now" => ledger'.held[s][r] = ledger.held[s][r]
                 /\ ledger'.heldPub[s][r] = "now" => ledger.heldPub[s][r] = "now"
<1>l. ledger \in Ledgers /\ damage \in SUBSET Cells
  BY DEF TypeOK
<1> DEFINE Aged(L) ==
      /\ L.debt = ledger.debt
      /\ \A s \in Slots, r \in Roles :
            /\ L.held[s][r] = NoLayer <=> ledger.held[s][r] = NoLayer
            /\ L.held[s][r].version = "now" => L.held[s][r] = ledger.held[s][r]
            /\ L.heldPub[s][r] = "now" => ledger.heldPub[s][r] = "now"
<1>0. Aged(ledger)
  OBVIOUS
<1>1. \A q \in Roles : Aged(AgePublication(ledger, q))
  BY <1>l, AgePublicationEffect
<1>2. \A q \in Roles : Aged(AgeVersion(ledger, q))
  BY <1>l, AgeVersionEffect, LayerStateFacts
<1>3. \A q \in Roles : Aged(AgeVersion(AgePublication(ledger, q), q))
  <2> TAKE q \in Roles
  <2> DEFINE P == AgePublication(ledger, q)
  <2>1. P \in Ledgers
    BY <1>l, LedgerTyped DEF Slots
  <2>2. Aged(P)
    BY <1>1
  <2> HIDE DEF P
  <2>3. Aged(AgeVersion(P, q))
    BY <2>1, <2>2, AgeVersionEffect, LayerStateFacts
  <2> QED BY <2>3 DEF P
<1> HIDE DEF Aged
<1>4. /\ pc = "render" /\ pc' = "render"
      /\ UNCHANGED <<owed, open, mirror, slot, plan>>
  BY DEF Make, RenderBase, LayerContent, LayerShow, LayerHide, ListScroll, device, work
<1>5. damage \subseteq damage'
  BY <1>l DEF Make, RenderBase, LayerContent, LayerShow, LayerHide, ListScroll
<1>6. Aged(ledger')
  <2>1. ASSUME NEW D, RenderBase(D) PROVE Aged(ledger')
    BY <1>0, <2>1 DEF RenderBase
  <2>2. ASSUME NEW q \in Roles, LayerContent(q) PROVE Aged(ledger')
    BY <1>0, <1>1, <1>2, <1>3, <2>2 DEF LayerContent
  <2>3. ASSUME NEW q \in Roles, LayerShow(q) \/ LayerHide(q) PROVE Aged(ledger')
    BY <1>0, <2>3 DEF LayerShow, LayerHide
  <2>4. ASSUME NEW o, ListScroll(o) PROVE Aged(ledger')
    BY <1>0, <1>1, <2>4 DEF ListScroll, Roles
  <2> QED BY <2>1, <2>2, <2>3, <2>4 DEF Make
<1> QED BY <1>4, <1>5, <1>6 DEF Aged

(* Steps between the frame loop and the presenter that only move damage.  *)
LEMMA HandOverSteps ==
    ASSUME Submit \/ Suppress \/ PreemptRaster
    PROVE  /\ pc = "render" /\ pc' \in {"render", "present"}
           /\ UNCHANGED <<layer, open, ledger, mirror, slot, plan, mem>>
           /\ pc' = "present" => open /\ ~owed'
  BY DEF Submit, Suppress, PreemptRaster, device, work

(* Every step is one of these. *)
LEMMA StepCases ==
    ASSUME [Next]_vars
    PROVE  \/ Make
           \/ Submit \/ Suppress \/ PreemptRaster
           \/ \E O \in SUBSET Slots : PlanNext(O)
           \/ \E sparse \in BOOLEAN : Compose(sparse)
           \/ PostConfirmed \/ Reopen
           \/ PlanFails \/ ComposeFails \/ PostRefused \/ PostLost \/ AwaitFails
           \/ AwaitDone \/ AwaitInterrupted \/ Flip \/ Takeover \/ UNCHANGED vars
           \/ DirectRender \/ DirectPost \/ DirectDiscard \/ DirectModeEnds
  BY DEF Next, Present, DirectPath

(* A frozen display keeps its full debts, and a frame under presentation  *)
(* owes nothing else.                                                     *)
LEMMA DisciplineStep == TypeOK /\ LoopDiscipline /\ [Next]_vars => LoopDiscipline'
<1> SUFFICES ASSUME TypeOK, LoopDiscipline, [Next]_vars PROVE LoopDiscipline'
  OBVIOUS
<1> USE DEF LoopDiscipline
<1>l. ledger \in Ledgers
  BY DEF TypeOK
<1>1. CASE Make
  BY <1>1, MakeSteps
<1>2. CASE Submit \/ Suppress \/ PreemptRaster
  BY <1>2, HandOverSteps
<1>3. ASSUME NEW O \in SUBSET Slots, PlanNext(O) PROVE LoopDiscipline'
  BY <1>3 DEF PlanNext
<1>4. ASSUME NEW sparse \in BOOLEAN, Compose(sparse) PROVE LoopDiscipline'
  BY <1>4 DEF Compose, frame
<1>5. CASE PostConfirmed
  BY <1>5 DEF PostConfirmed, frame
<1>6. CASE Reopen
  BY <1>6 DEF Reopen, frame
<1>7. CASE PlanFails \/ ComposeFails \/ PostRefused \/ PostLost \/ AwaitFails
  BY <1>7, FreezeSteps, FreshEffect
<1>8. CASE AwaitDone \/ AwaitInterrupted \/ Flip \/ Takeover \/ UNCHANGED vars
  BY <1>8, QuietSteps
<1>9. CASE DirectRender
  BY <1>9 DEF DirectRender, frame
<1>10. CASE DirectPost
  BY <1>10 DEF DirectPost
<1>11. CASE DirectDiscard
  BY <1>11 DEF DirectDiscard
<1>12. CASE DirectModeEnds
  BY <1>12, FreshEffect DEF DirectModeEnds, frame
<1> QED BY <1>1, <1>2, <1>3, <1>4, <1>5, <1>6, <1>7, <1>8, <1>9, <1>10, <1>11, <1>12, StepCases

-----------------------------------------------------------------------------
(* BaseCoherent, read at one cell of one slot. *)

Clear(s, c) ==
    /\ open /\ ~owed /\ ~InTransit(s)
    /\ c \notin ledger.debt[s] \union damage
    /\ \A r \in Roles : c \in LayerRect[r] =>
          ~Holds(s, r) /\ ~(r \in Published /\ layer[r].on)

(* BaseCoherent says that every clear cell of a slot reads the base. *)
LEMMA ClearMeaning ==
    BaseCoherent <=> \A s \in Slots, c \in Cells : Clear(s, c) => mem[s][c] = Base
  BY DEF BaseCoherent, Clear

(* The same after a step. *)
LEMMA ClearMeaningNext ==
    BaseCoherent' <=> \A s \in Slots, c \in Cells : Clear(s, c)' => mem'[s][c] = Base
  BY DEF BaseCoherent, Clear

(* Making a frame: new base pixels are damage, and a published layer that *)
(* retires damages all.                                                   *)
LEMMA BaseMakeStep ==
    ASSUME TypeOK, BaseCoherent, Make
    PROVE  BaseCoherent'
<1>s. SUFFICES ASSUME NEW s \in Slots, NEW c \in Cells, Clear(s, c)'
               PROVE  mem'[s][c] = Base
  BY ClearMeaningNext
<1> USE DEF Clear, InTransit, Holds
<1>m. mem \in [Slots -> [Cells -> Pixels]] /\ layer \in [Roles -> Layers]
      /\ damage \in SUBSET Cells
  BY DEF TypeOK
<1>k. /\ open' = open /\ owed' = owed /\ ledger'.debt = ledger.debt
      /\ damage \subseteq damage' /\ pc = "render"
  BY MakeSteps
<1>0. open /\ ~owed /\ ~InTransit(s) /\ c \notin ledger.debt[s] \union damage
  <2>1. open' /\ ~owed' /\ c \notin ledger'.debt[s] \union damage'
    BY <1>s
  <2>2. open /\ ~owed
    BY <1>k, <2>1
  <2>3. c \notin ledger.debt[s] \union damage
    BY <1>k, <2>1
  <2> QED BY <1>k, <2>2, <2>3
<1>1. ASSUME \A r \in Roles : layer[r].on => layer'[r].on
      PROVE  mem[s][c] = Base
  <2>2. ASSUME NEW r \in Roles, c \in LayerRect[r]
        PROVE  ~Holds(s, r) /\ ~(r \in Published /\ layer[r].on)
    BY <1>1, <1>s, <2>2, MakeSteps
  <2>3. Clear(s, c)
    BY <1>0, <2>2
  <2> QED BY <2>3, ClearMeaning
<1>2. ASSUME NEW D \in SUBSET Cells, RenderBase(D) PROVE mem'[s][c] = Base
  <2>1. mem[s][c] = Base /\ c \notin D
    BY <1>1, <1>2, <1>s DEF RenderBase
  <2> QED BY <1>2, <1>m, <2>1 DEF RenderBase
<1>3. ASSUME NEW q \in Roles, LayerContent(q) PROVE mem'[s][c] = Base
  <2>1. \A r \in Roles : layer[r].on => layer'[r].on
    BY <1>3, <1>m DEF LayerContent, Layers
  <2>2. mem[s][c] = Base
    BY <1>1, <2>1
  <2> QED BY <1>3, <1>m, <2>2, PixelFacts DEF LayerContent, AgeLayer
<1>4. ASSUME NEW o, ListScroll(o) PROVE mem'[s][c] = Base
  <2>1. \A r \in Roles : layer[r].on => layer'[r].on
    BY <1>4, <1>m DEF ListScroll, Layers
  <2>2. mem[s][c] = Base
    BY <1>1, <2>1
  <2>3. AgeLayer("arcade") \/ mem' = mem
    BY <1>4 DEF ListScroll
  <2> QED BY <1>m, <2>2, <2>3, PixelFacts DEF AgeLayer, Roles
<1>5. ASSUME NEW q \in Roles, LayerShow(q) PROVE mem'[s][c] = Base
  <2>1. \A r \in Roles : layer[r].on => layer'[r].on
    BY <1>5, <1>m DEF LayerShow, Layers
  <2> QED BY <1>1, <1>5, <2>1 DEF LayerShow
<1>6. ASSUME NEW q \in Roles, LayerHide(q) PROVE mem'[s][c] = Base
  <2>1. q \notin Published
    BY <1>6, <1>s DEF LayerHide
  <2>2. mem' = mem /\ damage' = damage
    BY <1>6, <2>1 DEF LayerHide
  <2>3. \A r \in Roles \ {q} : layer'[r] = layer[r]
    BY <1>6, <1>m DEF LayerHide
  <2>4. ledger' = ledger
    BY <1>6 DEF LayerHide
  <2>5. Clear(s, c)
    <3>1. ASSUME NEW r \in Roles, c \in LayerRect[r]
          PROVE  ~Holds(s, r) /\ ~(r \in Published /\ layer[r].on)
      BY <1>s, <2>1, <2>3, <2>4, <3>1
    <3> QED BY <1>0, <3>1
  <2> QED BY <2>2, <2>5, ClearMeaning
<1> QED BY <1>2, <1>3, <1>4, <1>5, <1>6 DEF Make

(* Handing a frame over: what shield_base_damage_under_publication takes  *)
(* from the damage lies under a published layer.                          *)
LEMMA BaseSubmitStep ==
    ASSUME TypeOK, BaseCoherent, Submit
    PROVE  BaseCoherent'
<1> SUFFICES ASSUME NEW s \in Slots, NEW c \in Cells, Clear(s, c)'
             PROVE  mem'[s][c] = Base
  BY ClearMeaningNext
<1>1. UNCHANGED <<layer, open, ledger, mem>> /\ pc = "render" /\ open
      /\ damage' = ShieldDamage(FrameDamage)
  BY DEF Submit, Clear, device
<1>2. \A r \in Roles : c \in LayerRect[r] => ~Shielded(FrameDamage, r)
  BY <1>1 DEF Clear, Shielded
<1>3. c \notin FrameDamage
  BY <1>1, <1>2 DEF Clear, ShieldDamage
<1>4. ~owed /\ c \notin damage
  BY <1>3 DEF FrameDamage
<1>5. Clear(s, c)
  BY <1>1, <1>4 DEF Clear, InTransit, Holds
<1> QED BY <1>1, <1>5, ClearMeaning

(* plan_next moves the damage of the frame into the debts of both slots. *)
LEMMA BasePlanStep ==
    ASSUME TypeOK, BaseCoherent, NEW O \in SUBSET Slots, PlanNext(O)
    PROVE  BaseCoherent'
<1> SUFFICES ASSUME NEW s \in Slots, NEW c \in Cells, Clear(s, c)'
             PROVE  mem'[s][c] = Base
  BY ClearMeaningNext
<1> USE DEF InTransit, Holds
<1>1. /\ UNCHANGED <<layer, owed, open, mem>> /\ pc = "present"
      /\ ledger' = RecordDamage(SyncedLedger, damage, O)
  BY DEF PlanNext
<1>2. /\ ledger'.held = SyncedLedger.held
      /\ SyncedLedger.debt[s] \union damage \subseteq ledger'.debt[s]
  BY <1>1, SyncTyped, RecordDamageEffect DEF TypeOK
<1>3. SyncedLedger = ledger
  BY <1>2, SyncedEffect, FreshEffect DEF Clear
<1>4. Clear(s, c)
  BY <1>1, <1>2, <1>3 DEF Clear
<1> QED BY <1>1, <1>4, ClearMeaning

(* Composing writes only the slot in transit. *)
LEMMA BaseComposeStep ==
    ASSUME TypeOK, BaseCoherent, NEW sparse, Compose(sparse)
    PROVE  BaseCoherent'
<1> SUFFICES ASSUME NEW s \in Slots, NEW c \in Cells, Clear(s, c)'
             PROVE  mem'[s][c] = Base
  BY ClearMeaningNext
<1> USE DEF InTransit, Holds
<1>1. /\ UNCHANGED <<layer, damage, owed, open, ledger, slot>>
      /\ pc = "compose" /\ pc' = "post"
  BY DEF Compose, frame, work
<1>2. s # slot
  BY <1>1 DEF Clear
<1>3. mem'[s] = mem[s]
  BY <1>2 DEF Compose, TypeOK
<1>4. Clear(s, c)
  BY <1>1 DEF Clear
<1> QED BY <1>3, <1>4, ClearMeaning

(* mark_post_success clears the debt of a slot that shows the whole       *)
(* picture.                                                               *)
LEMMA BasePostStep ==
    ASSUME TypeOK, LoopDiscipline, BaseCoherent, PostedPicture, PostConfirmed
    PROVE  BaseCoherent'
<1> SUFFICES ASSUME NEW s \in Slots, NEW c \in Cells, Clear(s, c)'
             PROVE  mem'[s][c] = Base
  BY ClearMeaningNext
<1> USE DEF InTransit, Holds
<1> DEFINE P == IF Recovered THEN NoPublications ELSE plan.pub
<1>1. /\ UNCHANGED <<layer, damage, owed, open, mem, slot>>
      /\ pc = "post" /\ pc' = "await" /\ slot \in Slots
      /\ ledger' = PostSuccess(SyncedLedger, slot, DesiredLayers, P)
  BY DEF PostConfirmed, frame, TypeOK
<1> HIDE DEF P
<1>2. CASE s = slot
  <2>1. ledger'.held[s] = DesiredLayers
    BY <1>1, <1>2, SyncTyped, PostSuccessEffect
  <2>2. ~ \E r \in Roles : Covers(r, c)
    BY <2>1, DesiredFacts DEF Clear, Covers
  <2> QED BY <1>1, <1>2, <2>2 DEF PostedPicture, RightPixel
<1>3. CASE s # slot
  <2>1. /\ ledger'.debt[s] = SyncedLedger.debt[s] /\ ledger'.held[s] = SyncedLedger.held[s]
    BY <1>1, <1>3, SyncTyped, PostSuccessEffect
  <2>2. SyncedLedger = ledger
    BY <2>1, SyncedEffect, FreshEffect DEF Clear
  <2>3. Clear(s, c)
    BY <1>1, <1>3, <2>1, <2>2 DEF Clear
  <2> QED BY <1>1, <2>3, ClearMeaning
<1> QED BY <1>2, <1>3

(* A direct frame leaves full debts behind, of its slot or of both. *)
LEMMA BaseDirectStep ==
    ASSUME TypeOK, BaseCoherent, DirectRender \/ DirectDiscard
    PROVE  BaseCoherent'
<1> SUFFICES ASSUME NEW s \in Slots, NEW c \in Cells, Clear(s, c)'
             PROVE  mem'[s][c] = Base
  BY ClearMeaningNext
<1> USE DEF InTransit, Holds
<1>1. CASE DirectRender
  <2>1. /\ UNCHANGED <<layer, damage, owed, open>> /\ ledger' = SyncedLedger
        /\ pc = "render" /\ pc' = "direct"
    BY <1>1 DEF DirectRender, frame
  <2>2. SyncedLedger = ledger
    BY <2>1, SyncedEffect, FreshEffect DEF Clear
  <2>3. s # slot' /\ mem'[s] = mem[s]
    BY <1>1, <2>1 DEF Clear, DirectRender, TypeOK
  <2>4. Clear(s, c)
    BY <2>1, <2>2 DEF Clear
  <2> QED BY <2>3, <2>4, ClearMeaning
<1>2. CASE DirectDiscard
  <2>1. /\ UNCHANGED <<layer, open, slot, mem>> /\ ~owed /\ owed' = (damage # {})
        /\ ledger' = AttemptFailed(ledger, slot)
        /\ pc = "direct" /\ pc' = "render" /\ slot \in Slots /\ ledger \in Ledgers
    BY <1>2 DEF DirectDiscard, work, TypeOK
  <2>2. damage = {}
    BY <2>1 DEF Clear
  <2>3. s # slot
    BY <2>1, AttemptFailedEffect DEF Clear
  <2>4. Clear(s, c)
    BY <2>1, <2>2, <2>3, AttemptFailedEffect DEF Clear
  <2> QED BY <2>1, <2>4, ClearMeaning
<1> QED BY <1>1, <1>2

(* No step breaks BaseCoherent. *)
LEMMA BaseStep ==
    TypeOK /\ LoopDiscipline /\ BaseCoherent /\ PostedPicture /\ [Next]_vars => BaseCoherent'
<1> SUFFICES ASSUME TypeOK, LoopDiscipline, BaseCoherent, PostedPicture, [Next]_vars
             PROVE  BaseCoherent'
  OBVIOUS
<1>1. CASE Suppress \/ PreemptRaster
  BY <1>1 DEF Suppress, PreemptRaster, BaseCoherent
<1>2. CASE PlanFails \/ ComposeFails \/ PostRefused \/ PostLost \/ AwaitFails
  BY <1>2, FreezeSteps DEF BaseCoherent
<1>3. CASE Reopen
  <2>1. ledger' = ledger /\ \A s \in Slots : ledger.debt[s] = Cells
    BY <1>3 DEF Reopen, LoopDiscipline
  <2> QED BY <2>1 DEF BaseCoherent
<1>4. CASE AwaitDone \/ AwaitInterrupted \/ Flip \/ Takeover \/ UNCHANGED vars
  <2>1. \A s : InTransit(s)' = InTransit(s)
    BY <1>4, QuietSteps DEF InTransit
  <2>2. /\ open' = open /\ owed' = owed /\ ledger' = ledger /\ damage' = damage
        /\ layer' = layer /\ mem' = mem
    BY <1>4, QuietSteps
  <2> QED BY <2>1, <2>2 DEF BaseCoherent, Holds
<1>5. CASE DirectPost \/ DirectModeEnds
  <2>1. ledger' = FreshLedger
    BY <1>5 DEF DirectPost, DirectModeEnds
  <2> QED BY <2>1, FreshEffect DEF BaseCoherent
<1> QED BY <1>1, <1>2, <1>3, <1>4, <1>5, BaseMakeStep, BaseSubmitStep, BasePlanStep,
           BaseComposeStep, BasePostStep, BaseDirectStep, StepCases

-----------------------------------------------------------------------------
(* LayerCoherent, read at one layer of one slot. *)

Trusted(s, r) ==
    /\ ~InTransit(s)
    /\ ledger.held[s][r].version = "now"
    /\ r \in Published => ledger.heldPub[s][r] = "now"

Shows(s, r) == \A c \in LayerRect[r] : mem[s][c] = <<r, ledger.held[s][r].offset>>

(* LayerCoherent says that every trusted layer record is shown. *)
LEMMA TrustedMeaning ==
    /\ LayerCoherent <=> \A s \in Slots, r \in Roles : Trusted(s, r) => Shows(s, r)
    /\ LayerCoherent' <=> \A s \in Slots, r \in Roles : Trusted(s, r)' => Shows(s, r)'
  BY DEF LayerCoherent, Trusted, Shows

(* New content, a scroll or a new publication ages the records of the     *)
(* layer it stales.                                                       *)
LEMMA LayerMakeStep ==
    ASSUME TypeOK, LayerCoherent, Make
    PROVE  LayerCoherent'
<1>s. SUFFICES ASSUME NEW s \in Slots, NEW r \in Roles, Trusted(s, r)'
               PROVE  Shows(s, r)'
  BY TrustedMeaning
<1>m. mem \in [Slots -> [Cells -> Pixels]] /\ ledger \in Ledgers
      /\ LayerRect[r] \subseteq Cells
  BY LayoutAssumption DEF TypeOK
<1>1. Trusted(s, r) /\ ledger'.held[s][r] = ledger.held[s][r]
  BY <1>s, MakeSteps DEF Trusted, InTransit
<1>2. Shows(s, r)
  BY <1>1, TrustedMeaning
<1>3. ASSUME \A c \in LayerRect[r] :
                mem[s][c] # Base /\ mem[s][c][1] = r => mem'[s][c] = mem[s][c]
      PROVE  Shows(s, r)'
  BY <1>1, <1>2, <1>3, PixelFacts DEF Shows
<1>4. ASSUME NEW D \in SUBSET Cells, RenderBase(D) PROVE Shows(s, r)'
  BY <1>3, <1>4, <1>m DEF RenderBase
<1>5. ASSUME NEW q \in Roles, LayerShow(q) \/ LayerHide(q) PROVE Shows(s, r)'
  BY <1>3, <1>5, <1>m DEF LayerShow, LayerHide
<1>6. ASSUME NEW q \in Roles, AgeLayer(q), q # r PROVE Shows(s, r)'
  BY <1>3, <1>6, <1>m DEF AgeLayer
<1>7. ASSUME NEW q \in Roles, LayerContent(q) PROVE Shows(s, r)'
  <2> DEFINE L == IF q \in Published THEN AgePublication(ledger, q) ELSE ledger
  <2>1. L \in Ledgers
    BY <1>m, LedgerTyped DEF Slots
  <2>2. ledger' = IF q \in Tracking THEN L ELSE AgeVersion(L, q)
    BY <1>7 DEF LayerContent
  <2>3. CASE q = r
    <3>1. CASE q \in Tracking
      <4>1. q \in Published /\ ledger' = AgePublication(ledger, q)
        BY <2>2, <3>1 DEF Tracking
      <4> QED BY <1>m, <1>s, <2>3, <4>1, AgePublicationEffect DEF Trusted
    <3>2. CASE q \notin Tracking
      <4>1. ledger' = AgeVersion(L, q)
        BY <2>2, <3>2
      <4> HIDE DEF L
      <4> QED BY <1>s, <2>1, <2>3, <4>1, AgeVersionEffect, LayerStateFacts DEF Trusted
    <3> QED BY <3>1, <3>2
  <2>4. CASE q # r
    BY <1>6, <1>7, <2>4 DEF LayerContent
  <2> QED BY <2>3, <2>4
<1>8. ASSUME NEW o, ListScroll(o) PROVE Shows(s, r)'
  <2>1. CASE "arcade" \in Published
    <3>1. ledger' = AgePublication(ledger, "arcade") /\ AgeLayer("arcade")
      BY <1>8, <2>1 DEF ListScroll
    <3>2. r # "arcade"
      BY <1>m, <1>s, <2>1, <3>1, AgePublicationEffect DEF Trusted, Roles
    <3> QED BY <1>6, <3>1, <3>2 DEF Roles
  <2>2. CASE "arcade" \notin Published
    BY <1>3, <1>8, <2>2 DEF ListScroll
  <2> QED BY <2>1, <2>2
<1> QED BY <1>4, <1>5, <1>7, <1>8 DEF Make

(* Planning changes no record and no pixel. *)
LEMMA LayerPlanStep ==
    ASSUME TypeOK, LayerCoherent, NEW O \in SUBSET Slots, PlanNext(O)
    PROVE  LayerCoherent'
<1> SUFFICES ASSUME NEW s \in Slots, NEW r \in Roles, Trusted(s, r)'
             PROVE  Shows(s, r)'
  BY TrustedMeaning
<1>1. mem' = mem /\ pc = "present" /\ ledger' = RecordDamage(SyncedLedger, damage, O)
  BY DEF PlanNext
<1>2. ledger'.held = SyncedLedger.held /\ ledger'.heldPub = SyncedLedger.heldPub
  BY <1>1, SyncTyped, RecordDamageEffect DEF TypeOK
<1>3. SyncedLedger = ledger
  BY <1>2, SyncedEffect, FreshEffect DEF Trusted
<1>4. Trusted(s, r)
  BY <1>1, <1>2, <1>3 DEF Trusted, InTransit
<1> QED BY <1>1, <1>2, <1>3, <1>4, TrustedMeaning DEF Shows

(* Composing writes only the slot in transit. *)
LEMMA LayerComposeStep ==
    ASSUME TypeOK, LayerCoherent, NEW sparse, Compose(sparse)
    PROVE  LayerCoherent'
<1> SUFFICES ASSUME NEW s \in Slots, NEW r \in Roles, Trusted(s, r)'
             PROVE  Shows(s, r)'
  BY TrustedMeaning
<1>1. /\ UNCHANGED <<ledger, slot>> /\ pc = "compose" /\ pc' = "post"
  BY DEF Compose, work
<1>2. s # slot
  BY <1>1 DEF Trusted, InTransit
<1>3. mem'[s] = mem[s]
  BY <1>2 DEF Compose, TypeOK
<1>4. Trusted(s, r)
  BY <1>1 DEF Trusted, InTransit
<1> QED BY <1>1, <1>3, <1>4, TrustedMeaning DEF Shows

(* mark_post_success records layers of a slot that shows the whole        *)
(* picture.                                                               *)
LEMMA LayerPostStep ==
    ASSUME TypeOK, LayerCoherent, PostedPicture, PostConfirmed
    PROVE  LayerCoherent'
<1> SUFFICES ASSUME NEW s \in Slots, NEW r \in Roles, Trusted(s, r)'
             PROVE  Shows(s, r)'
  BY TrustedMeaning
<1> DEFINE P == IF Recovered THEN NoPublications ELSE plan.pub
<1>1. /\ UNCHANGED <<layer, mem, slot>>
      /\ pc = "post" /\ pc' = "await" /\ slot \in Slots
      /\ ledger' = PostSuccess(SyncedLedger, slot, DesiredLayers, P)
  BY DEF PostConfirmed, frame, TypeOK
<1> HIDE DEF P
<1>2. CASE s = slot
  <2>1. ledger'.held[s][r] = Desired(r)
    BY <1>1, <1>2, SyncTyped, PostSuccessEffect, DesiredFacts
  <2>2. layer[r].on /\ Desired(r).offset = layer[r].offset
    BY <2>1, DesiredFacts, LayerStateFacts DEF Trusted
  <2>3. ASSUME NEW c \in LayerRect[r] PROVE mem[s][c] = Pixel(r)
    <3>1. c \in Cells /\ Covers(r, c)
      BY <2>2, LayoutAssumption DEF Covers
    <3>2. \A q \in Roles : Covers(q, c) => q = r
      BY <2>3, LayoutAssumption DEF Covers, Roles
    <3> QED BY <1>1, <1>2, <3>1, <3>2 DEF PostedPicture, RightPixel
  <2> QED BY <1>1, <2>1, <2>2, <2>3 DEF Shows, Pixel
<1>3. CASE s # slot
  <2>1. ledger'.heldPub[s] = SyncedLedger.heldPub[s] /\ ledger'.held[s] = SyncedLedger.held[s]
    BY <1>1, <1>3, SyncTyped, PostSuccessEffect
  <2>2. SyncedLedger = ledger
    BY <2>1, SyncedEffect, FreshEffect DEF Trusted
  <2>3. Trusted(s, r)
    BY <1>1, <1>3, <2>1, <2>2 DEF Trusted, InTransit
  <2> QED BY <1>1, <2>1, <2>2, <2>3, TrustedMeaning DEF Shows
<1> QED BY <1>2, <1>3

(* A direct frame leaves no layer record behind that its pixels           *)
(* contradict.                                                            *)
LEMMA LayerDirectStep ==
    ASSUME TypeOK, LayerCoherent, DirectRender \/ DirectDiscard
    PROVE  LayerCoherent'
<1> SUFFICES ASSUME NEW s \in Slots, NEW r \in Roles, Trusted(s, r)'
             PROVE  Shows(s, r)'
  BY TrustedMeaning
<1>1. CASE DirectRender
  <2>1. ledger' = SyncedLedger /\ pc = "render" /\ pc' = "direct"
    BY <1>1 DEF DirectRender
  <2>2. SyncedLedger = ledger
    BY <2>1, SyncedEffect, FreshEffect DEF Trusted
  <2>3. s # slot' /\ mem'[s] = mem[s]
    BY <1>1, <2>1 DEF Trusted, InTransit, DirectRender, TypeOK
  <2>4. Trusted(s, r)
    BY <2>1, <2>2 DEF Trusted, InTransit
  <2> QED BY <2>1, <2>2, <2>3, <2>4, TrustedMeaning DEF Shows
<1>2. CASE DirectDiscard
  <2>1. /\ UNCHANGED <<slot, mem>> /\ ledger' = AttemptFailed(ledger, slot)
        /\ pc = "direct" /\ pc' = "render" /\ slot \in Slots /\ ledger \in Ledgers
    BY <1>2 DEF DirectDiscard, work, TypeOK
  <2>2. s # slot
    BY <2>1, AttemptFailedEffect DEF Trusted
  <2>3. ledger'.held[s] = ledger.held[s] /\ ledger'.heldPub[s] = ledger.heldPub[s]
    BY <2>1, <2>2, AttemptFailedEffect
  <2>4. Trusted(s, r)
    BY <2>1, <2>2, <2>3 DEF Trusted, InTransit
  <2> QED BY <2>1, <2>3, <2>4, TrustedMeaning DEF Shows
<1> QED BY <1>1, <1>2

(* No step breaks LayerCoherent. *)
LEMMA LayerStep ==
    TypeOK /\ LayerCoherent /\ PostedPicture /\ [Next]_vars => LayerCoherent'
<1> SUFFICES ASSUME TypeOK, LayerCoherent, PostedPicture, [Next]_vars
             PROVE  LayerCoherent'
  OBVIOUS
<1>1. ASSUME UNCHANGED <<ledger, mem, slot>>,
             pc \in {"post", "direct"} <=> pc' \in {"post", "direct"}
      PROVE  LayerCoherent'
  BY <1>1 DEF LayerCoherent, InTransit
<1>2. CASE Submit \/ Suppress \/ PreemptRaster
  BY <1>1, <1>2, HandOverSteps
<1>3. CASE Reopen
  BY <1>1, <1>3 DEF Reopen, work
<1>4. CASE AwaitDone \/ AwaitInterrupted \/ Flip \/ Takeover \/ UNCHANGED vars
  BY <1>1, <1>4, QuietSteps
<1>5. CASE \/ PlanFails \/ ComposeFails \/ PostRefused \/ PostLost \/ AwaitFails
           \/ DirectPost \/ DirectModeEnds
  <2>1. ledger' = FreshLedger
    BY <1>5, FreezeSteps DEF DirectPost, DirectModeEnds
  <2> QED BY <2>1, FreshEffect DEF LayerCoherent
<1> QED BY <1>2, <1>3, <1>4, <1>5, LayerMakeStep, LayerPlanStep, LayerComposeStep,
           LayerPostStep, LayerDirectStep, StepCases

-----------------------------------------------------------------------------
(* The plan. *)

(* What a plan for slot s of ledger L knows. *)
LEMMA PlanFacts ==
    ASSUME TypeOK, NEW L \in Ledgers, NEW s \in Slots, NEW r \in Roles
    PROVE  /\ L.debt[s] \subseteq RestoreCells(L, s, Request)
           /\ L.held[s][r] # NoLayer /\ ~layer[r].on
                 => LayerRect[r] \subseteq RestoreCells(L, s, Request)
           /\ ~layer[r].on => Redraw(L, s, Request, r) = "none"
           /\ layer[r].on /\ Redraw(L, s, Request, r) = "none" =>
                 /\ L.held[s][r] = Desired(r)
                 /\ r \in Published => L.heldPub[s][r] = "now"
                 /\ LayerRect[r] \intersect RestoreCells(L, s, Request) = {}
           /\ DiffSafe(L, s, Request, r) => L.held[s][r] # NoLayer
<1>h. L.held[s][r] \in LayerStates
  BY DEF Ledgers, HeldLayers
<1>q. /\ Request.desired[r] = Desired(r)
      /\ Request.update[r] = IF layer[r].on THEN update[r] ELSE "none"
      /\ Request.pub[r] = IF layer[r].on /\ r \in Published THEN "now" ELSE "none"
  BY RequestTyped
<1>1. L.debt[s] \subseteq RestoreCells(L, s, Request)
  BY DEF RestoreCells
<1>2. L.held[s][r] # NoLayer /\ ~layer[r].on
         => LayerRect[r] \subseteq RestoreCells(L, s, Request)
  <2> SUFFICES ASSUME L.held[s][r] # NoLayer, ~layer[r].on
               PROVE  NeedsRestore(L, s, Request, r)
    BY DEF RestoreCells
  <2>1. Request.desired[r].version = "none"
    BY <1>q, DesiredFacts, LayerStateFacts
  <2> QED BY <1>h, <2>1, LayerStateFacts DEF NeedsRestore
<1>3. ~layer[r].on => Redraw(L, s, Request, r) = "none"
  BY <1>q, DesiredFacts DEF Redraw
<1>4. ASSUME layer[r].on, Redraw(L, s, Request, r) = "none"
      PROVE  /\ L.held[s][r] = Desired(r)
             /\ r \in Published => L.heldPub[s][r] = "now"
             /\ LayerRect[r] \intersect RestoreCells(L, s, Request) = {}
  <2>1. /\ Desired(r) # NoLayer /\ Desired(r) = Current(layer[r].offset)
        /\ Desired(r).version = "now" /\ Desired(r).offset = layer[r].offset
    BY <1>4, DesiredFacts
  <2>2. /\ ~RequiresFull(L, s, Request, r)
        /\ L.held[s][r].version = "now"
        /\ L.held[s][r].offset = layer[r].offset
        /\ ~IntersectsRestore(L, s, Request, r)
        /\ Request.update[r] = "none"
    BY <1>4, <1>q, <2>1 DEF Redraw
  <2>3. L.held[s][r] = Desired(r)
    BY <1>h, <2>1, <2>2, LayerStateFacts
  <2>4. r \in Published => L.heldPub[s][r] = "now"
    BY <1>4, <1>q, <2>2 DEF RequiresFull, PublicationChanged
  <2> QED BY <2>2, <2>3, <2>4 DEF IntersectsRestore
<1>5. DiffSafe(L, s, Request, r) => L.held[s][r] # NoLayer
  BY <1>q, DesiredFacts, LayerStateFacts DEF DiffSafe
<1> QED BY <1>1, <1>2, <1>3, <1>4, <1>5

(* What plan_for_slot guarantees of a plan when it is made. *)
LEMMA PlannedFacts ==
    ASSUME TypeOK, NEW O \in SUBSET Slots, PlanNext(O)
    PROVE  PlanFaithful'
<1> DEFINE L == RecordDamage(SyncedLedger, damage, O)
           s == SelectSlot(L, scan)
<1>1. L \in Ledgers
  BY SyncTyped, LedgerTyped DEF Slots, TypeOK
<1>2. s \in Slots
  BY <1>1, SelectedSlot
<1>3. ledger' = L /\ slot' = s /\ layer' = layer
  BY DEF PlanNext
<1>4. /\ plan'.restore = RestoreCells(L, s, Request)
      /\ \A r \in Roles : plan'.redraw[r] = Redraw(L, s, Request, r)
      /\ plan'.diffSafe = DiffSafe(L, s, Request, "arcade")
  BY DEF PlanNext
<1> HIDE DEF L, s
<1>5. ledger'.debt[slot'] \subseteq plan'.restore
  BY <1>1, <1>2, <1>3, <1>4, PlanFacts DEF Roles
<1>6. ASSUME NEW r \in Roles
      PROVE  /\ ledger'.held[slot'][r] # NoLayer /\ ~layer'[r].on
                    => LayerRect[r] \subseteq plan'.restore
             /\ ~layer'[r].on => plan'.redraw[r] = "none"
             /\ layer'[r].on /\ plan'.redraw[r] = "none" =>
                    /\ ledger'.held[slot'][r] = Desired(r)
                    /\ r \in Published => ledger'.heldPub[slot'][r] = "now"
                    /\ LayerRect[r] \intersect plan'.restore = {}
  BY <1>1, <1>2, <1>3, <1>4, PlanFacts
<1>7. plan'.diffSafe => ledger'.held[slot']["arcade"] # NoLayer
  BY <1>1, <1>2, <1>3, <1>4, PlanFacts DEF Roles
<1>8. \A r \in Roles : Desired(r)' = Desired(r)
  BY <1>3 DEF Desired
<1> QED BY <1>5, <1>6, <1>7, <1>8 DEF PlanFaithful, Holds

(* Nothing changes under a plan while it waits to be composed. *)
LEMMA PlanFaithfulStep ==
    TypeOK /\ PlanFaithful /\ [Next]_vars => PlanFaithful'
<1> SUFFICES ASSUME TypeOK, PlanFaithful, [Next]_vars PROVE PlanFaithful'
  OBVIOUS
<1>1. ASSUME pc' # "compose" PROVE PlanFaithful'
  BY <1>1 DEF PlanFaithful
<1>2. CASE AwaitDone \/ AwaitInterrupted \/ Flip \/ Takeover \/ UNCHANGED vars
  <2>1. CASE pc' = "compose"
    <3>1. ledger' = ledger /\ slot' = slot /\ plan' = plan /\ layer' = layer /\ pc = "compose"
      BY <1>2, <2>1, QuietSteps
    <3> QED BY <3>1 DEF PlanFaithful, Holds, Desired
  <2> QED BY <1>1, <2>1
<1>3. CASE Make
  BY <1>1, <1>3, MakeSteps
<1>4. CASE Submit \/ Suppress \/ PreemptRaster
  BY <1>1, <1>4, HandOverSteps
<1>5. ASSUME NEW sparse \in BOOLEAN, Compose(sparse) PROVE PlanFaithful'
  BY <1>1, <1>5 DEF Compose
<1>6. CASE PlanFails \/ ComposeFails \/ PostRefused \/ PostLost \/ AwaitFails
  BY <1>1, <1>6, FreezeSteps
<1>7. CASE \/ PostConfirmed \/ Reopen \/ DirectRender \/ DirectPost \/ DirectDiscard
           \/ DirectModeEnds
  <2>1. pc' # "compose"
    BY <1>7 DEF PostConfirmed, Reopen, DirectRender, DirectPost, DirectDiscard, DirectModeEnds
  <2> QED BY <1>1, <2>1
<1> QED BY <1>2, <1>3, <1>4, <1>5, <1>6, <1>7, PlannedFacts, StepCases

-----------------------------------------------------------------------------
(* The picture. *)

(* Restoring and redrawing what the plan names makes the picture whole,   *)
(* sparse list copies included.                                           *)
LEMMA ComposedPicture ==
    ASSUME TypeOK, Coherence, NEW sparse \in BOOLEAN, Compose(sparse)
    PROVE  PostedPicture'
<1>0. /\ pc = "compose" /\ UNCHANGED <<layer, slot>> /\ slot \in Slots
      /\ mem \in [Slots -> [Cells -> Pixels]]
      /\ sparse => MaySkipEqual
  BY DEF Compose, frame, work, TypeOK
<1> SUFFICES ASSUME NEW c \in Cells PROVE RightPixel(c, mem'[slot][c])
  BY <1>0 DEF PostedPicture, RightPixel, Covers, Pixel
<1>m. mem'[slot][c] = IF Redrawn("arcade", c)       THEN ListPixel(sparse)
                      ELSE IF Redrawn("preview", c) THEN Pixel("preview")
                      ELSE IF c \in plan.restore    THEN Base
                      ELSE mem[slot][c]
  BY <1>0 DEF Compose
<1>p. /\ ledger.debt[slot] \subseteq plan.restore
      /\ \A r \in Roles :
            /\ Holds(slot, r) /\ ~layer[r].on => LayerRect[r] \subseteq plan.restore
            /\ ~layer[r].on => plan.redraw[r] = "none"
            /\ layer[r].on /\ plan.redraw[r] = "none" =>
                  /\ ledger.held[slot][r] = Desired(r)
                  /\ r \in Published => ledger.heldPub[slot][r] = "now"
                  /\ LayerRect[r] \intersect plan.restore = {}
  BY <1>0 DEF Coherence, PlanFaithful
<1>r. \A r \in Roles : Redrawn(r, c) => Covers(r, c)
  BY <1>p, DesiredFacts DEF Redrawn, Covers
<1>1. CASE Redrawn("arcade", c)
  <2>1. sparse => mirror[slot] = "same"
    BY <1>0 DEF Coherence, MirrorHonest
  <2>2. ListPixel(sparse) = Pixel("arcade")
    BY <2>1 DEF ListPixel
  <2> QED BY <1>1, <1>m, <1>r, <2>2 DEF RightPixel, Roles
<1>2. CASE Redrawn("preview", c) /\ ~Redrawn("arcade", c)
  BY <1>2, <1>m, <1>r DEF RightPixel, Roles
<1>3. CASE \A r \in Roles : ~Redrawn(r, c)
  <2>0. mem'[slot][c] = IF c \in plan.restore THEN Base ELSE mem[slot][c]
    BY <1>3, <1>m DEF Roles
  <2>1. ASSUME NEW r \in Roles, Covers(r, c) PROVE mem'[slot][c] = Pixel(r)
    <3>1. layer[r].on /\ plan.redraw[r] = "none" /\ c \in LayerRect[r]
      BY <1>3, <2>1 DEF Covers, Redrawn
    <3>2. /\ ledger.held[slot][r] = Desired(r)
          /\ r \in Published => ledger.heldPub[slot][r] = "now"
          /\ c \notin plan.restore
      BY <1>p, <3>1
    <3>3. Trusted(slot, r)
      BY <1>0, <3>1, <3>2, DesiredFacts DEF Trusted, InTransit
    <3>4. mem[slot][c] = <<r, ledger.held[slot][r].offset>>
      BY <1>0, <3>1, <3>3, TrustedMeaning DEF Shows, Coherence
    <3> QED BY <2>0, <3>1, <3>2, <3>4, DesiredFacts DEF Pixel
  <2>2. ASSUME \A r \in Roles : ~Covers(r, c) PROVE mem'[slot][c] = Base
    <3>1. CASE c \in plan.restore
      BY <2>0, <3>1
    <3>2. CASE c \notin plan.restore
      <4>1. open /\ ~owed /\ damage = {} /\ c \notin ledger.debt[slot]
        BY <1>0, <1>p, <3>2 DEF Coherence, LoopDiscipline
      <4>2. ASSUME NEW r \in Roles, c \in LayerRect[r]
            PROVE  ~Holds(slot, r) /\ ~(r \in Published /\ layer[r].on)
        BY <1>p, <2>2, <3>2, <4>2, DesiredFacts DEF Covers
      <4>3. Clear(slot, c)
        BY <1>0, <4>1, <4>2 DEF Clear, InTransit
      <4> QED BY <1>0, <2>0, <3>2, <4>3, ClearMeaning DEF Coherence
    <3> QED BY <3>1, <3>2
  <2>3. CASE \E r \in Roles : Covers(r, c)
    BY <2>1, <2>3 DEF RightPixel
  <2>4. CASE \A r \in Roles : ~Covers(r, c)
    BY <2>2, <2>4 DEF RightPixel
  <2> QED BY <2>3, <2>4
<1> QED BY <1>1, <1>2, <1>3 DEF Roles

(* A whole picture stays whole until the next frame is made. *)
LEMMA PostedPictureStep ==
    TypeOK /\ Coherence /\ [Next]_vars => PostedPicture'
<1> SUFFICES ASSUME TypeOK, Coherence, [Next]_vars PROVE PostedPicture'
  OBVIOUS
<1>1. ASSUME pc' \notin {"post", "await"} PROVE PostedPicture'
  BY <1>1 DEF PostedPicture
<1>2. ASSUME UNCHANGED <<layer, slot, mem>>, pc' \in {"post", "await"} => pc \in {"post", "await"}
      PROVE  PostedPicture'
  BY <1>2 DEF Coherence, PostedPicture, RightPixel, Covers, Pixel
<1>3. CASE AwaitDone \/ AwaitInterrupted \/ Flip \/ Takeover \/ UNCHANGED vars
  BY <1>2, <1>3, QuietSteps
<1>4. CASE PostConfirmed
  BY <1>2, <1>4 DEF PostConfirmed, frame
<1>5. CASE Make
  BY <1>1, <1>5, MakeSteps
<1>6. CASE Submit \/ Suppress \/ PreemptRaster
  BY <1>1, <1>6, HandOverSteps
<1>7. CASE PlanFails \/ ComposeFails \/ PostRefused \/ PostLost \/ AwaitFails
  BY <1>1, <1>7, FreezeSteps
<1>8. ASSUME NEW O \in SUBSET Slots, PlanNext(O) PROVE PostedPicture'
  BY <1>1, <1>8 DEF PlanNext
<1>9. CASE Reopen \/ DirectRender \/ DirectPost \/ DirectDiscard \/ DirectModeEnds
  <2>1. pc' \notin {"post", "await"}
    BY <1>9 DEF Reopen, DirectRender, DirectPost, DirectDiscard, DirectModeEnds
  <2> QED BY <1>1, <2>1
<1> QED BY <1>3, <1>4, <1>5, <1>6, <1>7, <1>8, <1>9, ComposedPicture, StepCases

-----------------------------------------------------------------------------
(* The mirror. *)

MirrorOfLayer ==
    \A s \in Slots : mirror[s] = "differ" /\ ~InTransit(s) => ~Holds(s, "arcade")

MirrorUsable == pc = "compose" /\ MaySkipEqual => mirror[slot] = "same"

MirrorUnused == "arcade" \notin Published => mirror = NoMirrors

(* MirrorHonest in three parts. *)
LEMMA MirrorMeaning ==
    /\ MirrorHonest <=> MirrorOfLayer /\ MirrorUsable /\ MirrorUnused
    /\ MirrorHonest' <=> MirrorOfLayer' /\ MirrorUsable' /\ MirrorUnused'
  BY DEF MirrorHonest, MirrorOfLayer, MirrorUsable, MirrorUnused

(* A plan that calls a sparse copy safe is for a slot that holds the      *)
(* list.                                                                  *)
LEMMA MirrorPlanStep ==
    ASSUME TypeOK, MirrorHonest, NEW O \in SUBSET Slots, PlanNext(O)
    PROVE  MirrorHonest'
<1>1. /\ pc = "present" /\ pc' = "compose" /\ mirror' = SyncedMirror
      /\ ledger' = RecordDamage(SyncedLedger, damage, O)
  BY DEF PlanNext
<1>2. ledger'.held = SyncedLedger.held
  BY <1>1, SyncTyped, RecordDamageEffect DEF TypeOK
<1>3. mirror' = NoMirrors \/ (mirror' = mirror /\ ledger'.held = ledger.held)
  BY <1>1, <1>2, SyncedEffect
<1>4. MirrorOfLayer'
  BY <1>1, <1>3, MirrorMeaning DEF MirrorOfLayer, NoMirrors, Holds, InTransit
<1>5. MirrorUsable'
  <2>1. slot' \in Slots /\ mirror \in [Slots -> {"none", "same", "differ"}]
    BY PlannedSlot DEF TypeOK
  <2>2. plan'.diffSafe => ledger'.held[slot']["arcade"] # NoLayer
    BY <1>1, PlannedFacts DEF PlanFaithful, Holds
  <2>3. ASSUME MaySkipEqual' PROVE mirror'[slot'] = "same"
    <3>1. mirror'[slot'] # "none" /\ ledger'.held[slot']["arcade"] # NoLayer
      BY <2>2, <2>3 DEF MaySkipEqual
    <3>2. mirror' = mirror
      BY <1>3, <2>1, <3>1 DEF NoMirrors
    <3>3. mirror[slot'] \in {"same", "differ"}
      BY <2>1, <3>1, <3>2
    <3>4. \A s \in Slots : mirror'[s] = "differ" => ledger'.held[s]["arcade"] = NoLayer
      BY <1>1, <1>4 DEF MirrorOfLayer, InTransit, Holds
    <3> QED BY <2>1, <3>1, <3>2, <3>3, <3>4
  <2> QED BY <2>3 DEF MirrorUsable
<1>6. MirrorUnused'
  BY <1>3, MirrorMeaning DEF MirrorUnused
<1> QED BY <1>4, <1>5, <1>6, MirrorMeaning

(* compose_arcade updates the mirror as it updates the slot. *)
LEMMA MirrorComposeStep ==
    ASSUME TypeOK, MirrorHonest, NEW sparse, Compose(sparse)
    PROVE  MirrorHonest'
<1>1. /\ UNCHANGED <<ledger, slot>> /\ pc = "compose" /\ pc' = "post" /\ slot \in Slots
      /\ mirror' = [mirror EXCEPT ![slot] = MirrorAfter(sparse)]
      /\ mirror \in [Slots -> {"none", "same", "differ"}]
  BY DEF Compose, work, TypeOK
<1>2. MirrorOfLayer'
  BY <1>1, MirrorMeaning DEF MirrorOfLayer, Holds, InTransit
<1>3. MirrorUsable'
  BY <1>1 DEF MirrorUsable
<1>4. MirrorUnused'
  <2> SUFFICES ASSUME "arcade" \notin Published PROVE mirror' = NoMirrors
    BY DEF MirrorUnused
  <2>1. MirrorAfter(sparse) = mirror[slot]
    BY DEF MirrorAfter
  <2> QED BY <1>1, <2>1, MirrorMeaning DEF MirrorUnused
<1> QED BY <1>2, <1>3, <1>4, MirrorMeaning

(* A posted slot with a differing mirror holds no list. *)
LEMMA MirrorPostStep ==
    ASSUME TypeOK, MirrorHonest, PlannedPublication, PostConfirmed
    PROVE  MirrorHonest'
<1> DEFINE P == IF Recovered THEN NoPublications ELSE plan.pub
<1>1. /\ UNCHANGED <<layer, slot>> /\ mirror' = SyncedMirror
      /\ pc = "post" /\ pc' = "await" /\ slot \in Slots
      /\ ledger' = PostSuccess(SyncedLedger, slot, DesiredLayers, P)
  BY DEF PostConfirmed, frame, TypeOK
<1> HIDE DEF P
<1>2. MirrorOfLayer'
  <2> SUFFICES ASSUME NEW s \in Slots, mirror'[s] = "differ"
               PROVE  ledger'.held[s]["arcade"] = NoLayer
    BY DEF MirrorOfLayer, Holds
  <2>1. ~Recovered /\ mirror' = mirror /\ SyncedLedger = ledger
    BY <1>1, SyncedEffect DEF NoMirrors
  <2>2. CASE s = slot
    <3>1. ~layer["arcade"].on
      BY <1>1, <2>1, <2>2 DEF PlannedPublication
    <3>2. ledger'.held[s] = DesiredLayers
      BY <1>1, <2>2, SyncTyped, PostSuccessEffect
    <3> QED BY <3>1, <3>2, DesiredFacts DEF Roles
  <2>3. CASE s # slot
    <3>1. ledger'.held[s] = ledger.held[s]
      BY <1>1, <2>1, <2>3, SyncTyped, PostSuccessEffect
    <3> QED BY <1>1, <2>1, <2>3, <3>1, MirrorMeaning DEF MirrorOfLayer, InTransit, Holds
  <2> QED BY <2>2, <2>3
<1>3. MirrorUsable' /\ MirrorUnused'
  BY <1>1, SyncedEffect, MirrorMeaning DEF MirrorUsable, MirrorUnused
<1> QED BY <1>2, <1>3, MirrorMeaning

(* Direct frames drop the mirrors of the slots they overwrite. *)
LEMMA MirrorDirectStep ==
    ASSUME TypeOK, MirrorHonest, DirectRender \/ DirectDiscard
    PROVE  MirrorHonest'
<1>1. CASE DirectRender
  <2>1. /\ pc = "render" /\ pc' = "direct" /\ ledger' = SyncedLedger /\ mirror' = SyncedMirror
    BY <1>1 DEF DirectRender
  <2>2. mirror' = NoMirrors \/ (mirror' = mirror /\ ledger' = ledger)
    BY <2>1, SyncedEffect
  <2>3. MirrorOfLayer'
    BY <2>1, <2>2, MirrorMeaning DEF MirrorOfLayer, NoMirrors, Holds, InTransit
  <2>4. MirrorUsable' /\ MirrorUnused'
    BY <2>1, <2>2, MirrorMeaning DEF MirrorUsable, MirrorUnused
  <2> QED BY <2>3, <2>4, MirrorMeaning
<1>2. CASE DirectDiscard
  <2>1. /\ slot' = slot /\ ledger' = AttemptFailed(ledger, slot) /\ slot \in Slots
        /\ mirror' = [mirror EXCEPT ![slot] = "none"] /\ pc = "direct" /\ pc' = "render"
        /\ mirror \in [Slots -> {"none", "same", "differ"}] /\ ledger \in Ledgers
    BY <1>2 DEF DirectDiscard, work, TypeOK
  <2>2. MirrorOfLayer'
    <3> SUFFICES ASSUME NEW s \in Slots, mirror'[s] = "differ"
                 PROVE  ledger'.held[s]["arcade"] = NoLayer
      BY DEF MirrorOfLayer, Holds
    <3>1. s # slot /\ mirror[s] = "differ"
      BY <2>1
    <3>2. ledger'.held[s] = ledger.held[s]
      BY <2>1, <3>1, AttemptFailedEffect
    <3> QED BY <3>1, <3>2, MirrorMeaning DEF MirrorOfLayer, InTransit, Holds
  <2>3. MirrorUsable' /\ MirrorUnused'
    BY <2>1, MirrorMeaning DEF MirrorUsable, MirrorUnused, NoMirrors
  <2> QED BY <2>2, <2>3, MirrorMeaning
<1> QED BY <1>1, <1>2

(* No step breaks MirrorHonest. *)
LEMMA MirrorStep ==
    TypeOK /\ MirrorHonest /\ PlannedPublication /\ [Next]_vars => MirrorHonest'
<1> SUFFICES ASSUME TypeOK, MirrorHonest, PlannedPublication, [Next]_vars
             PROVE  MirrorHonest'
  OBVIOUS
<1>1. ASSUME mirror' = mirror, slot' = slot, plan' = plan,
             pc \in {"post", "direct"} <=> pc' \in {"post", "direct"},
             pc' = "compose" => pc = "compose",
             \A s \in Slots : Holds(s, "arcade")' => Holds(s, "arcade")
      PROVE  MirrorHonest'
  BY <1>1 DEF MirrorHonest, InTransit, MaySkipEqual
<1>2. CASE Submit \/ Suppress \/ PreemptRaster
  BY <1>1, <1>2, HandOverSteps DEF Holds
<1>3. CASE Reopen
  BY <1>1, <1>3 DEF Reopen, work, Holds
<1>4. CASE AwaitDone \/ AwaitInterrupted \/ Flip \/ Takeover \/ UNCHANGED vars
  BY <1>1, <1>4, QuietSteps DEF Holds
<1>5. CASE Make
  <2>1. \A s \in Slots : Holds(s, "arcade")' => Holds(s, "arcade")
    BY <1>5, MakeSteps DEF Holds, Roles
  <2> QED BY <1>1, <1>5, <2>1, MakeSteps
<1>6. CASE \/ PlanFails \/ ComposeFails \/ PostRefused \/ PostLost \/ AwaitFails
           \/ DirectPost \/ DirectModeEnds
  <2>1. mirror' = NoMirrors /\ pc' # "compose"
    BY <1>6, FreezeSteps DEF DirectPost, DirectModeEnds
  <2> QED BY <2>1 DEF MirrorHonest, NoMirrors
<1> QED BY <1>2, <1>3, <1>4, <1>5, <1>6, MirrorPlanStep, MirrorComposeStep, MirrorPostStep,
           MirrorDirectStep, StepCases

(* A composed slot has a differing mirror only when the list is not       *)
(* wanted.                                                                *)
LEMMA PlannedPublicationStep ==
    TypeOK /\ Coherence /\ [Next]_vars => PlannedPublication'
<1> SUFFICES ASSUME TypeOK, Coherence, [Next]_vars, pc' = "post", mirror'[slot'] = "differ"
             PROVE  ~layer'["arcade"].on
  BY DEF PlannedPublication
<1>1. ASSUME NEW sparse \in BOOLEAN, Compose(sparse) PROVE ~layer'["arcade"].on
  <2>1. /\ pc = "compose" /\ layer' = layer /\ slot' = slot /\ slot \in Slots
        /\ mirror'[slot] = MirrorAfter(sparse)
        /\ sparse => MaySkipEqual
    BY <1>1 DEF Compose, frame, work, TypeOK
  <2>2. MirrorAfter(sparse) = "differ"
    BY <2>1
  <2>3. "arcade" \in Published
    BY <2>1, <2>2 DEF MirrorAfter, Coherence, MirrorHonest, NoMirrors
  <2>4. plan.redraw["arcade"] # "scroll"
    BY <2>2, <2>3 DEF MirrorAfter
  <2>5. plan.redraw["arcade"] # "full"
    BY <2>1, <2>2, <2>3 DEF MirrorAfter, Coherence, MirrorHonest
  <2>6. plan.redraw["arcade"] = "none"
    BY <2>4, <2>5 DEF TypeOK, Plans, Updates, Roles
  <2>7. ASSUME layer["arcade"].on PROVE FALSE
    <3>1. /\ ledger.held[slot]["arcade"] = Desired("arcade")
          /\ LayerRect["arcade"] \intersect plan.restore = {}
      BY <2>1, <2>6, <2>7 DEF Coherence, PlanFaithful, Roles
    <3>2. mirror[slot] = "differ"
      BY <2>2, <2>3, <2>6, <3>1 DEF MirrorAfter
    <3>3. ~Holds(slot, "arcade")
      BY <2>1, <3>2 DEF Coherence, MirrorHonest, InTransit
    <3> QED BY <2>7, <3>1, <3>3, DesiredFacts DEF Holds, Roles
  <2> QED BY <2>1, <2>7
<1>2. ASSUME UNCHANGED <<layer, mirror, slot, pc>> PROVE ~layer'["arcade"].on
  BY <1>2 DEF Coherence, PlannedPublication
<1>3. CASE AwaitDone \/ AwaitInterrupted \/ Flip \/ Takeover \/ UNCHANGED vars
  BY <1>2, <1>3, QuietSteps
<1>4. CASE Make \/ Submit \/ Suppress \/ PreemptRaster
  BY <1>4, MakeSteps, HandOverSteps
<1>5. CASE PlanFails \/ ComposeFails \/ PostRefused \/ PostLost \/ AwaitFails
  BY <1>5, FreezeSteps
<1>6. ASSUME NEW O \in SUBSET Slots, PlanNext(O) PROVE FALSE
  BY <1>6 DEF PlanNext
<1>7. CASE \/ PostConfirmed \/ Reopen \/ DirectRender \/ DirectPost \/ DirectDiscard
           \/ DirectModeEnds
  BY <1>7 DEF PostConfirmed, Reopen, DirectRender, DirectPost, DirectDiscard, DirectModeEnds
<1> QED BY <1>1, <1>3, <1>4, <1>5, <1>6, <1>7, StepCases

-----------------------------------------------------------------------------
(* A new presenter owes both slots everything and claims nothing of them. *)
LEMMA CoherenceInit == Init => Coherence
  BY FreshEffect DEF Init, Coherence, LoopDiscipline, BaseCoherent, LayerCoherent, PlanFaithful,
     PostedPicture, MirrorHonest, PlannedPublication, NoMirrors, InTransit

(* The inductive invariant holds in every reachable state. *)
LEMMA CoherenceInvariant == Spec => []Coherence
<1>1. TypeOK /\ Coherence /\ [Next]_vars => Coherence'
  BY DisciplineStep, BaseStep, LayerStep, PlanFaithfulStep, PostedPictureStep, MirrorStep,
     PlannedPublicationStep DEF Coherence
<1> QED BY <1>1, CoherenceInit, TypeCorrect, PTL DEF Spec

(* No base damage is ever lost between the two slots: outside what a slot *)
(* owes it holds the current base (TwoSlotDamageLedger).                  *)
THEOREM BaseCoherentCorrect == Spec => []BaseCoherent
  <1>1. Coherence => BaseCoherent
    BY DEF Coherence
  <1> QED BY <1>1, CoherenceInvariant, PTL

(* A slot recorded with the current content of a layer shows that content *)
(* (TwoBufferLatchState.slots and slot_publications).                     *)
THEOREM LayerCoherentCorrect == Spec => []LayerCoherent
  <1>1. Coherence => LayerCoherent
    BY DEF Coherence
  <1> QED BY <1>1, CoherenceInvariant, PTL

(* A posted frame is the whole picture the frame loop wanted, although    *)
(* only the planned repairs were made (present_cached_full_frame).        *)
THEOREM PostedPictureCorrect == Spec => []PostedPicture
  <1>1. Coherence => PostedPicture
    BY DEF Coherence
  <1> QED BY <1>1, CoherenceInvariant, PTL

(* The list mirror is only trusted while it equals the slot's pixels      *)
(* (copy_published_arcade_with_mirror).                                   *)
THEOREM MirrorHonestCorrect == Spec => []MirrorHonest
  <1>1. Coherence => MirrorHonest
    BY DEF Coherence
  <1> QED BY <1>1, CoherenceInvariant, PTL
=============================================================================
