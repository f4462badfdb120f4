---------------------------- MODULE LatchDevice ----------------------------
(***************************************************************************)
(* The framebuffer latch of the FPGA as its clients may see it: one slot  *)
(* is scanned out, at most one more waits for the vertical blank, and     *)
(* Main_MiSTer can take the output away at any time with a legacy         *)
(* framebuffer write (menu-vblank-latch/mister_magik_vblank_latch.sv).    *)
(* LatchSlots is written on top of this device; LatchPost shows that the  *)
(* transaction protocol spoken over the wire implements it.               *)
(***************************************************************************)
EXTENDS Naturals

VARIABLES scan,    \* what the scaler reads: a slot, Off or Foreign
          queued   \* the accepted slot waiting for the blank, or NoSlot

deviceVars == <<scan, queued>>

Slots   == {1, 2}
NoSlot  == 0
Off     == 0         \* the legacy path switched the framebuffer off
Foreign == 3         \* the legacy path shows a base that is no slot's

DeviceTypeOK ==
    /\ scan \in Slots \union {Off, Foreign}
    /\ queued \in Slots \union {NoSlot}

DeviceInit ==
    /\ scan \in {Off, Foreign}
    /\ queued = NoSlot

(* A SET of slot s is accepted: nothing may be waiting, and the slot that *)
(* is scanned out is never offered.                                       *)
Accept(s) ==
    /\ queued = NoSlot
    /\ scan # s
    /\ queued' = s
    /\ UNCHANGED scan

(* The vertical blank applies the waiting slot. *)
Flip ==
    /\ queued # NoSlot
    /\ scan' = queued
    /\ queued' = NoSlot

(* A legacy write cancels the waiting slot and owns the output. *)
Takeover(output) ==
    /\ output \in {Off, Foreign}
    /\ scan' = output
    /\ queued' = NoSlot

DeviceNext ==
    \/ \E s \in Slots : Accept(s)
    \/ Flip
    \/ \E output \in {Off, Foreign} : Takeover(output)

DeviceSpec == DeviceInit /\ [][DeviceNext]_deviceVars
=============================================================================
