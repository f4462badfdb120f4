-------------------------- MODULE CatalogRegister --------------------------
(***************************************************************************)
(* What the catalog on the SD card promises: one commit point.  A commit   *)
(* is seen at once and made firm later; losing power may take back the     *)
(* one commit that is not firm yet, and nothing else ever goes back.       *)
(***************************************************************************)
EXTENDS Integers

VARIABLES visible, \* the version a reader opens now
          firm     \* the version that losing power cannot take back

vars == <<visible, firm>>

(* A version: the catalog's generation, and that of its refresh state.    *)
Empty == <<0, 0>>

Init == visible = Empty /\ firm = Empty

(* Every commit has a refresh state of its own; the catalog's generation   *)
(* stays when only the refresh state changed.                             *)
Commit ==
    /\ firm = visible
    /\ visible' \in Nat \X Nat
    /\ visible'[1] \in {visible[1], visible[1] + 1}
    /\ visible'[2] > visible[2]
    /\ UNCHANGED firm

Settle == firm' = visible /\ UNCHANGED visible

PowerLoss == visible' = firm /\ UNCHANGED firm

Next == Commit \/ Settle \/ PowerLoss

Spec == Init /\ [][Next]_vars
=============================================================================
