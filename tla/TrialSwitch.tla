---------------------------- MODULE TrialSwitch ----------------------------
(***************************************************************************)
(* What delivering software to the device promises: a new set of files is  *)
(* on trial beside the proven one, and either takes its place as a whole   *)
(* or goes away.  Whatever happens during the trial, the proven set is     *)
(* what a recovery leads back to.                                          *)
(***************************************************************************)
CONSTANTS Sets, \* the sets of files
          None  \* nothing is on trial

VARIABLES proven, \* the set a recovery leads to
          trial   \* the set on trial, or None

vars == <<proven, trial>>

Init == proven \in Sets /\ trial \in Sets \union {None}

Begin   == trial = None /\ trial' \in Sets /\ UNCHANGED proven
Keep    == trial # None /\ proven' = trial /\ trial' = None
Abandon == trial # None /\ trial' = None /\ UNCHANGED proven

Next == Begin \/ Keep \/ Abandon

Spec == Init /\ [][Next]_vars
=============================================================================
