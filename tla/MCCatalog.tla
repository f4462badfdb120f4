----------------------------- MODULE MCCatalog -----------------------------
(* CatalogPublication on a small instance: processes and systems are alike, *)
(* and a behaviour interrupts at most MaxFaults jobs.                       *)
EXTENDS CatalogPublication, TLC

CONSTANT MaxFaults

VARIABLE faults \* how many jobs were interrupted

Symmetry == Permutations(Procs) \union Permutations(Systems)

(* A job at a step whose interruption leaves something behind.             *)
Busy == lease # None /\ job[lease].at \notin {"plan", "prune"}

MCInit == Init /\ faults = 0

MCNext ==
    /\ \/ \E p \in Procs : Step(p)
       \/ (Busy => faults < MaxFaults) /\ PowerLoss
    /\ faults' = faults + (IF Busy /\ lease' = None THEN 1 ELSE 0)
    /\ faults' <= MaxFaults

MCSpec == MCInit /\ [][MCNext]_<<vars, faults>>
=============================================================================
