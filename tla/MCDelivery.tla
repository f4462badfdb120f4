----------------------------- MODULE MCDelivery -----------------------------
(* DeviceDelivery on a small instance: builds are alike, a behaviour has   *)
(* at most MaxFaults failures, deaths of the agent and losses of power,    *)
(* and the launcher and the operator act where the agent looks: at other   *)
(* steps it reads neither readiness nor the operator's lines.              *)
EXTENDS DeviceDelivery

CONSTANTS MaxFaults, LegacyBackups

VARIABLE faults \* how many of them there were

Symmetry == Permutations(Apps) \union Permutations(Mains)

(* The points where it makes a difference that they act.                   *)
Acts ==
    \/ /\ job.at \in {"idle", "await", "finish"}
       /\ BecomesReady \/ Relaunches
    \/ /\ job.at \in {"idle", "copy"} /\ Phase = "Prepared"
       /\ \E lines \in Settings : OperatorEdits(lines)

MCInit == Init /\ faults = 0 /\ (Legacy => LegacyBackups)

MCNext ==
    \/ /\ Request \/ Step \/ Reboot
       /\ UNCHANGED faults
    \/ Acts /\ UNCHANGED <<stage, faults>>
    \/ /\ faults < MaxFaults /\ faults' = faults + 1
       /\ Fails \/ AgentDies \/ PowerLoss

MCSpec == MCInit /\ [][MCNext]_<<vars, faults>>
=============================================================================
