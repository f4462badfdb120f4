-------------------------- MODULE MCLatchRecovery --------------------------
(* LATCH_RETRY_DELAYS in ticks of 250 ms: 250 ms, 1 s, 5 s and 60 s. *)
EXTENDS LatchRecovery

RetryDelays == [n \in 0 .. 3 |-> <<1, 4, 20, 240>>[n + 1]]
=============================================================================
