----------------------------- MODULE MCMailJobs -----------------------------
(* Instances of MailJobs for TLC.                                          *)
EXTENDS MailJobs

CONSTANTS j1, j2, i1, i2, Faults1, Faults2

\* One job meets the faults that exhaust its attempts, the other keeps a worker
\* busy meanwhile.
FaultBounds == [j \in Jobs |-> IF j = j1 THEN Faults1 ELSE Faults2]
=============================================================================
