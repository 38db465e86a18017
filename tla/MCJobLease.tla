----------------------------- MODULE MCJobLease -----------------------------
(* JobLease on small instances. *)
EXTENDS JobLease, TLC

CONSTANTS w1, w2, j1, j2

Real == INSTANCE JobStatus

\* The transition table with the stages between "assigned" and the terminal
\* statuses contracted to one.
ContractedTable ==
    [s \in {"queued", "assigned", "training", "completed", "failed", "cancelled", "retrying"} |->
        CASE s = "queued"    -> {"assigned", "failed", "cancelled"}
          [] s = "assigned"  -> {"training", "failed", "cancelled"}
          [] s = "training"  -> {"completed", "failed", "cancelled"}
          [] s = "failed"    -> {"retrying"}
          [] s = "retrying"  -> {"queued"}
          [] OTHER           -> {}]

RealTable == Real!AllowedJobTransitions

OneWorker == {w1}
TwoWorkers == {w1, w2}
OneJob == {j1}
TwoJobs == {j1, j2}
NoRequests == {}
NoJobs == {}
NoWorkers == {}
Loops1 == {w1} \X Lanes
ClaimLoop1 == {<<w1, "claim">>}
Loops2 == {<<w1, "heartbeat">>, <<w1, "claim">>, <<w2, "claim">>}
SlowHeartbeat == {<<w1, "heartbeat">>}
=============================================================================
