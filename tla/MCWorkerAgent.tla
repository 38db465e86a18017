----------------------------- MODULE MCWorkerAgent -----------------------------
(* WorkerAgent on small instances. *)
EXTENDS WorkerAgent, TLC

PlainConfig == [use_f0 |-> FALSE, build_index |-> FALSE, samples |-> TRUE]
Stages(scope_) ==
    CASE scope_ = "lease" -> {"uploading_artifacts"}
      [] scope_ = "inputs" -> InputStages \cup {"uploading_artifacts"}
      [] scope_ = "work" -> {"training", "uploading_artifacts"}
Training == {"training"}
JobsIn(scope_) == IF scope_ = "lease" THEN 2 ELSE 1
FaultsIn(scope_) == IF scope_ = "lease" THEN 1 ELSE 2
=============================================================================
