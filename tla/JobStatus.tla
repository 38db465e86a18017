------------------------------ MODULE JobStatus ------------------------------
(***************************************************************************)
(* The job status vocabulary shared by the Manager and the Workers         *)
(* (packages/contracts, status.py): the statuses, the terminal ones and    *)
(* the transition table that every status change is validated against.     *)
(***************************************************************************)

\* class JobStatus, without the five statuses that have a role of their own.
ExecutionStatuses ==
    {"assigned", "downloading_dataset", "validating_dataset",
     "preparing_flat_dataset", "preprocessing", "extracting_f0",
     "extracting_features", "training", "saving_checkpoint",
     "building_index", "collecting_small_model", "generating_samples",
     "evaluating", "uploading_artifacts"}

TERMINAL_JOB_STATUSES == {"completed", "failed", "cancelled"}

JobStatuses ==
    ExecutionStatuses \cup TERMINAL_JOB_STATUSES \cup {"queued", "retrying"}

FailureOrCancel == {"failed", "cancelled"}

\* The forward edges of the table; _failure_or_cancel is added below.
Forward ==
    [s \in JobStatuses |->
        CASE s = "queued"                 -> {"assigned"}
          [] s = "assigned"               -> {"downloading_dataset"}
          [] s = "downloading_dataset"    -> {"validating_dataset"}
          [] s = "validating_dataset"     -> {"preparing_flat_dataset", "preprocessing"}
          [] s = "preparing_flat_dataset" -> {"preprocessing"}
          [] s = "preprocessing"          -> {"extracting_f0", "extracting_features"}
          [] s = "extracting_f0"          -> {"extracting_features"}
          [] s = "extracting_features"    -> {"training"}
          [] s = "training"               -> {"saving_checkpoint", "building_index",
                                              "collecting_small_model"}
          [] s = "saving_checkpoint"      -> {"building_index", "collecting_small_model"}
          [] s = "building_index"         -> {"collecting_small_model"}
          [] s = "collecting_small_model" -> {"generating_samples", "evaluating",
                                              "uploading_artifacts"}
          [] s = "generating_samples"     -> {"evaluating", "uploading_artifacts"}
          [] s = "evaluating"             -> {"uploading_artifacts"}
          [] s = "uploading_artifacts"    -> {"completed"}
          [] s = "failed"                 -> {"retrying"}
          [] s = "retrying"               -> {"queued"}
          [] OTHER                        -> {}]

\* ALLOWED_JOB_TRANSITIONS
AllowedJobTransitions ==
    [s \in JobStatuses |->
        IF s \in ExecutionStatuses \cup {"queued"}
        THEN Forward[s] \cup FailureOrCancel
        ELSE Forward[s]]
=============================================================================
