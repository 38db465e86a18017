------------------------------ MODULE WorkerAgent ------------------------------
(***************************************************************************)
(* The Worker agent (agent.py, stages.py, client.py) and the Manager as it *)
(* sees it.  The agent polls for a claim and executes it stage by stage;   *)
(* beside the executor run the heartbeat loop, the lease renewal loop and  *)
(* the lease deadline loop, which share the ActiveJob with it.  The last   *)
(* stage publishes the artifacts and registers the samples.                *)
(*                                                                         *)
(* Time is what is left of a lease: a Tick takes one unit off every        *)
(* deadline, granted, accepted or in flight, so the model has no horizon.  *)
(* Worker and Manager read the same clock.  A finished ActiveJob is        *)
(* unobservable, so `act' is the current one only.                         *)
(*                                                                         *)
(* A behaviour has one of three scopes.  In "lease" the loops run in full  *)
(* and the stages are plain; in "inputs" the stages download and unpack;   *)
(* in "work" they run commands, publish and register.  In the last two the *)
(* loops are the one action Withdraw, which cancels the job for any of the *)
(* reasons that the loops of "lease" cancel it for.                        *)
(***************************************************************************)
EXTENDS WorkerProcess, WorkerInputs, JobStatus, Sequences, FiniteSets

CONSTANTS
    Config,      \* of the claimed jobs: [use_f0, build_index, samples : BOOLEAN]
    Kept(_),     \* the stages of the plan that the instance keeps, by scope
    Commands,    \* the stages that run subprocesses
    LeaseTicks,  \* length of a lease
    Artifacts, Samples,  \* how many a job publishes and registers
    MaxTries,    \* attempts of a transfer
    MaxJobs(_),  \* bound on claims, by scope
    MaxFaults(_) \* bound on failed calls and broken stages, by scope

\* The stage s, when it is wanted and the instance keeps it.
StageIf(wanted, s, kept) == IF wanted /\ s \in kept THEN <<s>> ELSE <<>>

\* build_stage_plan, restricted to the stages in kept: the inputs, the work on them
\* and the upload.
InputPlan(kept) ==
    StageIf(TRUE, "downloading_dataset", kept)
    \o StageIf(TRUE, "validating_dataset", kept)
    \o StageIf(TRUE, "preparing_flat_dataset", kept)

WorkPlan(config, kept) ==
    StageIf(TRUE, "preprocessing", kept)
    \o StageIf(config.use_f0, "extracting_f0", kept)
    \o StageIf(TRUE, "extracting_features", kept)
    \o StageIf(TRUE, "training", kept)
    \o StageIf(TRUE, "saving_checkpoint", kept)
    \o StageIf(config.build_index, "building_index", kept)
    \o StageIf(TRUE, "collecting_small_model", kept)
    \o StageIf(config.samples, "generating_samples", kept)
    \o StageIf(TRUE, "evaluating", kept)

StagePlan(config, kept) ==
    InputPlan(kept) \o WorkPlan(config, kept) \o StageIf(TRUE, "uploading_artifacts", kept)

Configs == [use_f0 : BOOLEAN, build_index : BOOLEAN, samples : BOOLEAN]

Scopes == {"lease", "inputs", "work"}

\* The stages of DatasetMaterializer.run_stage.
InputStages == {"downloading_dataset", "validating_dataset", "preparing_flat_dataset"}

\* Every plan that a job configuration gives follows the transition table of
\* the Manager from "assigned" to "completed".
ASSUME PlanFollowsTable ==
    \A c \in Configs :
        LET path == <<"assigned">> \o StagePlan(c, ExecutionStatuses) \o <<"completed">> IN
        \A i \in 1..(Len(path) - 1) : path[i + 1] \in AllowedJobTransitions[path[i]]

ASSUME AgentAssumption ==
    /\ Config \in Configs
    /\ \A s \in Scopes : "uploading_artifacts" \in Kept(s)
    /\ \A s \in Scopes : MaxFaults(s) \in Nat
    /\ Kept("lease") \cap Commands = {}
    /\ Commands \subseteq ExecutionStatuses \ (InputStages \cup {"uploading_artifacts"})
    /\ LeaseTicks \in Nat \ {0} /\ MaxTries \in Nat \ {0}
    /\ Artifacts \in Nat /\ Samples \in Nat /\ \A s \in Scopes : MaxJobs(s) \in Nat

VARIABLES
    scope,
    pc,        \* where the executor of the agent is
    stage,     \* index of the current stage in Plan
    exc,       \* what reached the handler of _execute_claim: "error", "cancelled"
    report,    \* the terminal status that the handler chose
    act,       \* ActiveJob: cancelled, fatal, left; asked: cancel() was called
    job,       \* number of the current claim, 0 when idle; jobs granted so far
    hb,        \* heartbeat loop: state, claim it captured, baseline, answer
    rn,        \* renewal loop: state, baseline, answer
    shutdown,
    item, try, ambiguous,  \* publication: item, attempt, ambiguous_put_error
    mgr,       \* Manager: held (the lease is active), left, cancel, status
    remote,    \* Manager: state of every upload session and sample
    ran,       \* stages that returned, in order
    faults

executor == <<pc, stage, exc, report, ran>>
publication == <<item, try, ambiguous>>
loops == <<hb, rn>>
agentVars == <<executor, act, job, loops, shutdown, publication, mgr, remote, faults, scope>>
vars == <<agentVars, processVars, inputVars>>
others == <<processVars, inputVars, scope>>

Plan == StagePlan(Config, Kept(scope))
Items == IF scope = "work" THEN 1..(Artifacts + Samples) ELSE {}

Lefts == 0..LeaseTicks
Busy == {"admit", "status", "run", "callback", "init", "put", "finalize", "refresh",
         "refused", "register", "complete", "handler", "report", "close"}

TypeOK ==
    /\ ProcessTypeOK /\ InputsTypeOK
    /\ pc \in Busy \cup {"idle", "claimed", "stopped"}
    /\ stage \in 1..Len(Plan)
    /\ exc \in {"none", "error", "cancelled"}
    /\ report \in {"none"} \cup TERMINAL_JOB_STATUSES
    /\ act \in [cancelled : BOOLEAN, fatal : BOOLEAN, asked : BOOLEAN, left : Lefts]
    /\ job \in [current : 0..MaxJobs(scope), granted : 0..MaxJobs(scope)]
    /\ hb \in [state : {"off", "sent", "answered"}, job : 0..MaxJobs(scope), base : Lefts,
               left : Lefts, cancel : BOOLEAN]
    /\ rn \in [state : {"off", "wait", "sent", "answered", "refused", "lost"},
               base : Lefts, left : Lefts]
    /\ shutdown \in BOOLEAN
    /\ item \in 1..(Artifacts + Samples + 1) /\ try \in 0..MaxTries /\ ambiguous \in BOOLEAN
    /\ mgr \in [held : BOOLEAN, left : Lefts, cancel : BOOLEAN,
                status : {"none"} \cup JobStatuses]
    /\ remote \in [Items -> {"none", "pending", "stored", "finalizing", "completed"}]
    /\ scope \in Scopes /\ faults \in 0..MaxFaults(scope)

NoAct == [cancelled |-> FALSE, fatal |-> FALSE, asked |-> FALSE, left |-> 0]
NoHeartbeat == [state |-> "off", job |-> 0, base |-> 0, left |-> 0, cancel |-> FALSE]
NoRenewal == [state |-> "off", base |-> 0, left |-> 0]

Init ==
    /\ scope \in Scopes
    /\ pc = "idle" /\ stage = 1 /\ exc = "none" /\ report = "none"
    /\ act = NoAct
    /\ job = [current |-> 0, granted |-> 0]
    /\ hb = NoHeartbeat /\ rn = NoRenewal
    /\ shutdown = FALSE
    /\ item = 1 /\ try = 1 /\ ambiguous = FALSE
    /\ mgr = [held |-> FALSE, left |-> 0, cancel |-> FALSE, status |-> "none"]
    /\ remote = [i \in Items |-> "none"]
    /\ ran = <<>>
    /\ faults = 0
    /\ ProcessInit /\ InputsInit

Fault == faults < MaxFaults(scope) /\ faults' = faults + 1

-----------------------------------------------------------------------------
\* ActiveJob

\* ActiveJob.cancel: explicit cancellation takes precedence over a failure.
Cancel(a) == [a EXCEPT !.cancelled = TRUE, !.fatal = FALSE, !.asked = TRUE]

\* ActiveJob.fail
Fail(a) == IF a.cancelled THEN a ELSE [a EXCEPT !.cancelled = TRUE, !.fatal = TRUE]

\* (mutant) an answer that arrives behind a newer one is taken for an invalid lease
AcceptInOrder(a, left, base) ==
    IF a.left = 0 \/ left = 0 \/ left <= base \/ left < a.left THEN Cancel(a)
    ELSE [a EXCEPT !.left = left]

\* (mutant) the deadline is counted from the arrival of the answer
AcceptFromArrival(a, left, base) ==
    IF a.left = 0 \/ left = 0 \/ left <= base THEN Cancel(a)
    ELSE [a EXCEPT !.left = LeaseTicks]

\* accept_lease_expiry with a request baseline: an answer that does not extend its
\* own baseline cancels; one that is behind a newer answer changes nothing.
AcceptLeaseExpiry(a, left, base) ==
    IF a.left = 0 \/ left = 0 \/ left <= base THEN Cancel(a)
    ELSE IF left < a.left THEN a
    ELSE [a EXCEPT !.left = left]

-----------------------------------------------------------------------------
\* The Manager

LeaseCurrent == mgr.held /\ mgr.left > 0

\* A Manager clock has moved since the grant that a request carries as baseline.
Later(base) == base < LeaseTicks

\* heartbeat: extends the lease it names and lists the cancelled jobs; 409 when the
\* lease is not current.
ManagerHeartbeat ==
    /\ hb.state = "sent"
    /\ Later(hb.base)
    /\ IF hb.job = 0
       THEN hb' = [hb EXCEPT !.state = "answered"] /\ UNCHANGED mgr
       ELSE IF hb.job = job.granted /\ LeaseCurrent
       THEN /\ hb' = [hb EXCEPT !.state = "answered", !.left = LeaseTicks, !.cancel = mgr.cancel]
            /\ mgr' = [mgr EXCEPT !.left = LeaseTicks]
       ELSE hb' = NoHeartbeat /\ UNCHANGED mgr
    /\ UNCHANGED <<executor, act, job, rn, shutdown, publication, remote, faults>>

\* renew_lease
ManagerRenew ==
    /\ rn.state = "sent"
    /\ Later(rn.base)
    /\ IF LeaseCurrent
       THEN /\ rn' = [rn EXCEPT !.state = "answered", !.left = LeaseTicks]
            /\ mgr' = [mgr EXCEPT !.left = LeaseTicks]
       ELSE rn' = [rn EXCEPT !.state = "refused"] /\ UNCHANGED mgr
    /\ UNCHANGED <<executor, act, job, hb, shutdown, publication, remote, faults>>

\* recover_expired_leases
ManagerRecover ==
    /\ mgr.held
    /\ mgr.left = 0
    /\ mgr' = [mgr EXCEPT !.held = FALSE]
    /\ UNCHANGED <<executor, act, job, loops, shutdown, publication, remote, faults>>

\* The user asks to cancel the running job.
UserCancels ==
    /\ mgr.held
    /\ ~mgr.cancel
    /\ mgr' = [mgr EXCEPT !.cancel = TRUE]
    /\ UNCHANGED <<executor, act, job, loops, shutdown, publication, remote, faults>>

Published == \A i \in Items : remote[i] = "completed"

\* _required_artifacts_exist and sample_completion_ready: the model (the first item)
\* and every sample; other artifacts are not required.
RequiredPublished == \A i \in Items : (i = 1 \/ i > Artifacts) => remote[i] = "completed"

\* update_job_status refuses a stale lease, a transition outside the table, anything
\* but "cancelled" after a cancellation, and a completion without what the job requires.
Accepts(status) ==
    /\ LeaseCurrent
    /\ mgr.cancel => status = "cancelled"
    /\ status = "completed" => RequiredPublished

Recorded(status) ==
    [mgr EXCEPT !.status = status, !.held = status \notin TERMINAL_JOB_STATUSES]

\* What becomes of a status call: applied, refused, or lost before or after it was
\* applied; ok says what the agent learns.
StatusCall(status, ok) ==
    \/ ok /\ Accepts(status) /\ mgr' = Recorded(status) /\ UNCHANGED faults
    \/ ~ok /\ ~Accepts(status) /\ UNCHANGED <<mgr, faults>>
    \/ ~ok /\ Fault /\ mgr' \in {mgr} \cup (IF Accepts(status) THEN {Recorded(status)} ELSE {})

-----------------------------------------------------------------------------
\* Claiming

\* claim_job; a lost answer leaves a lease that the agent does not know of.
Claim ==
    /\ pc = "idle"
    /\ ~shutdown
    /\ ~mgr.held
    /\ job.granted < MaxJobs(scope)
    /\ \/ /\ pc' = "claimed"
          /\ job' = [current |-> job.granted + 1, granted |-> job.granted + 1]
          /\ UNCHANGED faults
       \/ /\ Fault
          /\ job' = [job EXCEPT !.granted = @ + 1]
          /\ UNCHANGED pc
    /\ mgr' = [held |-> TRUE, left |-> LeaseTicks, cancel |-> FALSE, status |-> "assigned"]
    /\ remote' = [i \in Items |-> "none"]
    /\ UNCHANGED <<stage, exc, report, ran, act, loops, shutdown, publication>>

\* The first half of _execute_claim: the ActiveJob takes the expiry of the claim; an
\* expired claim is cancelled, else the lease loops start.
StartClaim ==
    /\ pc = "claimed"
    /\ stage' = 1 /\ ran' = <<>> /\ report' = "none"
    /\ PrepareWorkspace
    /\ item' = 1 /\ try' = 1 /\ ambiguous' = FALSE
    /\ IF mgr.left = 0
       THEN /\ act' = Cancel(NoAct)
            /\ pc' = "handler" /\ exc' = "cancelled"
            /\ UNCHANGED rn
       ELSE /\ act' = [NoAct EXCEPT !.left = mgr.left]
            /\ pc' = "admit" /\ exc' = "none"
            /\ rn' = [NoRenewal EXCEPT !.state = IF scope = "lease" THEN "wait" ELSE "off"]
    /\ UNCHANGED <<job, hb, shutdown, mgr, remote, faults>>

\* An exception reaches the handler of _execute_claim.
Raise(kind) == pc' = "handler" /\ exc' = kind

\* _validate_claim_runtime, _admit_claim_input_disk, the workspace and the telemetry
\* session.
Admit ==
    /\ pc = "admit"
    /\ \/ pc' = "status" /\ UNCHANGED <<exc, faults>>
       \/ Raise("error") /\ Fault
    /\ UNCHANGED <<stage, report, ran, act, job, loops, shutdown, publication, mgr, remote>>

-----------------------------------------------------------------------------
\* StageExecutor.execute

\* A stage starts with its status report, unless the job is cancelled.
ReportStatus ==
    /\ pc = "status"
    /\ IF act.cancelled
       THEN Raise("cancelled") /\ UNCHANGED <<mgr, faults>>
       ELSE \E ok \in BOOLEAN :
              /\ StatusCall(Plan[stage], ok)
              /\ IF ok THEN pc' = "run" /\ UNCHANGED exc ELSE Raise("error")
    /\ try' = 1
    /\ UNCHANGED <<stage, report, ran, act, job, loops, shutdown, item, ambiguous, remote>>

\* The stage returned: cancellation is looked at again before its callback.
Returned ==
    /\ IF act.cancelled THEN Raise("cancelled") /\ UNCHANGED ran
       ELSE pc' = "callback" /\ ran' = Append(ran, stage) /\ UNCHANGED exc
    /\ UNCHANGED faults

\* DatasetStageRunner.run_stage and TestSetStageRunner.run_stage: the inputs of the
\* claim, stage by stage.
StartStageInputs ==
    /\ pc = "run"
    /\ Plan[stage] \in InputStages
    /\ StartInputs(Plan[stage])
    /\ UNCHANGED agentVars

StageInputs ==
    /\ InputsStep(Fault, UNCHANGED faults, act.cancelled, Plan[stage] = "preparing_flat_dataset")
    /\ UNCHANGED <<executor, act, job, loops, shutdown, publication, mgr, remote, scope>>

EndStageInputs ==
    /\ pc = "run"
    /\ xfer.at = "done"
    /\ IF xfer.outcome = "ok" THEN Returned
       ELSE Raise(xfer.outcome) /\ UNCHANGED <<ran, faults>>
    /\ EndInputs
    /\ UNCHANGED <<stage, report, act, job, loops, shutdown, publication, mgr, remote, scope>>

\* A stage of the native runner that starts commands.
StartStageCommands ==
    /\ pc = "run"
    /\ Plan[stage] \in Commands
    /\ \A p \in Shards : runner[p] = "off"
    /\ IF act.cancelled THEN Raise("cancelled") /\ UNCHANGED processVars
       ELSE StartCommands /\ UNCHANGED <<pc, exc>>
    /\ UNCHANGED <<stage, report, ran, act, job, loops, shutdown, publication, mgr, remote,
                   faults>>

EndStageCommands ==
    /\ pc = "run"
    /\ Plan[stage] \in Commands
    /\ CommandsReturned
    /\ \/ CommandsOk /\ Returned
       \/ ~CommandsOk /\ Raise("error") /\ UNCHANGED <<ran, faults>>
       \/ CommandsOk /\ Fault /\ Raise("error") /\ UNCHANGED ran
    /\ ForgetCommands
    /\ UNCHANGED <<stage, report, act, job, loops, shutdown, publication, mgr, remote>>

\* Every other stage works on files of the workspace.
RunStage ==
    /\ pc = "run"
    /\ Plan[stage] \notin Commands \cup InputStages
    /\ \/ act.cancelled /\ Raise("cancelled") /\ UNCHANGED <<ran, faults>>
       \/ Returned
       \/ Fault /\ Raise("error") /\ UNCHANGED ran
    /\ UNCHANGED <<stage, report, act, job, loops, shutdown, publication, mgr, remote>>

\* What the upload stage does next: artifacts first, then samples.
ItemLabel(i) ==
    IF i \notin Items THEN "complete" ELSE IF i <= Artifacts THEN "init" ELSE "register"

\* _report_stage: telemetry, and after the last stage the publication.
StageCallback ==
    /\ pc = "callback"
    /\ \/ /\ Plan[stage] # "uploading_artifacts"
          /\ pc' = "status" /\ stage' = stage + 1
          /\ UNCHANGED <<exc, faults>>
       \/ /\ Plan[stage] = "uploading_artifacts"
          /\ pc' = ItemLabel(1)
          /\ UNCHANGED <<exc, stage, faults>>
       \/ Fault /\ Raise("error") /\ UNCHANGED stage
    /\ try' = 1
    /\ UNCHANGED <<report, ran, act, job, loops, shutdown, item, ambiguous, mgr, remote>>

\* The completion is reported unless the job is cancelled.
Complete ==
    /\ pc = "complete"
    /\ IF act.cancelled
       THEN Raise("cancelled") /\ UNCHANGED <<mgr, faults>>
       ELSE \E ok \in BOOLEAN :
              /\ StatusCall("completed", ok)
              /\ IF ok THEN pc' = "close" /\ UNCHANGED exc ELSE Raise("error")
    /\ UNCHANGED <<stage, report, ran, act, job, loops, shutdown, publication, remote>>

\* classify_stage_exception at the end of _execute_claim: a fatal error of the agent
\* first, else cancellation, else the failure.
Classified == IF act.fatal THEN "failed"
              ELSE IF act.cancelled \/ exc = "cancelled" THEN "cancelled" ELSE "failed"

Handle ==
    /\ pc = "handler"
    /\ report' = Classified
    /\ pc' = "report"
    /\ UNCHANGED <<stage, exc, ran, act, job, loops, shutdown, publication, mgr, remote,
                   faults>>

\* _best_effort_terminal_status
ReportTerminal ==
    /\ pc = "report"
    /\ \E ok \in BOOLEAN : StatusCall(report, ok)
    /\ pc' = "close"
    /\ UNCHANGED <<stage, exc, report, ran, act, job, loops, shutdown, publication, remote>>

\* The finally block: finished is set, the telemetry session closed and the lease
\* loops gathered; only then the agent has no active job.
Close ==
    /\ pc = "close"
    /\ rn.state = "off"
    /\ pc' = "idle"
    /\ act' = NoAct
    /\ job' = [job EXCEPT !.current = 0]
    /\ UNCHANGED <<stage, exc, report, ran, loops, shutdown, publication, mgr, remote, faults>>

-----------------------------------------------------------------------------
\* Publication (_publish_artifact_with_retry, publish_artifact, register_sample)

\* _require_active_transfer before an attempt and after it, and the calls that
\* cancellation cuts short.
Withdrawn == act.cancelled \/ (shutdown /\ pc \in {"init", "register"})

Transfer(labels) ==
    /\ pc \in labels
    /\ ~Withdrawn
    /\ UNCHANGED <<stage, report, ran, act, job, loops, shutdown, mgr>>

TransferCancelled ==
    /\ pc \in {"init", "put", "finalize", "refresh", "refused", "register"}
    /\ Withdrawn
    /\ Raise("cancelled")
    /\ UNCHANGED <<stage, report, ran, act, job, loops, shutdown, publication, mgr, remote,
                   faults>>

NextItem ==
    /\ item' = item + 1
    /\ pc' = ItemLabel(item + 1)
    /\ try' = 1 /\ ambiguous' = FALSE
    /\ UNCHANGED exc

\* (mutant) an item whose attempts are used up is left out
RetryOrSkip ==
    IF try < MaxTries
    THEN pc' = ItemLabel(item) /\ try' = try + 1 /\ ambiguous' = FALSE /\ UNCHANGED <<exc, item>>
    ELSE NextItem

\* A transient failure starts the item again, until its attempts are used up.
RetryOrRaise ==
    IF try < MaxTries
    THEN pc' = ItemLabel(item) /\ try' = try + 1 /\ ambiguous' = FALSE /\ UNCHANGED <<exc, item>>
    ELSE Raise("error") /\ UNCHANGED publication

Remote(state) == remote' = [remote EXCEPT ![item] = state]

\* Upload init, and the polling while another call finalizes the session.
InitUpload ==
    /\ Transfer({"init"})
    /\ \/ /\ ~LeaseCurrent
          /\ Raise("error") /\ UNCHANGED <<publication, remote, faults>>
       \/ /\ LeaseCurrent /\ remote[item] \in {"none", "pending", "stored"}
          /\ Remote(IF remote[item] = "none" THEN "pending" ELSE remote[item])
          /\ pc' = "put" /\ UNCHANGED <<exc, publication, faults>>
       \/ /\ LeaseCurrent /\ remote[item] = "completed"
          /\ NextItem /\ UNCHANGED <<remote, faults>>
       \/ Fault /\ RetryOrRaise
          /\ remote' \in {remote, [remote EXCEPT ![item] = IF @ = "none" THEN "pending" ELSE @]}

\* _put_file: an error after which the object may be there is left to finalize.
PutFile ==
    /\ Transfer({"put"})
    /\ \/ /\ remote[item] = "pending"
          /\ Remote("stored") /\ pc' = "finalize" /\ UNCHANGED <<exc, publication, faults>>
       \/ /\ remote[item] # "pending" \* 409 or 412
          /\ pc' = "finalize" /\ ambiguous' = TRUE /\ UNCHANGED <<exc, item, try, remote, faults>>
       \/ /\ Fault
          /\ pc' = "finalize" /\ ambiguous' = TRUE /\ UNCHANGED <<exc, item, try>>
          /\ remote' \in {remote, [remote EXCEPT ![item] = IF @ = "pending" THEN "stored" ELSE @]}
       \/ /\ Fault
          /\ Raise("error") /\ UNCHANGED <<publication, remote>>

FinalizeUpload ==
    /\ Transfer({"finalize"})
    /\ \/ /\ LeaseCurrent /\ remote[item] = "stored"
          /\ Remote("completed") /\ NextItem /\ UNCHANGED faults
       \/ /\ ~(LeaseCurrent /\ remote[item] = "stored") \* 409
          /\ pc' = "refused" /\ UNCHANGED <<exc, publication, remote, faults>>
       \/ /\ Fault
          /\ pc' = "refresh" /\ UNCHANGED <<exc, publication>>
          /\ remote' \in {remote, [remote EXCEPT ![item] = IF @ = "stored" THEN "finalizing" ELSE @]}

\* After a finalize that may still run: completed, or a retry when the PUT was
\* ambiguous, or the error of the finalize call: a lost answer is retried, a 409 not.
RefreshUpload ==
    /\ Transfer({"refresh", "refused"})
    /\ \/ /\ ~LeaseCurrent
          /\ Raise("error") /\ UNCHANGED <<publication, remote, faults>>
       \/ /\ LeaseCurrent /\ remote[item] = "completed"
          /\ NextItem /\ UNCHANGED <<remote, faults>>
       \/ /\ LeaseCurrent /\ remote[item] \notin {"completed", "finalizing"}
          /\ IF ambiguous \/ pc = "refresh" THEN RetryOrRaise
             ELSE Raise("error") /\ UNCHANGED publication
          /\ UNCHANGED <<remote, faults>>
       \/ Fault /\ RetryOrRaise /\ UNCHANGED remote

\* The finalization that the client stopped waiting for ends.
ManagerFinalizes ==
    /\ \E i \in Items :
          /\ remote[i] = "finalizing"
          /\ remote' \in {[remote EXCEPT ![i] = s] : s \in {"completed", "stored"}}
    /\ UNCHANGED <<executor, act, job, loops, shutdown, publication, mgr, faults>>

RegisterSample ==
    /\ Transfer({"register"})
    /\ \/ /\ ~LeaseCurrent
          /\ Raise("error") /\ UNCHANGED <<publication, remote, faults>>
       \/ LeaseCurrent /\ Remote("completed") /\ NextItem /\ UNCHANGED faults
       \/ Fault /\ RetryOrRaise /\ remote' \in {remote, [remote EXCEPT ![item] = "completed"]}

-----------------------------------------------------------------------------
\* The loops beside the executor

Active == pc \in Busy
Finished == pc = "close" \/ ~Active

\* _heartbeat_loop, up to the request.  A telemetry record that cannot be written
\* stops the job with its own error.
SendHeartbeat ==
    /\ scope = "lease"
    /\ hb.state = "off"
    /\ ~shutdown
    /\ \/ UNCHANGED <<act, faults>>
       \/ Fault /\ Active /\ pc # "admit" /\ ~act.cancelled /\ act' = Fail(act)
    /\ hb' = [NoHeartbeat EXCEPT !.state = "sent",
                                 !.job = IF Active THEN job.current ELSE 0,
                                 !.base = IF Active THEN act.left ELSE 0]
    /\ UNCHANGED <<executor, job, rn, shutdown, publication, mgr, remote>>

\* The answer is applied to the ActiveJob that the request captured.  The request
\* timeout (30 s) is shorter than a lease (120 s): an answer comes while what it
\* granted still lasts, or not at all.
ReceiveHeartbeat ==
    /\ hb.state = "answered"
    /\ hb.job # 0 => hb.left > 0
    /\ hb' = NoHeartbeat
    /\ IF hb.job # 0 /\ Active /\ hb.job = job.current
       THEN LET a == IF hb.cancel THEN Cancel(act) ELSE act IN
            act' = IF a.cancelled THEN a ELSE AcceptLeaseExpiry(a, hb.left, hb.base)
       ELSE UNCHANGED act
    /\ UNCHANGED <<executor, job, rn, shutdown, publication, mgr, remote, faults>>

LoseHeartbeat ==
    /\ hb.state # "off"
    /\ \/ Fault
       \/ hb.state = "answered" /\ hb.job # 0 /\ hb.left = 0 /\ UNCHANGED faults
    /\ hb' = NoHeartbeat
    /\ UNCHANGED <<executor, act, job, rn, shutdown, publication, mgr, remote>>

\* _lease_loop
SendRenewal ==
    /\ rn.state = "wait"
    /\ ~Finished /\ ~act.cancelled
    /\ act.left > 0
    /\ rn' = [state |-> "sent", base |-> act.left, left |-> 0]
    /\ UNCHANGED <<executor, act, job, hb, shutdown, publication, mgr, remote, faults>>

ReceiveRenewal ==
    /\ rn.state \in {"answered", "refused"}
    /\ rn.state = "answered" => rn.left > 0
    /\ LET a == IF rn.state = "refused" THEN Cancel(act)
                ELSE AcceptLeaseExpiry(act, rn.left, rn.base) IN
       /\ act' = a
       /\ rn' = [NoRenewal EXCEPT !.state = IF a.cancelled THEN "off" ELSE "wait"]
    /\ UNCHANGED <<executor, job, hb, shutdown, publication, mgr, remote, faults>>

\* A transport error, or the local lease ran out before an answer came.  A call that
\* timed out may still reach the Manager.
RenewalFails ==
    /\ rn.state \in {"sent", "answered"}
    /\ \/ Fault /\ UNCHANGED mgr
       \/ /\ rn.base = 0
          /\ mgr' \in {mgr} \cup (IF rn.state = "sent" /\ LeaseCurrent
                                THEN {[mgr EXCEPT !.left = LeaseTicks]} ELSE {})
          /\ UNCHANGED faults
    /\ IF act.left = 0
       THEN act' = Cancel(act) /\ rn' = NoRenewal
       ELSE rn' = [NoRenewal EXCEPT !.state = "wait"] /\ UNCHANGED act
    /\ UNCHANGED <<executor, job, hb, shutdown, publication, remote>>

RenewalStops ==
    /\ rn.state = "wait"
    /\ Finished \/ act.cancelled
    /\ rn' = NoRenewal
    /\ UNCHANGED <<executor, act, job, hb, shutdown, publication, mgr, remote, faults>>

\* _lease_deadline_loop
DeadlinePasses ==
    /\ scope = "lease"
    /\ ~Finished /\ ~act.cancelled
    /\ act.left = 0
    /\ act' = Cancel(act)
    /\ UNCHANGED <<executor, job, loops, shutdown, publication, mgr, remote, faults>>

\* request_shutdown
RequestShutdown ==
    /\ ~shutdown
    /\ shutdown' = TRUE
    /\ act' = IF Active THEN Cancel(act) ELSE act
    /\ UNCHANGED <<executor, job, loops, publication, mgr, remote, faults>>

\* The end of run: the draining heartbeat is best effort, the loop is cancelled.
Stop ==
    /\ pc = "idle"
    /\ shutdown
    /\ pc' = "stopped"
    /\ hb' = NoHeartbeat
    /\ UNCHANGED <<stage, exc, report, ran, act, job, rn, shutdown, publication, mgr,
                   remote, faults>>

\* (inputs, work) A loop cancels the job, or fails it when its telemetry cannot be written.
Withdraw ==
    /\ scope # "lease"
    /\ Active /\ pc # "close"
    /\ \/ /\ mgr.cancel \/ ~mgr.held
          /\ ~act.cancelled \/ act.fatal
          /\ act' = Cancel(act) /\ UNCHANGED faults
       \/ Fault /\ ~act.cancelled /\ act' = Fail(act)
    /\ UNCHANGED <<executor, job, loops, shutdown, publication, mgr, remote>>

\* (inputs, work) The lease runs out and is recovered.
LoseLease ==
    /\ scope # "lease"
    /\ mgr.held
    /\ mgr' = [mgr EXCEPT !.held = FALSE, !.left = 0]
    /\ act' = [act EXCEPT !.left = 0]
    /\ UNCHANGED <<executor, job, loops, shutdown, publication, remote, faults>>

Less(n) == IF n = 0 THEN 0 ELSE n - 1

Tick ==
    /\ scope = "lease"
    /\ mgr' = [mgr EXCEPT !.left = Less(@)]
    /\ act' = [act EXCEPT !.left = Less(@)]
    /\ hb' = [hb EXCEPT !.base = Less(@), !.left = Less(@)]
    /\ rn' = [rn EXCEPT !.base = Less(@), !.left = Less(@)]
    /\ UNCHANGED <<executor, job, shutdown, publication, remote, faults>>

Executor ==
    \/ Admit \/ ReportStatus \/ RunStage \/ StageCallback \/ Complete
    \/ Handle \/ ReportTerminal \/ Close \/ Stop
    \/ InitUpload \/ PutFile \/ FinalizeUpload \/ RefreshUpload \/ RegisterSample
    \/ TransferCancelled

Loops ==
    \/ SendHeartbeat \/ ReceiveHeartbeat \/ LoseHeartbeat
    \/ SendRenewal \/ ReceiveRenewal \/ RenewalFails \/ RenewalStops \/ DeadlinePasses

Manager ==
    \/ ManagerHeartbeat \/ ManagerRenew \/ ManagerRecover
    \/ ManagerFinalizes \/ UserCancels

Next ==
    \/ /\ Claim \/ Executor \/ Loops \/ Manager \/ RequestShutdown
          \/ Tick \/ Withdraw \/ LoseLease
       /\ UNCHANGED others
    \/ StartClaim /\ UNCHANGED <<processVars, scope>>
    \/ (StartStageInputs \/ StageInputs \/ EndStageInputs) /\ UNCHANGED processVars
    \/ (StartStageCommands \/ EndStageCommands) /\ UNCHANGED <<inputVars, scope>>
    \/ CommandsStep(act.cancelled) /\ UNCHANGED <<agentVars, inputVars>>

Spec == Init /\ [][Next]_vars

\* The event loop runs every task that is ready; every call has a timeout, so a
\* request is answered or fails; the Manager serves its requests; clocks advance.  A
\* command that nobody stopped may run for ever; one whose leader still runs at the end
\* of the grace period is killed.  A child that outlives its leader may run for ever:
\* nothing is sent to its group any more.
FairSpec ==
    /\ Spec
    /\ WF_vars(Executor /\ UNCHANGED others)
    /\ WF_vars(StartClaim /\ UNCHANGED <<processVars, scope>>)
    /\ WF_vars((StartStageInputs \/ StageInputs \/ EndStageInputs) /\ UNCHANGED processVars)
    /\ WF_vars((StartStageCommands \/ EndStageCommands) /\ UNCHANGED <<inputVars, scope>>)
    /\ WF_vars((SendHeartbeat \/ ReceiveHeartbeat \/ LoseHeartbeat) /\ UNCHANGED others)
    /\ WF_vars((SendRenewal \/ ReceiveRenewal \/ RenewalFails \/ RenewalStops) /\ UNCHANGED others)
    /\ WF_vars((DeadlinePasses \/ ManagerRecover \/ Withdraw) /\ UNCHANGED others)
    /\ WF_vars(ManagerHeartbeat /\ UNCHANGED others)
    /\ WF_vars(ManagerRenew /\ UNCHANGED others)
    /\ WF_vars(ManagerFinalizes /\ UNCHANGED others)
    /\ WF_vars(Tick /\ UNCHANGED others)
    /\ WF_vars(Relay(act.cancelled) /\ UNCHANGED <<agentVars, inputVars>>)
    /\ WF_vars(StopOthers /\ UNCHANGED <<agentVars, inputVars>>)
    /\ \A p \in Shards :
          WF_vars(stageStop /\ (Watch(p) \/ GraceEnds(p) \/ Kill(p) \/ Drain(p))
                  /\ UNCHANGED <<agentVars, inputVars>>)

-----------------------------------------------------------------------------
\* Properties

\* A job is cancelled only for a reason: its user, a shutdown, or a lease that ran
\* out.  Heartbeat and renewal answers that overtake each other are none, nor is an
\* answer that was asked for an earlier job.
CancelHasCause ==
    Active /\ act.asked =>
        \/ shutdown \/ mgr.cancel
        \/ act.left = 0 \/ ~LeaseCurrent

\* While the agent believes in its lease the Manager does too: the Worker stops
\* before the Manager may hand the job to another one.
LeaseNeverOutlived == Active /\ act.left > 0 /\ mgr.held => mgr.left >= act.left

\* The agent asks for completion only after every stage of the plan returned, in
\* order, on verified inputs, and everything it collected is published.
CompletionIsEarned ==
    pc = "complete" =>
        /\ InputStages \subseteq Kept(scope) => InputsReady
        /\ Published
        /\ ran = [i \in 1..Len(Plan) |-> i]

\* No stage returns or raises while a command it started still runs.
StageLeavesNoLeader == pc # "run" => \A p \in Shards : leader[p] # "running"

\* A child that outlived its leader holds the pipes that the pumps of run wait for.
OrphanHoldsPipes == \E p \in Shards : leader[p] = "exited" /\ child[p] = "piped"

\* A job that its user cancelled, or whose lease the Manager ended, leaves the agent;
\* the one thing that can keep it is an orphaned child that never lets go of its pipes
\* (_terminate_process_group leaves it alone, and the pumps are gathered without a bound).
LostAttemptEnds ==
    (job.current # 0 /\ (mgr.cancel \/ ~mgr.held))
        ~> (job.current = 0 \/ shutdown \/ []OrphanHoldsPipes)

=============================================================================
