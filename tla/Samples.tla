------------------------------- MODULE Samples -------------------------------
(***************************************************************************)
(* The samples of a job that asks for them: their registration             *)
(* (register_sample of routers/artifacts.py, services/samples.py) and the  *)
(* report that completes the job (update_job_status of routers/workers.py).*)
(*                                                                         *)
(* Both look at the claim, then read and check the bytes of artifacts for  *)
(* as long as minutes without any lock, and only then take the fence of    *)
(* the job: the row locks of lease, job, attempt and Worker on PostgreSQL, *)
(* the write lock that the no-op UPDATE takes on SQLite.  The samples that *)
(* complete a job are not read again behind the fence.                     *)
(*                                                                         *)
(* The artifacts of a payload are completed uploads, whose bytes stay      *)
(* (ArtifactHasBytes of ArtifactUpload).  What the payload must agree with *)
(* (plan, configuration, runtime, PCM metrics) and the limits on parallel  *)
(* verifications only refuse.                                              *)
(***************************************************************************)
EXTENDS Naturals, FiniteSetsExt

CONSTANTS
    TestItems,    \* the items of the job's test set
    Outputs,      \* what a Worker may register: item, inference run, size
    OutputLimit,  \* SAMPLE_MAX_TOTAL_OUTPUT_BYTES
    MaxAttempts,  \* bound on attempts
    Handlers,     \* requests handled at a time
    NoSample, Nobody

VARIABLES
    samples,      \* Sample by attempt and item (uq_sample_attempt_item_config)
    attempt,      \* the job's current attempt, or the last one
    state,        \* Job.status; "running" stands for the stages
    cancelling,   \* Job.cancel_requested_at
    leased,       \* of the current attempt: "held", "lapsed" when it expired, "released"
    fence,        \* the request in whose transaction the job is locked
    calls         \* requests

sampleVars == <<samples, attempt, state, cancelling, leased, fence, calls>>

Calls == [at : {"idle"}]
    \cup [at : {"verifying", "fenced"}, attempt : 1..MaxAttempts, output : Outputs]
    \cup [at : {"reporting"}, attempt : 1..MaxAttempts]

IdleCall == [at |-> "idle"]

ASSUME SamplesAssumption ==
    /\ MaxAttempts \in Nat /\ OutputLimit \in Nat
    /\ IsFiniteSet(TestItems) /\ TestItems # {}
    /\ Outputs \subseteq [item : TestItems, run : Nat, size : Nat]
    /\ NoSample \notin Outputs
    /\ Nobody \notin Handlers

SamplesTypeOK ==
    /\ samples \in [1..MaxAttempts -> [TestItems -> Outputs \cup {NoSample}]]
    /\ attempt \in 0..MaxAttempts
    /\ state \in {"queued", "running", "completed", "failed", "cancelled"}
    /\ cancelling \in BOOLEAN
    /\ leased \in {"held", "lapsed", "released"}
    /\ fence \in Handlers \cup {Nobody}
    /\ calls \in [Handlers -> Calls]

SamplesInit ==
    /\ samples = [a \in 1..MaxAttempts |-> [i \in TestItems |-> NoSample]]
    /\ attempt = 0
    /\ state = "queued"
    /\ cancelling = FALSE
    /\ leased = "released"
    /\ fence = Nobody
    /\ calls = [h \in Handlers |-> IdleCall]

-----------------------------------------------------------------------------
(* Registration.                                                           *)

\* require_active_lease and the claim checks of register_sample.
ActiveLease == state = "running" /\ leased = "held"

Receive(h, o) ==
    /\ calls[h].at = "idle"
    /\ ActiveLease
    /\ calls' = [calls EXCEPT ![h] = [at |-> "verifying", attempt |-> attempt, output |-> o]]
    /\ UNCHANGED <<samples, attempt, state, cancelling, leased, fence>>

\* What the request was about is still the job's claim.
ClaimUnchanged(c) == ActiveLease /\ attempt = c.attempt /\ ~cancelling

\* (mutant) the claim is not looked at again after the verification
FenceStale(h) ==
    /\ calls[h].at = "verifying"
    /\ fence = Nobody
    /\ fence' = h
    /\ calls' = [calls EXCEPT ![h].at = "fenced"]
    /\ UNCHANGED <<samples, attempt, state, cancelling, leased>>

Fence(h) ==
    /\ calls[h].at = "verifying"
    /\ fence = Nobody
    /\ ClaimUnchanged(calls[h])
    /\ fence' = h
    /\ calls' = [calls EXCEPT ![h].at = "fenced"]
    /\ UNCHANGED <<samples, attempt, state, cancelling, leased>>

\* Output of the samples of one attempt.
TotalOutput(row) ==
    MapThenSumSet(LAMBDA i : IF row[i] = NoSample THEN 0 ELSE row[i].size, TestItems)

\* The transaction ends.
EndCall(h) ==
    /\ calls' = [calls EXCEPT ![h] = IdleCall]
    /\ fence' = IF fence = h THEN Nobody ELSE fence

\* A new row, if the lease has not run out meanwhile.
Register(h) ==
    /\ calls[h].at = "fenced"
    /\ leased = "held"
    /\ LET o == calls[h].output
           row == samples[calls[h].attempt]
       IN /\ row[o.item] = NoSample
          /\ TotalOutput(row) + o.size <= OutputLimit
          /\ samples' = [samples EXCEPT ![calls[h].attempt][o.item] = o]
    /\ EndCall(h)
    /\ UNCHANGED <<attempt, state, cancelling, leased>>

\* Every other end: a refusal, a failed verification, a replay of a sample that is
\* registered, a lock that was not to be had, a lost connection.
Answer(h) ==
    /\ calls[h].at # "idle"
    /\ EndCall(h)
    /\ UNCHANGED <<samples, attempt, state, cancelling, leased>>

-----------------------------------------------------------------------------
(* Completion.                                                             *)

\* sample_completion_ready: as many samples as items, one of each, of one run.
CompletionReady(row) ==
    /\ \A i \in TestItems : row[i] # NoSample
    /\ TotalOutput(row) <= OutputLimit
    /\ \A i, j \in TestItems : row[i].run = row[j].run

ReportCompleted(h) ==
    /\ calls[h].at = "idle"
    /\ ActiveLease /\ ~cancelling
    /\ CompletionReady(samples[attempt])
    /\ calls' = [calls EXCEPT ![h] = [at |-> "reporting", attempt |-> attempt]]
    /\ UNCHANGED <<samples, attempt, state, cancelling, leased, fence>>

CommitCompleted(h) ==
    /\ calls[h].at = "reporting"
    /\ fence = Nobody
    /\ ClaimUnchanged(calls[h])
    /\ state' = "completed"
    /\ leased' = "released"
    /\ EndCall(h)
    /\ UNCHANGED <<samples, attempt, cancelling>>

-----------------------------------------------------------------------------
(* The claim, whose own module is JobLease.  Each of these steps changes   *)
(* the locked rows.                                                        *)

ClaimJob ==
    /\ state = "queued" /\ attempt < MaxAttempts
    /\ attempt' = attempt + 1
    /\ state' = "running"
    /\ leased' = "held"
    /\ UNCHANGED <<samples, cancelling, fence, calls>>

\* The clock needs no lock.
LeaseExpires ==
    /\ leased = "held"
    /\ leased' = "lapsed"
    /\ UNCHANGED <<samples, attempt, state, cancelling, fence, calls>>

CancelRunning ==
    /\ fence = Nobody
    /\ state = "running"
    /\ cancelling' = TRUE
    /\ UNCHANGED <<samples, attempt, state, leased, fence, calls>>

CancelQueued ==
    /\ state = "queued"
    /\ state' = "cancelled"
    /\ UNCHANGED <<samples, attempt, cancelling, leased, fence, calls>>

\* A report of failure or cancellation; after a request to cancel, of cancellation.
ReportEnd(to) ==
    /\ fence = Nobody
    /\ ActiveLease
    /\ cancelling => to = "cancelled"
    /\ state' = to
    /\ leased' = "released"
    /\ UNCHANGED <<samples, attempt, cancelling, fence, calls>>

\* revoke_worker_token with force_cancel_active
RevokeWorker ==
    /\ fence = Nobody
    /\ state = "running"
    /\ state' = "cancelled"
    /\ cancelling' = TRUE
    /\ leased' = "released"
    /\ UNCHANGED <<samples, attempt, fence, calls>>

\* recover_expired_leases, with or without an attempt left
RecoverLease(to) ==
    /\ fence = Nobody
    /\ state = "running" /\ leased = "lapsed"
    /\ to \in (IF cancelling THEN {"cancelled"} ELSE {"failed", "queued"})
    /\ state' = to
    /\ leased' = "released"
    /\ UNCHANGED <<samples, attempt, cancelling, fence, calls>>

RetryFailed ==
    /\ state = "failed"
    /\ state' = "queued"
    /\ cancelling' = FALSE
    /\ UNCHANGED <<samples, attempt, leased, fence, calls>>

SamplesNext ==
    \/ \E h \in Handlers :
        \/ \E o \in Outputs : Receive(h, o)
        \/ Fence(h) \/ Register(h) \/ Answer(h)
        \/ ReportCompleted(h) \/ CommitCompleted(h)
    \/ ClaimJob \/ LeaseExpires \/ CancelRunning \/ CancelQueued
    \/ \E to \in {"failed", "cancelled"} : ReportEnd(to)
    \/ RevokeWorker
    \/ \E to \in {"failed", "queued", "cancelled"} : RecoverLease(to)
    \/ RetryFailed

SamplesSpec == SamplesInit /\ [][SamplesNext]_sampleVars

-----------------------------------------------------------------------------
\* Registration and completion keep the promise of SampleLedger, though both decide
\* on what they read before a long verification.
Ledger == INSTANCE SampleLedger WITH Total <- TotalOutput
ImplementsSampleLedger == Ledger!Spec
=============================================================================
