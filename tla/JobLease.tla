------------------------------- MODULE JobLease -------------------------------
(***************************************************************************)
(* The Manager's assignment ledger: Jobs, their attempts, the lease of     *)
(* each attempt and the Worker rows, as the API handlers change them       *)
(* (services/workers.py, routers/workers.py, routers/experiments.py).      *)
(*                                                                         *)
(* One action is one committed database transaction.  A handler locks its  *)
(* rows (SELECT ... FOR UPDATE) and re-reads them, or commits under the    *)
(* row_version compare-and-set of Job and Worker, so its last transaction  *)
(* is atomic.  Heartbeat and claim are several transactions: the request   *)
(* is authenticated, then recover_expired_leases commits, then the body    *)
(* commits; `request' is the request between them.                         *)
(*                                                                         *)
(* Time is not a number.  `left' counts the ticks left of a lease and of   *)
(* a Worker's offline window; 0 is "expired" and "offline".  Ticks are     *)
(* separate actions, so every ratio of lease_seconds to                    *)
(* worker_offline_seconds is covered.                                      *)
(***************************************************************************)
EXTENDS Naturals

CONSTANTS
    Jobs, Workers, None,
    Allowed,         \* the transition table (JobStatus!AllowedJobTransitions)
    LeaseTicks,      \* lease_seconds, in ticks
    OfflineTicks,    \* worker_offline_seconds, in ticks
    RecoveryMax,     \* lease_recovery_max_attempts
    MaxAttempts,     \* bound on the attempts of a job
    MaxRetries,      \* bound on the manual retries of a job
    Requests,        \* the polling loops that run: pairs of a Worker and a lane
    Administered,    \* Workers whose token is rotated or revoked
    Slow,            \* requests that others may overtake before they recover
    Corruptible      \* jobs whose stored config may be found damaged

Statuses == DOMAIN Allowed
Terminal == {"completed", "failed", "cancelled"}
Running == Statuses \ (Terminal \cup {"queued", "retrying"})

\* can_transition_job with allow_same=True
CanTransition(s, t) == s = t \/ t \in Allowed[s]

\* The two loops of a Worker that poll the Manager concurrently.
Lanes == {"heartbeat", "claim"}

AttemptIds == Jobs \X (1..MaxAttempts)

ASSUME ConstantsAssumption ==
    /\ LeaseTicks \in Nat \ {0} /\ OfflineTicks \in Nat \ {0}
    /\ RecoveryMax \in Nat /\ MaxAttempts \in Nat /\ MaxRetries \in Nat
    /\ None \notin Jobs /\ None \notin Workers /\ None \notin AttemptIds
    /\ Requests \subseteq Workers \X Lanes
    /\ Administered \subseteq Workers
    /\ Slow \subseteq Requests /\ Corruptible \subseteq Jobs

\* What the ledger needs of the transition table.
ASSUME TableAssumption ==
    /\ {"queued", "retrying", "assigned"} \cup Terminal \subseteq Statuses
    /\ "absent" \notin Statuses
    /\ \A s \in Statuses : Allowed[s] \subseteq Statuses
    /\ \A s \in Running : /\ {"failed", "cancelled"} \subseteq Allowed[s]
                          /\ Allowed[s] \cap {"queued", "retrying"} = {}

VARIABLES
    \* table jobs
    jobStatus, jobWorker, jobAttempt, attemptCount, cancelRequested,
    damaged,        \* jobs whose config no longer matches its hash
    retried,        \* number of manual retries (history)
    \* table job_attempts; attemptWorker[a] = None: there is no such row
    attemptStatus, attemptWorker, finished,
    \* table job_leases, one row per attempt
    activeLeases, leaseLeft,
    \* table workers
    workerStatus, currentJob, enabled, rotating, offlineLeft,
    \* heartbeat and claim requests in progress
    stage,          \* how far the request is
    seen,           \* the current_job_id that its authentication read
    stale,          \* requests whose copy of the Worker row is out of date
    \* Worker processes
    held            \* the leases a process knows and may still use

jobVars == <<jobStatus, jobWorker, jobAttempt, attemptCount, cancelRequested, damaged, retried>>
attemptVars == <<attemptStatus, attemptWorker, finished>>
leaseVars == <<activeLeases, leaseLeft>>
workerVars == <<workerStatus, currentJob, enabled, rotating, offlineLeft>>
requestVars == <<stage, seen, stale>>
vars == <<jobVars, attemptVars, leaseVars, workerVars, requestVars, held>>

Init ==
    /\ jobStatus = [j \in Jobs |-> "absent"]
    /\ jobWorker = [j \in Jobs |-> None]
    /\ jobAttempt = [j \in Jobs |-> None]
    /\ attemptCount = [j \in Jobs |-> 0]
    /\ cancelRequested = {} /\ damaged = {}
    /\ retried = [j \in Jobs |-> 0]
    /\ attemptStatus = [a \in AttemptIds |-> "absent"]
    /\ attemptWorker = [a \in AttemptIds |-> None]
    /\ finished = {}
    /\ activeLeases = {}
    /\ leaseLeft = [a \in AttemptIds |-> 0]
    /\ workerStatus = [w \in Workers |-> "absent"]
    /\ currentJob = [w \in Workers |-> None]
    /\ enabled = {} /\ rotating = {}
    /\ offlineLeft = [w \in Workers |-> 0]
    /\ stage = [r \in Requests |-> "none"]
    /\ seen = [r \in Requests |-> None]
    /\ stale = {}
    /\ held = [w \in Workers |-> {}]

-----------------------------------------------------------------------------
\* The rows of the Workers W are written: their row_version moves on, and a
\* request that has read one of them holds a stale copy.
StaleAfter(W) == stale \cup {r \in Requests : r[1] \in W /\ stage[r] = "auth"}

Touch(W) == stale' = StaleAfter(W) /\ UNCHANGED <<stage, seen>>

LeasesOf(w) == {a \in activeLeases : attemptWorker[a] = w}

\* (mutant) the expiry of the lease is not looked at
HoldsActiveLeaseIgnoringExpiry(w, a) ==
    /\ attemptWorker[a] = w
    /\ a \in activeLeases
    /\ jobAttempt[a[1]] = a
    /\ jobWorker[a[1]] = w
    /\ a[1] \notin damaged

\* require_active_lease: the lease is the caller's, active, not expired, and
\* its attempt is still the current one of an intact job.
HoldsActiveLease(w, a) ==
    /\ attemptWorker[a] = w
    /\ a \in activeLeases
    /\ leaseLeft[a] > 0
    /\ jobAttempt[a[1]] = a
    /\ jobWorker[a[1]] = w
    /\ a[1] \notin damaged

-----------------------------------------------------------------------------
(* Workers: registration, revocation, token rotation.                      *)

RegisterWorker(w) ==
    /\ workerStatus[w] = "absent"
    /\ workerStatus' = [workerStatus EXCEPT ![w] = "idle"]
    /\ enabled' = enabled \cup {w}
    /\ offlineLeft' = [offlineLeft EXCEPT ![w] = OfflineTicks]
    /\ UNCHANGED <<jobVars, attemptVars, leaseVars, currentJob, rotating, requestVars, held>>

\* prepare_token_rotation: only an idle Worker without an active lease.
PrepareTokenRotation(w) ==
    /\ w \in enabled
    /\ currentJob[w] = None
    /\ LeasesOf(w) = {}
    /\ w \notin rotating
    /\ rotating' = rotating \cup {w}
    /\ Touch({w})
    /\ UNCHANGED <<jobVars, attemptVars, leaseVars, workerStatus, currentJob, enabled,
                   offlineLeft, held>>

\* abort_token_rotation, and activate_token_rotation of an idle Worker.
EndTokenRotation(w) ==
    /\ w \in enabled
    /\ w \in rotating
    /\ rotating' = rotating \ {w}
    /\ Touch({w})
    /\ UNCHANGED <<jobVars, attemptVars, leaseVars, workerStatus, currentJob, enabled,
                   offlineLeft, held>>

\* The Worker row after revoke_worker_token.
Disable(w) ==
    /\ workerStatus' = [workerStatus EXCEPT ![w] = "draining"]
    /\ currentJob' = [currentJob EXCEPT ![w] = None]
    /\ enabled' = enabled \ {w}
    /\ rotating' = rotating \ {w}
    /\ UNCHANGED offlineLeft
    /\ Touch({w})

\* (mutant) an assignment does not stop the plain revocation
RevokeIgnoringAssignment(w) ==
    /\ workerStatus[w] # "absent"
    /\ Disable(w)
    /\ UNCHANGED <<jobVars, attemptVars, leaseVars, held>>

\* revoke_worker_token of a Worker without an assignment.
RevokeIdle(w) ==
    /\ workerStatus[w] # "absent"
    /\ currentJob[w] = None
    /\ LeasesOf(w) = {}
    /\ Disable(w)
    /\ UNCHANGED <<jobVars, attemptVars, leaseVars, held>>

\* An attempt ends with status t and its lease is released.
CloseAttempt(a, t) ==
    /\ attemptStatus' = [attemptStatus EXCEPT ![a] = t]
    /\ finished' = finished \cup {a}
    /\ activeLeases' = activeLeases \ {a}
    /\ UNCHANGED <<attemptWorker, leaseLeft>>

\* revoke_worker_token with force_cancel_active: the assignment must be
\* consistent on both sides, and is cancelled in the same transaction.
RevokeAssigned(w) ==
    \E a \in AttemptIds :
        /\ LeasesOf(w) = {a}
        /\ currentJob[w] = a[1]
        /\ jobWorker[a[1]] = w
        /\ jobAttempt[a[1]] = a
        /\ jobStatus[a[1]] \notin Terminal
        /\ a \notin finished
        /\ jobStatus' = [jobStatus EXCEPT ![a[1]] = "cancelled"]
        /\ cancelRequested' = cancelRequested \cup {a[1]}
        /\ CloseAttempt(a, "cancelled")
        /\ Disable(w)
        /\ UNCHANGED <<jobWorker, jobAttempt, attemptCount, damaged, retried, held>>

\* re_enroll_worker: last_heartbeat_at becomes NULL, which counts as offline.
ReEnrollWorker(w) ==
    /\ workerStatus[w] # "absent"
    /\ w \notin enabled
    /\ currentJob[w] = None
    /\ LeasesOf(w) = {}
    /\ workerStatus' = [workerStatus EXCEPT ![w] = "idle"]
    /\ enabled' = enabled \cup {w}
    /\ rotating' = rotating \ {w}
    /\ offlineLeft' = [offlineLeft EXCEPT ![w] = 0]
    /\ Touch({w})
    /\ UNCHANGED <<jobVars, attemptVars, leaseVars, currentJob, held>>

-----------------------------------------------------------------------------
(* Users: create, cancel and retry a job.                                  *)

CreateJob(j) ==
    /\ jobStatus[j] = "absent"
    /\ jobStatus' = [jobStatus EXCEPT ![j] = "queued"]
    /\ UNCHANGED <<jobWorker, jobAttempt, attemptCount, cancelRequested, damaged, retried,
                   attemptVars, leaseVars, workerVars, requestVars, held>>

\* cancel_job: a queued job ends at once, an executing one is asked to stop.
CancelJob(j) ==
    /\ jobStatus[j] \in Statuses \ Terminal
    /\ \/ /\ jobStatus[j] = "queued"
          /\ jobStatus' = [jobStatus EXCEPT ![j] = "cancelled"]
          /\ UNCHANGED cancelRequested
       \/ /\ jobStatus[j] # "queued"
          /\ cancelRequested' = cancelRequested \cup {j}
          /\ UNCHANGED jobStatus
    /\ UNCHANGED <<jobWorker, jobAttempt, attemptCount, damaged, retried,
                   attemptVars, leaseVars, workerVars, requestVars, held>>

\* The rows of the jobs R after they are put back into the queue; the other
\* jobs have the statuses st.
RequeueJobs(R, st) ==
    /\ jobStatus' = [j \in Jobs |-> IF j \in R THEN "queued" ELSE st[j]]
    /\ jobWorker' = [j \in Jobs |-> IF j \in R THEN None ELSE jobWorker[j]]
    /\ jobAttempt' = [j \in Jobs |-> IF j \in R THEN None ELSE jobAttempt[j]]
    /\ cancelRequested' = cancelRequested \ R

\* retry_job passes through "retrying" inside one transaction.  A job that
\* failed without a current attempt cannot be retried.
RetryJob(j) ==
    /\ jobStatus[j] = "failed"
    /\ jobAttempt[j] # None
    /\ j \notin damaged
    /\ retried[j] < MaxRetries
    /\ RequeueJobs({j}, jobStatus)
    /\ retried' = [retried EXCEPT ![j] = @ + 1]
    /\ UNCHANGED <<attemptCount, damaged, attemptVars, leaseVars, workerVars, requestVars, held>>

\* The environment damages the stored config of a job; validated_job_config
\* refuses the job from then on.
DamageConfig(j) ==
    /\ j \in Corruptible \ damaged
    /\ jobStatus[j] # "absent"
    /\ damaged' = damaged \cup {j}
    /\ UNCHANGED <<jobStatus, jobWorker, jobAttempt, attemptCount, cancelRequested, retried,
                   attemptVars, leaseVars, workerVars, requestVars, held>>

-----------------------------------------------------------------------------
(* recover_expired_leases, run first by every heartbeat and every claim.   *)

\* The leases a pass selects: expired, unfinished, current, executing.
Abandoned ==
    {a \in AttemptIds :
        /\ attemptWorker[a] # None
        /\ leaseLeft[a] = 0
        /\ a \notin finished
        /\ jobAttempt[a[1]] = a
        /\ jobStatus[a[1]] \in Running}

\* ... whose Worker is offline by the row the session of Worker w sees.  An
\* outdated copy of its own row has an older heartbeat, so it may look offline
\* too early.
Recoverable(w, outdated) ==
    {a \in Abandoned : offlineLeft[attemptWorker[a]] = 0
                       \/ (outdated /\ attemptWorker[a] = w)}

\* (mutant) recovery does not look at the cancellation request
OutcomeIgnoringCancel(j) ==
    IF j \notin damaged /\ attemptCount[j] < RecoveryMax THEN "queued" ELSE "failed"

\* (mutant) one automatic attempt too many
OutcomeOneTooMany(j) ==
    IF j \in cancelRequested THEN "cancelled"
    ELSE IF j \notin damaged /\ attemptCount[j] <= RecoveryMax THEN "queued"
    ELSE "failed"

\* What becomes of the job of an abandoned attempt: cancelled if that was
\* asked for, else requeued within the limit, else failed.
Outcome(j) ==
    IF j \in cancelRequested THEN "cancelled"
    ELSE IF j \notin damaged /\ attemptCount[j] < RecoveryMax THEN "queued"
    ELSE "failed"

\* What the recovering session of Worker w sees as the current job of v: its
\* own Worker row was loaded by the authentication and is not read again.
SeenCurrent(w, own, v) == IF v = w THEN own ELSE currentJob[v]

\* (mutant) the Worker side of the assignment is forgotten
FreedNone(w, own, S) == {}

\* The Workers whose assignment the pass clears.
Freed(w, own, S) ==
    {v \in Workers : \E a \in S : attemptWorker[a] = v /\ SeenCurrent(w, own, v) = a[1]}

\* Request r closes the attempts S in one transaction; `own' is what it sees
\* as the current job of its own Worker.
CloseAbandoned(r, own, S) ==
    LET closed == {j \in Jobs : jobAttempt[j] \in S}
        back == {j \in closed : Outcome(j) = "queued"}
        freed == Freed(r[1], own, S)
    IN  /\ RequeueJobs(back, [j \in Jobs |-> IF j \in closed THEN Outcome(j) ELSE jobStatus[j]])
        /\ UNCHANGED <<attemptCount, damaged, retried>>
        /\ attemptStatus' = [a \in AttemptIds |->
                                IF a \notin S THEN attemptStatus[a]
                                ELSE IF a[1] \in cancelRequested THEN "cancelled" ELSE "failed"]
        /\ finished' = finished \cup S
        /\ activeLeases' = activeLeases \ S
        /\ UNCHANGED <<attemptWorker, leaseLeft>>
        /\ workerStatus' = [v \in Workers |-> IF v \in freed THEN "idle" ELSE workerStatus[v]]
        /\ currentJob' = [v \in Workers |-> IF v \in freed THEN None ELSE currentJob[v]]
        /\ UNCHANGED <<enabled, rotating, offlineLeft>>
        /\ stage' = [stage EXCEPT ![r] = "recovered"]
        /\ seen' = [seen EXCEPT ![r] = None]
        /\ stale' = StaleAfter(freed) \ {r}
        /\ UNCHANGED held

\* require_worker: the bearer token of an active Worker; the row stays in the
\* identity map of the session.
Authenticate(r) ==
    /\ r \in Slow
    /\ stage[r] = "none"
    /\ r[1] \in enabled
    /\ stage' = [stage EXCEPT ![r] = "auth"]
    /\ seen' = [seen EXCEPT ![r] = currentJob[r[1]]]
    /\ UNCHANGED <<stale, jobVars, attemptVars, leaseVars, workerVars, held>>

\* The recovery writes the session's copy of its own Worker row.
WritesOwnRow(r, S) == \E a \in S : attemptWorker[a] = r[1] /\ seen[r] = a[1]

\* SKIP LOCKED: rows another transaction holds are left for a later pass, so
\* any subset may be taken.
Recover(r) ==
    /\ stage[r] = "auth"
    /\ \E S \in SUBSET Recoverable(r[1], r \in stale) :
        /\ ~(r \in stale /\ WritesOwnRow(r, S))
        /\ CloseAbandoned(r, seen[r], S)

\* A write of a stale Worker row fails its row_version check: the transaction
\* rolls back and the request fails.
RecoverConflicts(r) ==
    /\ stage[r] = "auth"
    /\ r \in stale
    /\ \E S \in SUBSET Recoverable(r[1], TRUE) : WritesOwnRow(r, S)
    /\ stage' = [stage EXCEPT ![r] = "none"]
    /\ seen' = [seen EXCEPT ![r] = None]
    /\ stale' = stale \ {r}
    /\ UNCHANGED <<jobVars, attemptVars, leaseVars, workerVars, held>>

\* Authentication and recovery of a request that nothing overtakes.
PollTaking(r, S) ==
    /\ r \notin Slow
    /\ stage[r] = "none"
    /\ r[1] \in enabled
    /\ CloseAbandoned(r, currentJob[r[1]], S)

Poll(r) == \E S \in SUBSET Recoverable(r[1], FALSE) : PollTaking(r, S)

-----------------------------------------------------------------------------
(* The bodies of heartbeat and claim, and the requests made under a lease. *)

\* Request r ends; it wrote the rows of the Workers W.
EndRequest(r, W) ==
    /\ stage' = [stage EXCEPT ![r] = "none"]
    /\ stale' = StaleAfter(W)
    /\ UNCHANGED seen

\* (mutant) a refused request refreshes last_heartbeat_at all the same
RefuseRefreshing(r) ==
    /\ stage[r] = "recovered"
    /\ offlineLeft' = [offlineLeft EXCEPT ![r[1]] = OfflineTicks]
    /\ EndRequest(r, {r[1]})
    /\ UNCHANGED <<jobVars, attemptVars, leaseVars, workerStatus, currentJob, enabled,
                   rotating, held>>

\* Any refusal (401, 409) and a claim without a candidate: nothing changes.
Refuse(r) ==
    /\ stage[r] = "recovered"
    /\ EndRequest(r, {})
    /\ UNCHANGED <<jobVars, attemptVars, leaseVars, workerVars, held>>

\* The Worker row after an accepted heartbeat that reports status s.
HeardFrom(w, s) ==
    /\ workerStatus' = [workerStatus EXCEPT ![w] = s]
    /\ offlineLeft' = [offlineLeft EXCEPT ![w] = OfflineTicks]
    /\ UNCHANGED <<currentJob, enabled, rotating>>

\* heartbeat with a current job: every row of the claim is checked again, and
\* the lease is extended.  is_active is not checked again.
HeartbeatWithJob(r) ==
    /\ r[2] = "heartbeat"
    /\ stage[r] = "recovered"
    /\ \E a \in held[r[1]], s \in {"busy", "draining"} :
        /\ HoldsActiveLease(r[1], a)
        /\ a \notin finished
        /\ currentJob[r[1]] = a[1]
        /\ leaseLeft' = [leaseLeft EXCEPT ![a] = LeaseTicks]
        /\ HeardFrom(r[1], s)
    /\ EndRequest(r, {r[1]})
    /\ UNCHANGED <<jobVars, attemptVars, activeLeases, held>>

\* heartbeat without a job: refused while the Manager has an assignment, and
\* then it does not refresh last_heartbeat_at either.
HeartbeatIdle(r) ==
    /\ r[2] = "heartbeat"
    /\ stage[r] = "recovered"
    /\ currentJob[r[1]] = None
    /\ \E s \in {"idle", "draining"} : HeardFrom(r[1], s)
    /\ EndRequest(r, {r[1]})
    /\ UNCHANGED <<jobVars, attemptVars, leaseVars, held>>

\* The guards of claim_job on the locked Worker row.
MayClaim(w) ==
    /\ w \in enabled
    /\ w \notin rotating
    /\ workerStatus[w] # "draining"
    /\ currentJob[w] = None

DamagedQueued == {j \in damaged : jobStatus[j] = "queued"}

\* _quarantine_invalid_queued_job_config of the jobs Q.
Quarantined(Q) == [j \in Jobs |-> IF j \in Q THEN "failed" ELSE jobStatus[j]]

\* claim_job grants job j to Worker w, having quarantined the damaged jobs Q on
\* the way.  Capability, dataset and test set checks only narrow the choice.
\* The response may be lost: then the Worker does not know its lease.
Grant(w, j, Q, known) ==
    LET a == <<j, attemptCount[j] + 1>> IN
    /\ jobStatus[j] = "queued"
    /\ j \notin damaged
    /\ attemptCount[j] < MaxAttempts
    /\ jobStatus' = [Quarantined(Q) EXCEPT ![j] = "assigned"]
    /\ jobWorker' = [jobWorker EXCEPT ![j] = w]
    /\ jobAttempt' = [jobAttempt EXCEPT ![j] = a]
    /\ attemptCount' = [attemptCount EXCEPT ![j] = @ + 1]
    /\ UNCHANGED <<cancelRequested, damaged, retried>>
    /\ attemptStatus' = [attemptStatus EXCEPT ![a] = "assigned"]
    /\ attemptWorker' = [attemptWorker EXCEPT ![a] = w]
    /\ UNCHANGED finished
    /\ activeLeases' = activeLeases \cup {a}
    /\ leaseLeft' = [leaseLeft EXCEPT ![a] = LeaseTicks]
    /\ workerStatus' = [workerStatus EXCEPT ![w] = "busy"]
    /\ currentJob' = [currentJob EXCEPT ![w] = j]
    /\ offlineLeft' = [offlineLeft EXCEPT ![w] = OfflineTicks]
    /\ UNCHANGED <<enabled, rotating>>
    /\ held' = IF known THEN [held EXCEPT ![w] = @ \cup {a}] ELSE held

Claim(r) ==
    /\ r[2] = "claim"
    /\ stage[r] = "recovered"
    /\ MayClaim(r[1])
    /\ \E j \in Jobs, Q \in SUBSET DamagedQueued, known \in BOOLEAN : Grant(r[1], j, Q, known)
    /\ EndRequest(r, {r[1]})

\* claim_job finds only damaged jobs and commits their quarantine.
ClaimQuarantines(r) ==
    /\ r[2] = "claim"
    /\ stage[r] = "recovered"
    /\ MayClaim(r[1])
    /\ DamagedQueued # {}
    /\ jobStatus' = Quarantined(DamagedQueued)
    /\ EndRequest(r, {})
    /\ UNCHANGED <<jobWorker, jobAttempt, attemptCount, cancelRequested, damaged, retried,
                   attemptVars, leaseVars, workerVars, held>>

\* renew_lease extends the lease and leaves the Worker row alone.
RenewLease(w, a) ==
    /\ w \in enabled
    /\ a \in held[w]
    /\ HoldsActiveLease(w, a)
    /\ leaseLeft' = [leaseLeft EXCEPT ![a] = LeaseTicks]
    /\ UNCHANGED <<jobVars, attemptVars, activeLeases, workerVars, requestVars, held>>

\* The fence of update_job_status (_lock_current_status_claim), the transition
\* table and the precedence of cancellation.
MayReport(w, a, t) ==
    /\ a \in held[w]
    /\ HoldsActiveLease(w, a)
    /\ w \in enabled
    /\ currentJob[w] = a[1]
    /\ a \notin finished
    /\ attemptStatus[a] = jobStatus[a[1]]
    /\ jobStatus[a[1]] \notin Terminal
    /\ CanTransition(jobStatus[a[1]], t)
    /\ a[1] \in cancelRequested => t = "cancelled"

\* update_job_status with a non-terminal status.
ReportStage(w, a, t) ==
    /\ t \notin Terminal
    /\ MayReport(w, a, t)
    /\ jobStatus' = [jobStatus EXCEPT ![a[1]] = t]
    /\ attemptStatus' = [attemptStatus EXCEPT ![a] = t]
    /\ UNCHANGED <<jobWorker, jobAttempt, attemptCount, cancelRequested, damaged, retried,
                   attemptWorker, finished, leaseVars, workerVars, requestVars, held>>

\* update_job_status with a terminal status: both sides of the assignment are
\* released.  The artifact and sample checks of "completed" only refuse.
ReportTerminal(w, a, t) ==
    /\ t \in Terminal
    /\ MayReport(w, a, t)
    /\ jobStatus' = [jobStatus EXCEPT ![a[1]] = t]
    /\ CloseAttempt(a, t)
    /\ workerStatus' = [workerStatus EXCEPT ![w] = "idle"]
    /\ currentJob' = [currentJob EXCEPT ![w] = None]
    /\ Touch({w})
    /\ UNCHANGED <<jobWorker, jobAttempt, attemptCount, cancelRequested, damaged, retried,
                   enabled, rotating, offlineLeft, held>>

\* The Worker process drops a lease: the claim ended, or the process died.
Forget(w, a) ==
    /\ a \in held[w]
    /\ held' = [held EXCEPT ![w] = @ \ {a}]
    /\ UNCHANGED <<jobVars, attemptVars, leaseVars, workerVars, requestVars>>

-----------------------------------------------------------------------------
(* Time.                                                                   *)

LeaseTick(a) ==
    /\ a \in activeLeases
    /\ leaseLeft[a] > 0
    /\ leaseLeft' = [leaseLeft EXCEPT ![a] = @ - 1]
    /\ UNCHANGED <<jobVars, attemptVars, activeLeases, workerVars, requestVars, held>>

OfflineTick(w) ==
    /\ offlineLeft[w] > 0
    /\ offlineLeft' = [offlineLeft EXCEPT ![w] = @ - 1]
    /\ UNCHANGED <<jobVars, attemptVars, leaseVars, workerStatus, currentJob, enabled,
                   rotating, requestVars, held>>

-----------------------------------------------------------------------------
WorkerAdmin(w) ==
    \/ PrepareTokenRotation(w) \/ EndTokenRotation(w)
    \/ RevokeIdle(w) \/ RevokeAssigned(w) \/ ReEnrollWorker(w)

UserStep(j) == CreateJob(j) \/ CancelJob(j) \/ RetryJob(j) \/ DamageConfig(j)

RequestStep(r) ==
    \/ Authenticate(r) \/ Recover(r) \/ RecoverConflicts(r) \/ Poll(r) \/ Refuse(r)
    \/ HeartbeatWithJob(r) \/ HeartbeatIdle(r) \/ Claim(r) \/ ClaimQuarantines(r)

LeaseStep(w, a) ==
    \/ RenewLease(w, a) \/ Forget(w, a)
    \/ \E t \in Statuses : ReportStage(w, a, t) \/ ReportTerminal(w, a, t)

Next ==
    \/ \E w \in Administered : WorkerAdmin(w)
    \/ \E w \in Workers : RegisterWorker(w) \/ OfflineTick(w)
    \/ \E j \in Jobs : UserStep(j)
    \/ \E r \in Requests : RequestStep(r)
    \/ \E w \in Workers, a \in AttemptIds : LeaseStep(w, a)
    \/ \E a \in AttemptIds : LeaseTick(a)

Spec == Init /\ [][Next]_vars

\* Every live Worker polls in a loop, the Manager answers, and time passes.
\* No row is locked by others at every pass, so again and again a pass takes
\* every recoverable lease.
Fairness ==
    /\ \A r \in Requests : /\ SF_vars(PollTaking(r, Recoverable(r[1], FALSE)))
                           /\ WF_vars(Refuse(r) \/ HeartbeatWithJob(r) \/ HeartbeatIdle(r)
                                      \/ Claim(r) \/ ClaimQuarantines(r))
    /\ \A a \in AttemptIds : WF_vars(LeaseTick(a))
    /\ \A w \in Workers : WF_vars(OfflineTick(w))

FairSpec == Spec /\ Fairness

-----------------------------------------------------------------------------
(* Properties.                                                             *)

\* The columns hold values of their types.
TypeOK ==
    /\ jobStatus \in [Jobs -> Statuses \cup {"absent"}]
    /\ jobWorker \in [Jobs -> Workers \cup {None}]
    /\ jobAttempt \in [Jobs -> AttemptIds \cup {None}]
    /\ attemptCount \in [Jobs -> 0..MaxAttempts]
    /\ cancelRequested \subseteq Jobs /\ damaged \subseteq Jobs
    /\ retried \in [Jobs -> 0..MaxRetries]
    /\ attemptStatus \in [AttemptIds -> Statuses \cup {"absent"}]
    /\ attemptWorker \in [AttemptIds -> Workers \cup {None}]
    /\ finished \subseteq AttemptIds
    /\ activeLeases \subseteq AttemptIds
    /\ leaseLeft \in [AttemptIds -> 0..LeaseTicks]
    /\ workerStatus \in [Workers -> {"absent", "idle", "busy", "draining"}]
    /\ currentJob \in [Workers -> Jobs \cup {None}]
    /\ enabled \subseteq Workers /\ rotating \subseteq Workers
    /\ offlineLeft \in [Workers -> 0..OfflineTicks]
    /\ stage \in [Requests -> {"none", "auth", "recovered"}]
    /\ seen \in [Requests -> Jobs \cup {None}]
    /\ stale \subseteq Requests
    /\ held \in [Workers -> SUBSET AttemptIds]

\* An active lease, its attempt, its job and its Worker agree with each other.
LeaseMatchesRows ==
    \A a \in activeLeases :
        /\ attemptWorker[a] \in Workers
        /\ a \notin finished
        /\ attemptStatus[a] = jobStatus[a[1]]
        /\ jobAttempt[a[1]] = a
        /\ jobWorker[a[1]] = attemptWorker[a]
        /\ jobStatus[a[1]] \in Running
        /\ currentJob[attemptWorker[a]] = a[1]
        /\ attemptWorker[a] \in enabled

\* A job in an execution status has an active lease behind it.
RunningHasLease ==
    \A j \in Jobs : jobStatus[j] \in Running => jobAttempt[j] \in activeLeases

\* prepare_token_rotation promises an idle Worker; a pending rotation and an
\* assignment never coexist, whichever of claim and prepare commits first.
PendingMeansIdle ==
    \A w \in rotating : currentJob[w] = None /\ LeasesOf(w) = {}

\* The assignment ledger is consistent whatever interleaving of claims,
\* heartbeats, reports, revocations, rotations, retries and recoveries committed:
\* no job executes without a lease, no lease outlives its job or its Worker, and no
\* Worker gets an assignment while its token is being rotated.
LedgerConsistent == LeaseMatchesRows /\ RunningHasLease /\ PendingMeansIdle

\* The current attempt of a job is one of its own.
CurrentAttemptOwn == \A j \in Jobs : jobAttempt[j] # None => jobAttempt[j][1] = j

\* Attempts that were not started yet have left no trace.
FutureAttemptsBlank ==
    \A a \in AttemptIds :
        a[2] > attemptCount[a[1]] => a \notin activeLeases /\ a \notin finished

\* The inductive strengthening of LedgerConsistent.
LedgerInv ==
    /\ TypeOK
    /\ LeaseMatchesRows
    /\ RunningHasLease
    /\ CurrentAttemptOwn
    /\ FutureAttemptsBlank

\* The comment of require_active_lease: recovery "closes the attempt and clears
\* both sides of the assignment atomically", so a Worker row that names a job
\* has an active lease on it.
NoOrphanAssignment ==
    \A w \in Workers :
        currentJob[w] # None => \E a \in LeasesOf(w) : a[1] = currentJob[w]

\* A finished attempt is history: its row never changes and its lease never
\* becomes active again, although the job may run again.
FinishedAttemptFrozen ==
    [][\A a \in finished :
         /\ a \in finished'
         /\ attemptStatus'[a] = attemptStatus[a]
         /\ attemptWorker'[a] = attemptWorker[a]
         /\ a \notin activeLeases']_vars

\* Once a lease has expired its holder can neither extend it nor move the job
\* on: only a recovery or a revocation ends the attempt, never successfully.
ExpiredLeaseFenced ==
    [][\A a \in activeLeases :
         leaseLeft[a] = 0 =>
            /\ leaseLeft'[a] = 0
            /\ \/ a \in activeLeases' /\ attemptStatus'[a] = attemptStatus[a]
               \/ a \notin activeLeases' /\ attemptStatus'[a] \in {"failed", "cancelled"}]_vars

\* A cancellation that was requested while a job executes wins every race: the
\* next status of the job is "cancelled", also when recovery closes it.
CancelWins ==
    [][\A j \in cancelRequested :
         jobStatus[j] \in Running /\ jobStatus'[j] # jobStatus[j]
            => jobStatus'[j] = "cancelled"]_vars

\* An assignment whose Worker lost track of it (it crashed, or never got the
\* answer to its claim) is taken back in the end, by its own polls too: refused
\* heartbeats do not keep it alive.
AbandonedLeaseReleased ==
    \A a \in AttemptIds :
        a \in activeLeases /\ a \notin held[attemptWorker[a]] ~> a \notin activeLeases

\* The owner in the abstract queue of a job with status st and Worker w.
OwnerOf(st, w) ==
    CASE st = "absent" -> <<"absent">>
      [] st = "queued" -> <<"waiting">>
      [] st \in Running -> w
      [] OTHER -> <<"ended">>

\* No Worker is mistaken for one of the other owners.
ASSUME OwnerAssumption == {<<"absent">>, <<"waiting">>, <<"ended">>} \cap Workers = {}

Queue == INSTANCE JobQueue WITH
            RunLimit <- RecoveryMax, Absent <- <<"absent">>, Waiting <- <<"waiting">>, Ended <- <<"ended">>,
            owner <- [j \in Jobs |-> OwnerOf(jobStatus[j], jobWorker[j])],
            runs <- attemptCount

\* Every step of the ledger is a step of the job queue or leaves it alone: one
\* Worker per job, one job per Worker, a new run number for every start, and no
\* requeueing beyond lease_recovery_max_attempts.
ImplementsJobQueue == Queue!Spec
=============================================================================
