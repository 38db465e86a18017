--------------------------- MODULE MaintenanceRuns ---------------------------
(***************************************************************************)
(* One maintenance run: the ledger row of PostgreSQL, the RQ job of Redis  *)
(* that delivers it, and the processes that move them.  Requests           *)
(* (routers/maintenance.py) and the reconciler (services/maintenance.py)   *)
(* write the row and enqueue the job through RqMaintenanceQueue; horses of *)
(* the RQ worker (rq_worker.py) execute it.  Two stores and no transaction *)
(* over both: each Redis round trip is a step of its own, a row lock lasts *)
(* from the SELECT ... FOR UPDATE to the commit, and a request that has    *)
(* just inserted the row enqueues without a lock.  Whether a row is due    *)
(* (updated_at) is left open, and a heartbeat may be late at any time.     *)
(***************************************************************************)
EXTENDS Naturals, FiniteSets

CONSTANTS
    None,
    Requests,     \* POSTs with the same idempotency key
    Reconciler,   \* the cycle that holds the advisory lock
    Horses,       \* RQ work horses
    MaxAttempts,  \* bound on max_attempts of the run; RQ gets one retry less
    MaxFaults     \* bound on failed Redis calls, dead processes, losses of the Redis
                  \* data and changes of the settings

Procs == Requests \cup {Reconciler}

ASSUME RunsAssumption ==
    /\ MaxAttempts \in Nat \ {0} /\ MaxFaults \in Nat
    /\ Reconciler \notin Requests /\ None \notin Procs

VARIABLES
    row,      \* MaintenanceTaskRun
    rowLock,  \* who holds its row lock
    job,      \* the RQ job and the lists, registries and streams it is in
    queueLock,\* rvc:maintenance:enqueue:<job>
    proc,     \* requests and the reconciler
    horse,    \* RQ work horses
    clean,    \* history: attempts whose work ended without a failure
    lost,     \* history: the Redis data have been lost
    faults

vars == <<row, rowLock, job, queueLock, proc, horse, clean, lost, faults>>

Ended == {"completed", "failed"}
Statuses == {"absent", "queued", "running", "retrying", "enqueue_failed"} \cup Ended

\* job.status "none" is a job without a hash.
NoJob == [status |-> "none", at |-> {}, results |-> FALSE, executions |-> {},
          exact |-> FALSE, retries |-> 0]

JobStatuses == {"none", "queued", "started", "scheduled", "finished", "failed"}
Places == {"queue", "intermediate", "scheduled"}

\* What an enqueue call ends with: an existing job ("started" or "waiting"), a new
\* one, none, MaintenanceQueueEnvelopeConflict (two codes) or ...Unavailable.
Conflicts == {"poisoned_active", "poisoned_execution"}
Results == {"none", "started", "waiting", "created", "missing", "unavailable"} \cup Conflicts

QueueLabels == {"fetch", "intermediate", "place", "quarantine", "put"}
CallLabels == {"lock"} \cup QueueLabels \cup {"write"}
Labels == {"idle", "insert", "reread", "exhausted", "done"} \cup CallLabels

IdleProc == [pc |-> "idle", seen |-> "absent", create |-> TRUE, again |-> FALSE,
             status |-> "none", exact |-> FALSE, result |-> "none"]

IdleHorse == [pc |-> "idle", attempt |-> 0, retries |-> 0, exact |-> FALSE, bad |-> FALSE]

Init ==
    /\ \E n \in 1..MaxAttempts :
          row = [status |-> "absent", attempt |-> 0, max |-> n, fresh |-> FALSE]
    /\ rowLock = None
    /\ job = NoJob
    /\ queueLock = None
    /\ \E absent \in SUBSET Requests :   \* these requests never come
          proc = [p \in Procs |-> [IdleProc EXCEPT !.pc = IF p \in absent THEN "done" ELSE "idle"]]
    /\ \E off \in SUBSET Horses :        \* these horses do not run
          horse = [h \in Horses |-> [IdleHorse EXCEPT !.pc = IF h \in off THEN "off" ELSE "idle"]]
    /\ clean = {}
    /\ lost = FALSE /\ faults \in 0..MaxFaults

TypeOK ==
    /\ row \in [status : Statuses, attempt : 0..MaxAttempts, max : 1..MaxAttempts,
               fresh : BOOLEAN]
    /\ rowLock \in Procs \cup {None}
    /\ job \in [status : JobStatuses, at : SUBSET Places, results : BOOLEAN,
                executions : SUBSET Horses, exact : BOOLEAN, retries : 0..MaxAttempts]
    /\ queueLock \in Procs \cup {None}
    /\ proc \in [Procs -> [pc : Labels, seen : Statuses, create : BOOLEAN,
                           again : BOOLEAN, status : JobStatuses, exact : BOOLEAN,
                           result : Results]]
    /\ horse \in [Horses -> [pc : {"off", "idle", "got", "perform", "work", "finish", "success", "failure"},
                             attempt : 0..MaxAttempts, retries : 0..MaxAttempts,
                             exact : BOOLEAN, bad : BOOLEAN]]
    /\ clean \subseteq 0..MaxAttempts
    /\ lost \in BOOLEAN /\ faults \in 0..MaxFaults

rowVars == <<row, rowLock>>
queueVars == <<job, queueLock>>
rest == <<clean, lost>>

Fault == faults < MaxFaults /\ faults' = faults + 1

Exhausted == row.attempt >= row.max

\* A heartbeat only counts while the run is running.
SetStatus(s) == row' = [row EXCEPT !.status = s, !.fresh = @ /\ s = "running"]

Unlocked(p) == rowLock \in {None, p}
-----------------------------------------------------------------------------
(* _enqueue_staging_cleanup *)

\* The SELECT ... FOR UPDATE and what is decided under its lock.
Lookup(r) ==
    /\ proc[r].pc = "idle"
    /\ \/ /\ row.status = "absent"
          /\ proc' = [proc EXCEPT ![r].pc = "insert"]
          /\ UNCHANGED rowVars
       \/ /\ row.status \in Ended \cup {"running"} /\ rowLock = None
          /\ proc' = [proc EXCEPT ![r].pc = "done"]
          /\ UNCHANGED rowVars
       \/ /\ row.status \in {"queued", "retrying", "enqueue_failed"} /\ rowLock = None
          /\ Exhausted
          /\ SetStatus("failed")
          /\ proc' = [proc EXCEPT ![r].pc = "done"]
          /\ UNCHANGED rowLock
       \/ /\ row.status \in {"queued", "retrying", "enqueue_failed"} /\ rowLock = None
          /\ ~Exhausted
          /\ rowLock' = r
          /\ proc' = [proc EXCEPT ![r].pc = "lock", ![r].seen = row.status]
          /\ UNCHANGED row
    /\ UNCHANGED <<queueVars, horse, faults, rest>>

\* The commit of a new row, or its IntegrityError.
Insert(r) ==
    /\ proc[r].pc = "insert"
    /\ IF row.status = "absent"
       THEN /\ SetStatus("queued")
            /\ proc' = [proc EXCEPT ![r].pc = "lock", ![r].seen = "queued"]
       ELSE /\ proc' = [proc EXCEPT ![r].pc = "reread"]
            /\ UNCHANGED row
    /\ UNCHANGED <<rowLock, queueVars, horse, faults, rest>>

\* The read after the IntegrityError takes no lock.
Reread(r) ==
    /\ proc[r].pc = "reread"
    /\ proc' = [proc EXCEPT ![r].pc = IF row.status \in Ended \cup {"running"} THEN "done"
                                      ELSE IF Exhausted THEN "exhausted" ELSE "lock",
                            ![r].seen = row.status]
    /\ UNCHANGED <<rowVars, queueVars, horse, faults, rest>>

CloseExhausted(r) ==
    /\ proc[r].pc = "exhausted" /\ Unlocked(r)
    /\ SetStatus("failed")
    /\ proc' = [proc EXCEPT ![r].pc = "done"]
    /\ UNCHANGED <<rowLock, queueVars, horse, faults, rest>>

\* The UPDATE after the enqueue call sets the columns that differ from what the
\* session has loaded, whatever the row holds by then.
Assigned(seen, status) == IF seen = status THEN row.status ELSE status

RequestStatus(r) ==
    CASE proc[r].result \in Conflicts -> "failed"
      [] proc[r].result = "unavailable" -> Assigned(proc[r].seen, "enqueue_failed")
      [] OTHER -> Assigned(proc[r].seen, "queued")

Record(r) ==
    /\ proc[r].pc = "write" /\ Unlocked(r)
    /\ SetStatus(RequestStatus(r))
    /\ rowLock' = None
    /\ proc' = [proc EXCEPT ![r] = [IdleProc EXCEPT !.pc = "done"]]
    /\ UNCHANGED <<queueVars, horse, faults, rest>>
-----------------------------------------------------------------------------
(* reconcile_maintenance_runs *)

\* (mutant) runs whose heartbeat stopped are not picked up.
Candidate_NotRunning == row.status \in {"queued", "retrying", "enqueue_failed"}

Candidate ==
    \/ row.status \in {"queued", "retrying", "enqueue_failed"}
    \/ row.status = "running" /\ ~row.fresh

Pick ==
    /\ proc[Reconciler].pc = "idle"
    /\ Candidate /\ rowLock = None
    /\ rowLock' = Reconciler
    /\ proc' = [proc EXCEPT ![Reconciler].pc = "lock", ![Reconciler].create = ~Exhausted]
    /\ UNCHANGED <<row, queueVars, horse, faults, rest>>

ReconciledStatus(result) ==
    IF result \in Conflicts THEN "failed"
    ELSE IF result = "unavailable"
         THEN IF row.status = "running" THEN "running" ELSE "enqueue_failed"
    ELSE IF Exhausted THEN IF result = "started" THEN row.status ELSE "failed"
    ELSE IF row.status = "enqueue_failed" THEN "queued" ELSE row.status

Reconcile ==
    /\ proc[Reconciler].pc = "write"
    /\ SetStatus(ReconciledStatus(proc[Reconciler].result))
    /\ rowLock' = None
    /\ proc' = [proc EXCEPT ![Reconciler] = IdleProc]
    /\ UNCHANGED <<queueVars, horse, faults, rest>>
-----------------------------------------------------------------------------
(* RqMaintenanceQueue._enqueue_cleanup *)

\* The call is over: release the queue lock and go on to the row.
Return(p, result) ==
    /\ proc' = [proc EXCEPT ![p] = [IdleProc EXCEPT !.pc = "write", !.seen = proc[p].seen,
                                                    !.result = result]]
    /\ queueLock' = IF queueLock = p THEN None ELSE queueLock

Continue(p, label) ==
    /\ proc' = [proc EXCEPT ![p].pc = label]
    /\ UNCHANGED queueLock

AcquireQueueLock(p) ==
    /\ proc[p].pc = "lock" /\ queueLock = None
    /\ queueLock' = p
    /\ proc' = [proc EXCEPT ![p].pc = "fetch"]
    /\ UNCHANGED <<rowVars, job, horse, faults, rest>>

\* Nothing of the job is left: create it, unless the call may not, or unless this
\* is the second look after a failed put, which raises the put's error.
Absent(p) ==
    IF proc[p].again THEN Return(p, "unavailable")
    ELSE IF proc[p].create THEN Continue(p, "put")
    ELSE Return(p, "missing")

\* What _existing_job does with the place where the job was found.
Judge(p, exact, place) ==
    IF exact /\ place # "nowhere"
    THEN Return(p, IF place = "started" THEN "started" ELSE "waiting")
    ELSE IF place = "started" THEN Return(p, "poisoned_active")
    ELSE Continue(p, "quarantine")

\* Job.fetch, the envelope check and HGET status.
Fetch(p) ==
    /\ proc[p].pc = "fetch"
    /\ \/ job.status = "none" /\ Absent(p)
       \/ job.status = "started" /\ Judge(p, job.exact, "started")
       \/ job.status \in {"finished", "failed"} /\ Judge(p, job.exact, "nowhere")
       \/ /\ job.status \in {"queued", "scheduled"}
          /\ proc' = [proc EXCEPT ![p].pc = IF job.status = "queued" THEN "intermediate"
                                            ELSE "place",
                                  ![p].status = job.status,
                                  ![p].exact = job.exact]
          /\ UNCHANGED queueLock
    /\ UNCHANGED <<rowVars, job, horse, faults, rest>>

\* _active_job_state: LPOS of the intermediate queue ...
LookIntermediate(p) ==
    /\ proc[p].pc = "intermediate"
    /\ IF "intermediate" \in job.at
       THEN Judge(p, proc[p].exact, "started")
       ELSE Continue(p, "place")
    /\ UNCHANGED <<rowVars, job, horse, faults, rest>>

\* ... and then LPOS of the queue, or ZSCORE of the scheduled registry.
LookPlace(p) ==
    /\ proc[p].pc = "place"
    /\ LET place == IF proc[p].status = "queued" THEN "queue" ELSE "scheduled"
       IN Judge(p, proc[p].exact, IF place \in job.at THEN place ELSE "nowhere")
    /\ UNCHANGED <<rowVars, job, horse, faults, rest>>

\* (mutant) the script looks at the status only.
Active_StatusOnly == job.status = "started"

Active == job.status = "started" \/ "intermediate" \in job.at
Executed == job.results \/ job.executions # {}

\* _QUARANTINE_JOB_LUA is one atomic script.
Quarantine(p) ==
    /\ proc[p].pc = "quarantine"
    /\ IF Active THEN Return(p, "poisoned_active") /\ UNCHANGED job
       ELSE IF Executed THEN Return(p, "poisoned_execution") /\ UNCHANGED job
       ELSE job' = NoJob /\ Absent(p)
    /\ UNCHANGED <<rowVars, horse, faults, rest>>

\* _enqueue_exact
NewJob == [job EXCEPT !.status = "queued", !.at = @ \cup {"queue"}, !.exact = TRUE,
                      !.retries = row.max - 1]

Put(p) ==
    /\ proc[p].pc = "put"
    /\ job' = NewJob
    /\ Return(p, "created")
    /\ UNCHANGED <<rowVars, horse, faults, rest>>

\* A put that raises, after it took effect or before: look at the job once more.
PutFails(p) ==
    /\ proc[p].pc = "put" /\ Fault
    /\ job' \in {job, NewJob}
    /\ proc' = [proc EXCEPT ![p].pc = "fetch", ![p].again = TRUE]
    /\ UNCHANGED <<rowVars, queueLock, horse, rest>>

\* Any other Redis call that raises, the busy queue lock included; the answer of the
\* script may be lost after it ran.
CallFails(p) ==
    /\ proc[p].pc \in {"lock", "fetch", "intermediate", "place", "quarantine"} /\ Fault
    /\ \/ UNCHANGED job
       \/ proc[p].pc = "quarantine" /\ ~Active /\ ~Executed /\ job' = NoJob
    /\ Return(p, "unavailable")
    /\ UNCHANGED <<rowVars, horse, rest>>

\* The API process stops: its transaction is rolled back and the queue lock runs out.
Crash(p) ==
    /\ proc[p].pc \notin {"idle", "done"} /\ Fault
    /\ proc' = [proc EXCEPT ![p] = [IdleProc EXCEPT !.pc = IF p = Reconciler THEN "idle"
                                                           ELSE "done"]]
    /\ rowLock' = IF rowLock = p THEN None ELSE rowLock
    /\ queueLock' = IF queueLock = p THEN None ELSE queueLock
    /\ UNCHANGED <<row, job, horse, rest>>
-----------------------------------------------------------------------------
(* The RQ worker *)

Busy(h) == horse[h].pc \notin {"off", "idle"}

Goto(h, label) == horse' = [horse EXCEPT ![h].pc = label]

Dequeue(h) ==
    /\ horse[h].pc = "idle" /\ "queue" \in job.at
    /\ job' = [job EXCEPT !.at = (@ \ {"queue"}) \cup {"intermediate"}]
    /\ horse' = [horse EXCEPT ![h] = [IdleHorse EXCEPT !.pc = "got", !.retries = job.retries,
                                                       !.exact = job.exact]]
    /\ UNCHANGED <<rowVars, queueLock, proc, faults, rest>>

\* AllowlistedMaintenanceWorker.execute_job and _reject_job
Execute(h) ==
    /\ horse[h].pc = "got"
    /\ IF horse[h].exact
       THEN /\ job' = [job EXCEPT !.status = "started", !.at = @ \ {"intermediate"},
                                  !.executions = @ \cup {h},
                                  !.exact = @ /\ job.status # "none"]
            /\ Goto(h, "perform")
       ELSE /\ job' = [job EXCEPT !.status = "failed", !.at = @ \ {"intermediate"},
                                  !.results = TRUE, !.exact = FALSE]
            /\ horse' = [horse EXCEPT ![h] = IdleHorse]
    /\ UNCHANGED <<rowVars, queueLock, proc, faults, rest>>

\* _start_run
Start(h) ==
    /\ horse[h].pc = "perform" /\ rowLock = None
    /\ \/ /\ row.status \in Ended
          /\ Goto(h, "success") /\ UNCHANGED row
       \/ /\ row.status = "enqueue_failed" \/ (row.status = "running" /\ row.fresh)
          /\ Goto(h, "failure") /\ UNCHANGED row
       \/ /\ row.status \in {"queued", "retrying"} \/ (row.status = "running" /\ ~row.fresh)
          /\ IF Exhausted
             THEN /\ SetStatus("failed")
                  /\ Goto(h, "success")
             ELSE /\ row' = [row EXCEPT !.status = "running", !.attempt = @ + 1, !.fresh = TRUE]
                  /\ horse' = [horse EXCEPT ![h].pc = "work", ![h].attempt = row.attempt + 1]
    /\ UNCHANGED <<rowLock, queueVars, proc, faults, rest>>

Owns(h) == row.status = "running" /\ row.attempt = horse[h].attempt

\* _RunHeartbeat.pulse, which also comes before and after every claim and delete.
Pulse(h) ==
    /\ horse[h].pc = "work" /\ rowLock = None
    /\ Owns(h)
    /\ row' = [row EXCEPT !.fresh = TRUE]
    /\ UNCHANGED <<rowLock, queueVars, proc, horse, faults, rest>>

\* A pulse that finds no row to update.
LoseOwnership(h) ==
    /\ horse[h].pc = "work" /\ rowLock = None
    /\ ~Owns(h)
    /\ Goto(h, "failure")
    /\ UNCHANGED <<rowVars, queueVars, proc, faults, rest>>

\* The uploads have been looked at, with or without a failure among them.
WorkEnds(h) ==
    /\ horse[h].pc = "work" /\ rowLock = None /\ Owns(h)
    /\ row' = [row EXCEPT !.fresh = TRUE]
    /\ \E bad \in BOOLEAN :
          /\ horse' = [horse EXCEPT ![h].pc = "finish", ![h].bad = bad]
          /\ clean' = IF bad THEN clean ELSE clean \cup {horse[h].attempt}
    /\ UNCHANGED <<rowLock, queueVars, proc, faults, lost>>

\* _finish_run and what maintenance_tasks.py makes of its answer
Finish(h) ==
    /\ horse[h].pc = "finish" /\ rowLock = None
    /\ IF ~Owns(h) THEN Goto(h, "failure") /\ UNCHANGED row
       ELSE IF ~horse[h].bad
            THEN SetStatus("completed") /\ Goto(h, "success")
       ELSE IF Exhausted
            THEN SetStatus("failed") /\ Goto(h, "success")
       ELSE SetStatus("retrying") /\ Goto(h, "failure")
    /\ UNCHANGED <<rowLock, queueVars, proc, faults, rest>>

\* handle_job_success
Succeed(h) ==
    /\ horse[h].pc = "success"
    /\ job' = [job EXCEPT !.status = "finished", !.results = TRUE, !.executions = @ \ {h},
                          !.exact = @ /\ job.status # "none"]
    /\ horse' = [horse EXCEPT ![h] = IdleHorse]
    /\ UNCHANGED <<rowVars, queueLock, proc, faults, rest>>

\* handle_job_failure: a retry saves the whole job again.
Fail(h) ==
    /\ horse[h].pc = "failure"
    /\ job' = IF horse[h].retries > 0
              THEN [job EXCEPT !.status = "scheduled", !.at = @ \cup {"scheduled"},
                               !.executions = @ \ {h}, !.exact = TRUE,
                               !.retries = horse[h].retries - 1]
              ELSE [job EXCEPT !.status = "failed", !.results = TRUE,
                               !.executions = @ \ {h}, !.exact = @ /\ job.status # "none"]
    /\ horse' = [horse EXCEPT ![h] = IdleHorse]
    /\ UNCHANGED <<rowVars, queueLock, proc, faults, rest>>

\* RQ's scheduler promotes a due retry.
Promote ==
    /\ "scheduled" \in job.at
    /\ job' = [job EXCEPT !.status = "queued", !.at = (@ \ {"scheduled"}) \cup {"queue"}]
    /\ UNCHANGED <<rowVars, queueLock, proc, horse, faults, rest>>

\* The horse dies or runs into the job timeout; its parent reports the failure,
\* unless the job is gone or closed.
HorseDies(h) ==
    /\ horse[h].pc \in {"perform", "work", "finish", "success"} /\ Fault
    /\ horse' = [horse EXCEPT ![h] = IF job.status \in {"none", "finished", "failed"}
                                     THEN IdleHorse ELSE [@ EXCEPT !.pc = "failure"]]
    /\ UNCHANGED <<rowVars, queueVars, proc, rest>>

\* The RQ worker dies with its horse.  Its next process leaves started jobs alone.
WorkerDies(h) ==
    /\ Busy(h) /\ Fault
    /\ horse' = [horse EXCEPT ![h] = IdleHorse]
    /\ UNCHANGED <<rowVars, queueVars, proc, rest>>

\* Time passes without a heartbeat.
HeartbeatLate ==
    /\ row.status = "running" /\ row.fresh
    /\ row' = [row EXCEPT !.fresh = FALSE]
    /\ UNCHANGED <<rowLock, queueVars, proc, horse, faults, rest>>

\* Redis comes back empty.
RedisLost ==
    /\ Fault /\ lost' = TRUE
    /\ job' = NoJob
    /\ queueLock' = None
    /\ UNCHANGED <<rowVars, proc, horse, clean>>

\* The settings that an exact envelope must match change while no horse has the job.
Reconfigure ==
    /\ Fault
    /\ job.status # "none" /\ \A h \in Horses : ~Busy(h)
    /\ job' = [job EXCEPT !.exact = FALSE]
    /\ UNCHANGED <<rowVars, queueLock, proc, horse, rest>>
-----------------------------------------------------------------------------
RequestStep(r) == Lookup(r) \/ Insert(r) \/ Reread(r) \/ CloseExhausted(r) \/ Record(r)

ReconcilerStep == Pick \/ Reconcile

QueueStep(p) ==
    \/ AcquireQueueLock(p) \/ Fetch(p) \/ LookIntermediate(p) \/ LookPlace(p)
    \/ Quarantine(p) \/ Put(p)

HorseStep(h) ==
    \/ Dequeue(h) \/ Execute(h) \/ Start(h) \/ LoseOwnership(h) \/ WorkEnds(h)
    \/ Finish(h) \/ Succeed(h) \/ Fail(h)

Next ==
    \/ \E r \in Requests : RequestStep(r)
    \/ ReconcilerStep
    \/ \E p \in Procs : QueueStep(p) \/ PutFails(p) \/ CallFails(p) \/ Crash(p)
    \/ \E h \in Horses : HorseStep(h) \/ Pulse(h) \/ HorseDies(h) \/ WorkerDies(h)
    \/ Promote \/ HeartbeatLate \/ RedisLost \/ Reconfigure

Spec == Init /\ [][Next]_vars

\* A request runs until it answers, the reconciler cycles for ever, the RQ worker polls
\* and its scheduler promotes what is due, and time passes.  A horse that waits for the
\* row lock gets it: PostgreSQL serves waiters, the reconciler skips locked rows.
Fairness ==
    /\ \A r \in Requests : WF_vars(proc[r].pc # "idle" /\ RequestStep(r))
    /\ \A p \in Procs : WF_vars(QueueStep(p))
    /\ WF_vars(ReconcilerStep)
    /\ \A h \in Horses : SF_vars(HorseStep(h))
    /\ WF_vars(Promote) /\ WF_vars(HeartbeatLate)

FairSpec == Spec /\ Fairness
-----------------------------------------------------------------------------
(* Properties *)

\* A request that has read the row without its lock and will still write it.
Blind(r) ==
    /\ proc[r].pc \in CallLabels \cup {"exhausted"}
    /\ rowLock # r

\* The one step that takes a run out of the status it ended in is the write of a request
\* that read the row without its lock (_enqueue_staging_cleanup after the commit of a new
\* row, or after it lost the race to insert one): it may overwrite a completed run.  No
\* step of the reconciler, of an attempt or of a request that locked the row does.
EndIsFinal ==
    [][row.status \in Ended /\ row'.status # row.status
         => \E r \in Requests : Blind(r) /\ (Record(r) \/ CloseExhausted(r))]_vars

\* A completed run was completed by its latest attempt, whose work ended without a
\* failure: an attempt that was replaced can not report for its successor.
CompletedByItsAttempt == row.status = "completed" => row.attempt \in clean

\* As long as Redis keeps its data, the repairs of the enqueue call never get a job
\* into the hands of a second horse while one has it.
OneExecution ==
    ~lost => \A g, h \in Horses : Busy(g) /\ Busy(h) => g = h

\* The worker that had the job died; only an operator releases a started job.
Abandoned == Active /\ \A h \in Horses : ~Busy(h)

\* Every run ends, whatever Redis calls fail or data Redis loses, unless the RQ worker
\* died with the job.
Ends == [](row.status # "absent" => <>(row.status \in Ended \/ Abandoned))

\* An exact job that a worker has taken is recognised, never reported as a poisoned
\* one: _existing_job accepts an exact active job.
ExactIsKept == [][\A p \in Procs :
    proc[p].exact /\ proc'[p].result # proc[p].result => proc'[p].result # "poisoned_active"]_vars
=============================================================================
