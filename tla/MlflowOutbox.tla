------------------------------ MODULE MlflowOutbox ------------------------------
(***************************************************************************)
(* The MLflow outbox of services/mlflow.py: events of one job, written in  *)
(* the transaction that changed the ledger, claimed by an API process,     *)
(* projected with REST requests, and marked synced or put back.  A request *)
(* that failed or timed out may have been acted on, may never be, or may   *)
(* be acted on later, when the projection has been tried again.            *)
(*                                                                         *)
(* A process projects one event at a time (_projection_lock).  A claim has *)
(* no owner: a process that dies leaves its event "processing" until it is *)
(* stale, and one that is merely slow may finish an event that somebody    *)
(* else has claimed meanwhile.  MLflow is external and modelled by what    *)
(* the adapter asks of it.                                                 *)
(***************************************************************************)
EXTENDS Naturals, Sequences, FiniteSets

CONSTANTS
    Procs,       \* API processes
    EventKinds,       \* the events in ledger order: "job", "batch" or "terminal"
    Chunks,      \* per event, the log-batch requests it needs
    FaultBound(_)  \* bound on failed requests, crashes and slow projections, for these processes

Events == 1..Len(EventKinds)

ASSUME OutboxAssumption ==
    /\ EventKinds \in Seq({"job", "batch", "terminal"})
    /\ Chunks \in [Events -> Nat \ {0}]
    /\ IsFiniteSet(Procs) /\ \A R \in SUBSET Procs : FaultBound(R) \in Nat

VARIABLES
    event,       \* mlflow_sync_events
    proc,        \* per process: the projection under way
    experiment,  \* MLflow: the experiment exists
    runs,        \* MLflow: the runs with the job's tag
    found,       \* MLflow: the run a search returns first, 0 for none
    late,        \* requests on their way to MLflow that nobody waits for any more
    replicas,    \* the processes that exist
    faults

mlflow == <<experiment, runs, found>>
outboxVars == <<event, proc, mlflow, late, replicas, faults>>

NoEvent == [status |-> "none", due |-> FALSE, stale |-> FALSE]
Idle == [at |-> "idle", event |-> 0, run |-> 0, chunk |-> 0]
Parts == UNION {{e} \X (1..Chunks[e]) : e \in Events}

\* A run just created: no marker tag, nothing logged, no terminal status.  "logged" counts
\* the log-batch requests of a part, but for the overtaken ones, which are in "again";
\* "extra" is a run that an overtaken request created.
NewRun(overtaken) ==
    [marks |-> {}, logged |-> [x \in Parts |-> 0], again |-> {}, ended |-> {}, extra |-> overtaken]

OutboxInit ==
    /\ event = [e \in Events |-> NoEvent]
    /\ proc = [p \in Procs |-> Idle]
    /\ experiment = FALSE /\ runs = <<>> /\ found = 0 /\ late = {}
    /\ replicas \in {R \in SUBSET Procs : R # {}}
    /\ faults = 0

Labels == {"idle", "experiment", "find", "create", "refind", "tags", "log", "update", "mark",
           "retry", "done"}

\* The labels at which a request is under way that changes something in MLflow.
Sending == {"experiment", "create", "log", "update", "mark"}
Requests == [what : Sending, run : Nat, part : Parts, id : Nat]

OutboxTypeOK ==
    /\ event \in [Events -> [status : {"none", "pending", "processing", "synced"},
                             due : BOOLEAN, stale : BOOLEAN]]
    /\ proc \in [Procs -> [at : Labels, event : Events \cup {0}, run : 0..Len(runs), chunk : Nat]]
    /\ experiment \in BOOLEAN /\ found \in 0..Len(runs)
    /\ runs \in Seq([marks : SUBSET Parts, logged : [Parts -> 0..2], again : SUBSET Parts,
                      ended : SUBSET Events, extra : BOOLEAN])
    /\ late \subseteq Requests
    /\ replicas \subseteq Procs /\ faults \in 0..FaultBound(replicas)

(***************************************************************************)
(* The outbox.                                                             *)
(***************************************************************************)
\* The event is inserted with the ledger change it stands for.
Enqueue(e) ==
    /\ event[e].status = "none"
    /\ e > 1 => event[e - 1].status # "none"
    /\ event' = [event EXCEPT ![e] = [status |-> "pending", due |-> TRUE, stale |-> FALSE]]
    /\ UNCHANGED <<proc, mlflow, late, replicas, faults>>

\* (mutant) claims that died stay as they are
NotRecovered(ev) == ev

\* _recover_stale_processing, at the start of every claim.
Recovered(ev) ==
    [e \in Events |-> IF ev[e].status = "processing" /\ ev[e].stale
                      THEN [status |-> "pending", due |-> TRUE, stale |-> FALSE] ELSE ev[e]]

Ready(ev) == {e \in Events : ev[e].status = "pending" /\ ev[e].due}

Take(p, e) ==
    /\ event' = [Recovered(event) EXCEPT ![e] = [status |-> "processing", due |-> FALSE, stale |-> FALSE]]
    /\ proc' = [proc EXCEPT ![p] = [at |-> "experiment", event |-> e, run |-> 0, chunk |-> 1]]
    /\ UNCHANGED <<mlflow, late, replicas, faults>>

\* The background loop claims the oldest event that is due.
ClaimOldest(p) ==
    /\ p \in replicas /\ proc[p].at = "idle"
    /\ \E e \in Ready(Recovered(event)) :
         /\ \A d \in Ready(Recovered(event)) : e <= d
         /\ Take(p, e)

\* sync_after_commit, after the commit or a replay of the request: the named event,
\* whether or not its backoff is over.
ClaimNamed(p, e) ==
    /\ p \in replicas /\ proc[p].at = "idle"
    /\ Recovered(event)[e].status = "pending"
    /\ Take(p, e)

\* _mark_synced and _mark_retry: whatever became of the claim, if the event is processing.
MarkSynced(p) ==
    LET e == proc[p].event
    IN /\ proc[p].at = "done"
       /\ event' = IF event[e].status = "processing"
                   THEN [event EXCEPT ![e] = [status |-> "synced", due |-> FALSE, stale |-> FALSE]]
                   ELSE event
       /\ proc' = [proc EXCEPT ![p] = Idle]
       /\ UNCHANGED <<mlflow, late, replicas, faults>>

MarkRetry(p) ==
    LET e == proc[p].event
    IN /\ proc[p].at = "retry"
       /\ event' = IF event[e].status = "processing"
                   THEN [event EXCEPT ![e] = [status |-> "pending", due |-> FALSE, stale |-> FALSE]]
                   ELSE event
       /\ proc' = [proc EXCEPT ![p] = Idle]
       /\ UNCHANGED <<mlflow, late, replicas, faults>>

(***************************************************************************)
(* The projection: one action per request.                                 *)
(***************************************************************************)
At(p, label) == proc[p].at = label
GoTo(p, label) == proc' = [proc EXCEPT ![p].at = label]

Part(p) == <<proc[p].event, proc[p].chunk>>

\* The request a process waits for; the number of faults so far tells apart those that fail.
Outgoing(p) == [what |-> proc[p].at, run |-> proc[p].run, part |-> Part(p), id |-> faults]

WithPart(run, x, overtaken) ==
    [run EXCEPT !.marks = @ \cup {x},
                !.logged[x] = IF @ < 2 /\ ~overtaken THEN @ + 1 ELSE @,
                !.again = IF overtaken THEN @ \cup {x} ELSE @]

\* What a request does to its run: log-batch writes the data and the marker in one
\* request, update the terminal status, set-tag the marker of the terminal event.
OnRun(run, q, overtaken) ==
    CASE q.what = "log"    -> WithPart(run, q.part, overtaken)
      [] q.what = "update" -> [run EXCEPT !.ended = @ \cup {q.part[1]}]
      [] q.what = "mark"   -> [run EXCEPT !.marks = @ \cup {q.part}]

\* runs/create: nothing stops two requests from creating a run each; which of them
\* a search returns first is MLflow's choice.
Created(overtaken) ==
    /\ runs' = Append(runs, NewRun(overtaken))
    /\ found' \in IF found = 0 THEN {Len(runs) + 1} ELSE {found, Len(runs) + 1}

\* MLflow acts on a request.
Acts(q, overtaken) ==
    \/ q.what = "experiment" /\ experiment' = TRUE /\ UNCHANGED <<runs, found>>
    \/ q.what = "create" /\ Created(overtaken) /\ UNCHANGED experiment
    \/ /\ q.what \in {"log", "update", "mark"}
       /\ runs' = [runs EXCEPT ![q.run] = OnRun(runs[q.run], q, overtaken)]
       /\ UNCHANGED <<experiment, found>>

\* A request that raises: a projection is over and its event goes back ("retry"); a
\* failed create is looked for once more ("refind").
Failed(p, label) ==
    /\ faults < FaultBound(replicas) /\ faults' = faults + 1
    /\ GoTo(p, label)

\* Answered; or failed after MLflow acted on it; or failed and still on its way.
Request(p, Ok, label) ==
    \/ Ok /\ Acts(Outgoing(p), FALSE) /\ UNCHANGED <<late, faults>>
    \/ Failed(p, label) /\ Acts(Outgoing(p), FALSE) /\ UNCHANGED late
    \/ Failed(p, label) /\ late' = late \cup {Outgoing(p)} /\ UNCHANGED mlflow

\* Somebody has looked meanwhile and did not find what the request q does, or it is
\* there already.
Overtaken(q) ==
    \/ q.what = "create" /\ (runs # <<>> \/ \E p \in Procs : At(p, "create"))
    \/ q.what = "log" /\ \/ q.part \in runs[q.run].marks
                         \/ \E p \in Procs : At(p, "log") /\ proc[p].run = q.run /\ Part(p) = q.part

\* MLflow acts on a request that nobody waits for.
ActsLate(q) ==
    /\ q \in late /\ late' = late \ {q}
    /\ Acts(q, Overtaken(q))
    /\ UNCHANGED <<event, proc, replicas, faults>>

\* _ensure_experiment: the name is unique, so a lost create is found again.
EnsureExperiment(p) ==
    /\ At(p, "experiment")
    /\ Request(p, GoTo(p, "find"), "retry")
    /\ UNCHANGED <<event, replicas>>

\* _find_run_id, the first time and after a create that failed.
FindRun(p) ==
    /\ proc[p].at \in {"find", "refind"}
    /\ \/ /\ found # 0
          /\ proc' = [proc EXCEPT ![p].at = "tags", ![p].run = found]
          /\ UNCHANGED faults
       \/ /\ found = 0
          /\ GoTo(p, IF At(p, "find") THEN "create" ELSE "retry")
          /\ UNCHANGED faults
       \/ Failed(p, "retry")
    /\ UNCHANGED <<event, mlflow, late, replicas>>

\* _ensure_run
CreateRun(p) ==
    /\ At(p, "create")
    /\ Request(p, proc' = [proc EXCEPT ![p].at = "tags", ![p].run = Len(runs) + 1], "refind")
    /\ UNCHANGED <<event, replicas>>

\* (mutant) the marker is never looked for
NeverMarked(p) == FALSE

\* The marker tag of this part is on the run.
Marked(p) == Part(p) \in runs[proc[p].run].marks

\* After a part: the next one, or the end of the projection.
NextPart(p) ==
    IF proc[p].chunk < Chunks[proc[p].event]
    THEN proc' = [proc EXCEPT ![p].at = "tags", ![p].chunk = @ + 1]
    ELSE GoTo(p, "done")

\* _run_tags
ReadTags(p) ==
    /\ At(p, "tags")
    /\ \/ /\ Marked(p) /\ NextPart(p) /\ UNCHANGED faults
       \/ /\ ~Marked(p) /\ UNCHANGED faults
          /\ GoTo(p, IF EventKinds[proc[p].event] = "terminal" THEN "update" ELSE "log")
       \/ Failed(p, "retry")
    /\ UNCHANGED <<event, mlflow, late, replicas>>

\* runs/log-batch
LogBatch(p) ==
    /\ At(p, "log")
    /\ Request(p, NextPart(p), "retry")
    /\ UNCHANGED <<event, replicas>>

\* runs/update and, for the terminal event, runs/set-tag.
UpdateRun(p) ==
    /\ At(p, "update")
    /\ Request(p, GoTo(p, "mark"), "retry")
    /\ UNCHANGED <<event, replicas>>

SetTag(p) ==
    /\ At(p, "mark")
    /\ Request(p, NextPart(p), "retry")
    /\ UNCHANGED <<event, replicas>>

Project(p) ==
    \/ EnsureExperiment(p) \/ FindRun(p) \/ CreateRun(p) \/ ReadTags(p)
    \/ LogBatch(p) \/ UpdateRun(p) \/ SetTag(p)

(***************************************************************************)
(* Time and failures.                                                      *)
(***************************************************************************)
\* The backoff of next_attempt_at is over.
BackoffEnds(e) ==
    /\ event[e].status = "pending" /\ ~event[e].due
    /\ event' = [event EXCEPT ![e].due = TRUE]
    /\ UNCHANGED <<proc, mlflow, late, replicas, faults>>

Owned(e) == \E p \in Procs : proc[p].event = e

\* mlflow_processing_stale_seconds after the claim, with nobody left to finish it ...
ClaimAges(e) ==
    /\ event[e].status = "processing" /\ ~event[e].stale /\ ~Owned(e)
    /\ event' = [event EXCEPT ![e].stale = TRUE]
    /\ UNCHANGED <<proc, mlflow, late, replicas, faults>>

\* ... or with a projection that takes longer than that.
SlowProjection(e) ==
    /\ event[e].status = "processing" /\ ~event[e].stale /\ Owned(e)
    /\ faults < FaultBound(replicas) /\ faults' = faults + 1
    /\ event' = [event EXCEPT ![e].stale = TRUE]
    /\ UNCHANGED <<proc, mlflow, late, replicas>>

\* The process dies and starts again, or loses the database before it can mark the event.
\* A request it has sent may still be acted on.
ProcessDies(p) ==
    /\ proc[p].at # "idle"
    /\ faults < FaultBound(replicas) /\ faults' = faults + 1
    /\ proc' = [proc EXCEPT ![p] = Idle]
    /\ late' \in {late} \cup (IF proc[p].at \in Sending THEN {late \cup {Outgoing(p)}} ELSE {})
    /\ UNCHANGED <<event, mlflow, replicas>>

OutboxNext ==
    \/ \E e \in Events : Enqueue(e) \/ BackoffEnds(e) \/ ClaimAges(e) \/ SlowProjection(e)
    \/ \E p \in Procs : ClaimOldest(p) \/ Project(p) \/ MarkSynced(p) \/ MarkRetry(p) \/ ProcessDies(p)
    \/ \E p \in Procs, e \in Events : ClaimNamed(p, e)
    \/ \E q \in late : ActsLate(q)

OutboxSpec == OutboxInit /\ [][OutboxNext]_outboxVars

\* The background loop of every process runs, requests end (they have a timeout), and
\* time passes.  That MLflow answers again in the end is the bound on the faults.
OutboxFairness ==
    /\ \A p \in Procs : /\ WF_outboxVars(ClaimOldest(p))
                        /\ WF_outboxVars(Project(p)) /\ WF_outboxVars(MarkSynced(p) \/ MarkRetry(p))
    /\ \A e \in Events : WF_outboxVars(BackoffEnds(e)) /\ WF_outboxVars(ClaimAges(e))

FairOutboxSpec == OutboxSpec /\ OutboxFairness

(***************************************************************************)
(* Properties.                                                             *)
(***************************************************************************)
\* MLflow has all of the event on one run: every part logged, or the terminal status
\* written, and not only the marker.
Projected(e) ==
    \E r \in DOMAIN runs :
        IF EventKinds[e] = "terminal" THEN e \in runs[r].ended
        ELSE \A k \in 1..Chunks[e] : runs[r].logged[<<e, k>>] > 0 \/ <<e, k>> \in runs[r].again

\* With one API process, whatever requests fail and however often it is restarted, the
\* job has one run and no metric or parameter batch is logged twice on a run - but for
\* what a request does that was overtaken: one that MLflow acts on after the adapter gave
\* it up and a retry has looked for its run or its marker in vain (_ensure_run,
\* _log_batch_once).  Against that the markers are no help.
ProjectedOnce ==
    Cardinality(replicas) = 1 =>
        /\ \A r, s \in DOMAIN runs : ~runs[r].extra /\ ~runs[s].extra => r = s
        /\ \A r \in DOMAIN runs : \A x \in Parts : runs[r].logged[x] <= 1

\* Every event of the outbox is synced in the end, and then MLflow has it: also when
\* the process that claimed it died, or when its projection was overtaken.
EventsProjected ==
    \A e \in Events : (event[e].status # "none") ~> (event[e].status = "synced" /\ Projected(e))

=============================================================================
