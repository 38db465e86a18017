------------------------------ MODULE Telemetry ------------------------------
(***************************************************************************)
(* Logs and metrics of a job's attempts: the Worker's durable spool and    *)
(* sequence counters (rvc_worker/telemetry.py, _update_status of agent.py) *)
(* and the Manager's idempotent ingestion with terminal watermarks         *)
(* (routers/workers.py).                                                   *)
(*                                                                         *)
(* An event of a kind is known by its ordinal; its content is a function   *)
(* of it.  A batch is <<attempt, kind, ordinal, first, source, number>>:   *)
(* its entries take the sequences from first on, and its idempotency key   *)
(* is made of its source and number.  One Worker runs the attempts of one  *)
(* job, one after the other.  A metric with ordinal n reports epoch n.     *)
(***************************************************************************)
EXTENDS Naturals, FiniteSets

CONSTANTS
    None,
    Kinds,          \* "log" and "metric", or one of them
    MaxAttempts,    \* bound on the attempts of the job
    MaxEvents,      \* bound on the events of a kind in an attempt ...
    Offered(_, _),  \* ... and the sources that the n-th event of an attempt may have
    MaxRecords,     \* bound on the records of all attempts
    MaxSequence,    \* bound on the entries of a kind in an attempt
    Entries(_),     \* how many entries a metric batch of a source has
    MaxDelayed,     \* bound on the requests that are late at one time
    MaxUpsets,      \* bound on failed writes, bad metrics, late requests and bars
    FailureModes,   \* how _write_record may fail: "before", "after" publishing
    Before(_, _)    \* order in which a flush visits records (file names)

\* A training event, one with a metric that the job's total_epoch rules out, and a
\* system snapshot.
Sources == {"event", "bad", "system"}

Size(kind, source) == IF kind = "log" THEN 1 ELSE Entries(source)

Attempts == 1..MaxAttempts
Ordinals == 1..MaxEvents
Sequences == 0..MaxSequence
Batches == {b \in Attempts \X Kinds \X Ordinals \X Sequences \X Sources \X Nat :
                b[4] + Size(b[2], b[5]) <= MaxSequence}
Slots == Attempts \X Kinds \X Sequences     \* unique (attempt, sequence) per table
Counters == Attempts \X Kinds

\* The rows of a batch, its unique key, and its counter.
SlotsOf(b) == {<<b[1], b[2], s>> : s \in b[4]..(b[4] + Size(b[2], b[5]) - 1)}
KeyOf(b) == <<b[1], b[2], b[5] = "system", b[6]>>
CounterOf(b) == <<b[1], b[2]>>

ASSUME TelemetryAssumption ==
    /\ Kinds \subseteq {"log", "metric"} /\ Kinds # {}
    /\ MaxAttempts \in Nat \ {0} /\ MaxEvents \in Nat /\ MaxDelayed \in Nat
    /\ MaxSequence \in Nat /\ \A x \in Sources : Entries(x) \in Nat \ {0}
    /\ MaxUpsets \in Nat /\ MaxRecords \in Nat
    /\ FailureModes \subseteq {"before", "after"}
    /\ None \notin Nat /\ None \notin Batches

VARIABLES
    \* the Manager
    phase,        \* of the attempt and its lease
    cancelling,   \* attempts whose job has cancel_requested_at set
    watermark,    \* telemetry_log_count and telemetry_metric_count
    stored,       \* log and metric rows: the ordinal in each slot
    ingested,     \* the IngestBatch rows: key and fingerprint of a batch
    barred,       \* why every batch is refused: "revoked" Worker, "damaged" config
    epoch,        \* job.current_epoch, 0 for NULL
    \* the Worker
    session,      \* the attempt whose telemetry session is open, or 0
    next,         \* _next_log_sequence, _next_metric_sequence
    events,       \* how many events the session was given
    snapshots,    \* _system_snapshot_ordinal of each attempt's session
    pendingEpoch, \* _pending_epoch, 0 for None
    sealed,       \* _terminal_watermarks
    recorded,     \* records ever published in the spool (history)
    pending,
    dead,         \* the dead letters, each with the answer that made it one
    cursor,       \* records the running flush has still to send
    wire,         \* a record that the Manager has answered, with the answer
    delayed,      \* requests the Worker gave up on that are still on their way
    upsets
managerVars == <<phase, cancelling, watermark, stored, ingested, epoch, barred>>
sessionVars == <<session, next, events, snapshots, pendingEpoch, sealed>>
spoolVars == <<recorded, pending, dead>>
flushVars == <<cursor, wire, delayed>>
vars == <<managerVars, sessionVars, spoolVars, flushVars, upsets>>

Init ==
    /\ phase = [a \in Attempts |-> "none"]
    /\ cancelling = {}
    /\ watermark = [c \in Counters |-> None]
    /\ stored = [p \in Slots |-> None]
    /\ ingested = {}
    /\ epoch = 0
    /\ barred = {}
    /\ session = 0
    /\ next = [c \in Counters |-> 0]
    /\ events = [c \in Counters |-> 0]
    /\ snapshots = [a \in Attempts |-> 0]
    /\ pendingEpoch = 0
    /\ sealed = [c \in Counters |-> None]
    /\ recorded = {} /\ pending = {} /\ dead = {}
    /\ cursor = {} /\ wire = None /\ delayed = {} /\ upsets = 0

-----------------------------------------------------------------------------
(* The attempt as the ledger moves it.                                     *)

\* A claim: the attempt becomes the current one, job.current_epoch is reset,
\* and the agent opens a session.  A cancelled job is not run again.
Start(a) ==
    /\ phase[a] = "none"
    /\ session = 0 /\ barred = {}
    /\ \A i \in 1..(a - 1) : phase[i] \in {"reported", "lost"} /\ i \notin cancelling
    /\ phase' = [phase EXCEPT ![a] = "active"]
    /\ epoch' = 0
    /\ session' = a
    /\ pendingEpoch' = 0
    /\ UNCHANGED <<cancelling, watermark, stored, ingested, barred, next, events, snapshots,
                   sealed, spoolVars, flushVars, upsets>>

Cancel(a) ==
    /\ phase[a] \in {"active", "expired"}
    /\ a \notin cancelling
    /\ cancelling' = cancelling \cup {a}
    /\ UNCHANGED <<phase, watermark, stored, ingested, epoch, barred, sessionVars, spoolVars,
                   flushVars, upsets>>

Expire(a) ==
    /\ phase[a] = "active"
    /\ phase' = [phase EXCEPT ![a] = "expired"]
    /\ UNCHANGED <<cancelling, watermark, stored, ingested, epoch, barred, sessionVars, spoolVars,
                   flushVars, upsets>>

\* recover_expired_leases closes the attempt without watermarks.
Recover(a) ==
    /\ phase[a] = "expired"
    /\ phase' = [phase EXCEPT ![a] = "lost"]
    /\ UNCHANGED <<cancelling, watermark, stored, ingested, epoch, barred, sessionVars, spoolVars,
                   flushVars, upsets>>

Upset == upsets < MaxUpsets /\ upsets' = upsets + 1

\* revoke_worker_token: the Worker is not active any more, and an attempt it runs is
\* cancelled without watermarks.
Revoke ==
    /\ "revoked" \notin barred
    /\ barred' = barred \cup {"revoked"}
    /\ Upset
    /\ LET held == {a \in Attempts : phase[a] \in {"active", "expired"}}
       IN /\ phase' = [a \in Attempts |-> IF a \in held THEN "lost" ELSE phase[a]]
          /\ cancelling' = cancelling \cup held
    /\ UNCHANGED <<watermark, stored, ingested, epoch, sessionVars, spoolVars, flushVars>>

\* re_enroll_worker: the same Worker is active again.
ReEnroll ==
    /\ "revoked" \in barred
    /\ barred' = barred \ {"revoked"}
    /\ UNCHANGED <<phase, cancelling, watermark, stored, ingested, epoch, sessionVars, spoolVars,
                   flushVars, upsets>>

\* The job's configuration no longer passes validated_job_config.
DamageConfig ==
    /\ "damaged" \notin barred /\ \E a \in Attempts : phase[a] # "none"
    /\ barred' = barred \cup {"damaged"}
    /\ Upset
    /\ UNCHANGED <<phase, cancelling, watermark, stored, ingested, epoch, sessionVars, spoolVars,
                   flushVars>>

-----------------------------------------------------------------------------
(* The Worker: durable records with attempt-wide sequence numbers.         *)

IsSealed(a) == \A k \in Kinds : sealed[<<a, k>>] # None

\* One event of a session, as a batch of its kind.  The key of a training event is used
\* up first; a snapshot has the number of the snapshots that were written before it.
\* _enqueue then publishes the record with os.replace, unless one with this key is
\* pending, and only when it returns are the counters advanced: it may fail before
\* publishing (spool full, disk error) or after it (the directory cannot be synced).
Produce(k, source) ==
    LET c == <<session, k>>
        n == events[c] + 1
        b == <<session, k, n, next[c], source, IF source = "system" THEN snapshots[session] ELSE n>>
    IN  /\ events[c] < MaxEvents /\ source \in Offered(session, n)
        /\ next[c] + Size(k, source) <= MaxSequence /\ Cardinality(recorded) < MaxRecords
        /\ k = "log" => source = "event"
        /\ \A d \in pending : KeyOf(d) # KeyOf(b)
        /\ events' = [events EXCEPT ![c] = @ + 1]
        /\ \/ /\ recorded' = recorded \cup {b}
              /\ pending' = pending \cup {b}
              /\ next' = [next EXCEPT ![c] = @ + Size(k, source)]
              /\ snapshots' = IF source = "system" THEN [snapshots EXCEPT ![session] = @ + 1] ELSE snapshots
              /\ pendingEpoch' = IF k = "metric" /\ source = "event" THEN n ELSE pendingEpoch
              /\ IF source = "bad" THEN Upset ELSE UNCHANGED upsets
           \/ /\ "after" \in FailureModes /\ Upset
              /\ recorded' = recorded \cup {b}
              /\ pending' = pending \cup {b}
              /\ UNCHANGED <<next, snapshots, pendingEpoch>>
           \/ /\ "before" \in FailureModes /\ Upset
              /\ UNCHANGED <<recorded, pending, next, snapshots, pendingEpoch>>
        /\ UNCHANGED <<managerVars, session, sealed, dead, flushVars>>

\* (mutant) a producer that raced behind the seal is not turned away
RecordBehindSeal(k, source) == session # 0 /\ Produce(k, source)

\* record_training_event, record_stage_completed and record_system_snapshot,
\* one kind at a time; nothing is recorded after the terminal watermarks.
Record(k, source) == session # 0 /\ ~IsSealed(session) /\ Produce(k, source)

\* watermarks: the counts are taken under the lock that every producer holds.
Seal ==
    /\ session # 0 /\ ~IsSealed(session)
    /\ sealed' = [c \in Counters |-> IF c[1] = session THEN next[c] ELSE sealed[c]]
    /\ UNCHANGED <<managerVars, session, next, events, snapshots, pendingEpoch, spoolVars, flushVars,
                   upsets>>

\* (mutant) the counts are taken as they come
CountsUnchecked(a) == TRUE

\* _validate_terminal_telemetry_watermarks: the counts of the report have to
\* cover every sequence that was ingested.
CountsCover(a) ==
    \A p \in Slots : p[1] = a /\ stored[p] # None => p[3] < sealed[<<a, p[2]>>]

\* The counts that _update_status attaches and update_job_status keeps.
ReportedCount(c) == sealed[c]

\* _update_status with a terminal status, accepted by update_job_status.
ReportTerminal ==
    /\ session # 0 /\ IsSealed(session)
    /\ phase[session] = "active" /\ barred = {}
    /\ CountsCover(session)
    /\ phase' = [phase EXCEPT ![session] = "reported"]
    /\ watermark' = [c \in Counters |->
                        IF c[1] = session THEN ReportedCount(c) ELSE watermark[c]]
    /\ session' = 0
    /\ UNCHANGED <<cancelling, stored, ingested, epoch, barred, next, events, snapshots, pendingEpoch,
                   sealed, spoolVars, flushVars, upsets>>

\* _best_effort_terminal_status: the report is refused or the Manager cannot be
\* reached; the session is closed all the same.
ReportFailed ==
    /\ session # 0 /\ IsSealed(session)
    /\ session' = 0
    /\ UNCHANGED <<managerVars, next, events, snapshots, pendingEpoch, sealed, spoolVars, flushVars,
                   upsets>>

\* The epoch that a delivery pass projects with a TRAINING status; the Manager
\* refuses it under a requested cancellation and when it would move backwards.
\* (Here it may follow any pass; in the code one that left nothing behind.)
ReportEpoch ==
    /\ session # 0 /\ ~IsSealed(session)
    /\ cursor = {} /\ wire = None
    /\ phase[session] = "active" /\ barred = {}
    /\ session \notin cancelling
    /\ pendingEpoch > epoch
    /\ epoch' = pendingEpoch
    /\ UNCHANGED <<phase, cancelling, watermark, stored, ingested, barred, sessionVars, spoolVars,
                   flushVars, upsets>>

\* The process dies: the session and the flush are gone, the records stay on
\* the disk, and a request that is on its way stays on its way.
Crash ==
    /\ session # 0 \/ cursor # {} \/ wire # None
    /\ session' = 0
    /\ cursor' = {} /\ wire' = None
    /\ UNCHANGED <<managerVars, next, events, snapshots, pendingEpoch, sealed, spoolVars, delayed,
                   upsets>>

-----------------------------------------------------------------------------
(* The Manager's answer to a batch.                                        *)

\* (mutant) late batches are not held against the watermark
AdmittedWithoutWatermark(b) == phase[b[1]] \in {"active", "reported"}

\* _lock_telemetry_claim: under an active lease anything, after the terminal
\* report only what the watermark covers, otherwise a conflict.
Admitted(b) ==
    \/ phase[b[1]] = "active"
    \/ phase[b[1]] = "reported" /\ \A p \in SlotsOf(b) : p[3] < watermark[CounterOf(b)]

\* ingest_logs and ingest_metrics: the Worker and the configuration, the claim, a replay
\* by key and fingerprint, the values of the metrics, a sequence of another event in any
\* of the rows, then the write fence of an active claim
\* (_acquire_active_telemetry_write_fence).
Answer(b) ==
    IF barred # {} THEN "barred"
    ELSE IF ~Admitted(b) THEN "conflict"
    ELSE IF b \in ingested THEN "duplicate"
    ELSE IF \E c \in ingested : KeyOf(c) = KeyOf(b) THEN "conflict"
    ELSE IF b[5] = "bad" THEN "invalid"
    ELSE IF \E p \in SlotsOf(b) : stored[p] \notin {None, b[3]} THEN "conflict"
    ELSE IF phase[b[1]] = "active" /\ b[1] \in cancelling THEN "retry"
    ELSE "accepted"

\* (mutant) late metrics move the epoch of the job
ProjectedEpochLate(b) ==
    IF b[2] = "metric" /\ b[5] = "event" /\ b[3] > epoch THEN b[3] ELSE epoch

\* Only training metrics of an active claim move the epoch, and never backwards.
ProjectedEpoch(b) ==
    IF b[2] = "metric" /\ b[5] = "event" /\ phase[b[1]] = "active" /\ b[3] > epoch THEN b[3] ELSE epoch

\* The transaction of an accepted batch; the others change nothing.
Ingest(b) ==
    IF Answer(b) = "accepted"
    THEN /\ stored' = [p \in Slots |-> IF p \in SlotsOf(b) THEN b[3] ELSE stored[p]]
         /\ ingested' = ingested \cup {b}
         /\ epoch' = ProjectedEpoch(b)
    ELSE UNCHANGED <<stored, ingested, epoch>>

-----------------------------------------------------------------------------
(* Delivery.                                                               *)

\* flush lists the pending records.
StartFlush ==
    /\ cursor = {} /\ wire = None
    /\ pending # {}
    /\ cursor' = pending
    /\ UNCHANGED <<managerVars, sessionVars, spoolVars, wire, delayed, upsets>>

NextInFlush(b) == b \in cursor /\ wire = None /\ \A c \in cursor : ~Before(c, b)

\* (mutant) the record is removed before the answer is there
SendForgetting(b) ==
    /\ NextInFlush(b)
    /\ wire' = <<b, Answer(b)>>
    /\ pending' = pending \ {b}
    /\ Ingest(b)
    /\ UNCHANGED <<phase, cancelling, watermark, barred, sessionVars, recorded, dead, cursor, delayed,
                   upsets>>

\* The next record is sent and processed.
Send(b) ==
    /\ NextInFlush(b)
    /\ wire' = <<b, Answer(b)>>
    /\ Ingest(b)
    /\ UNCHANGED <<phase, cancelling, watermark, barred, sessionVars, spoolVars, cursor, delayed, upsets>>

\* The answers that are not retryable: 401 or 409, 409, and 422.
Refusals == {"barred", "conflict", "invalid"}

\* The answer arrives: a delivered record is removed, a refused one becomes a
\* dead letter, and a retryable answer (503) ends the flush.
Receive ==
    /\ wire # None
    /\ LET b == wire[1] IN
        \/ /\ wire[2] \in {"accepted", "duplicate"}
           /\ pending' = pending \ {b} /\ cursor' = cursor \ {b}
           /\ UNCHANGED dead
        \/ /\ wire[2] \in Refusals
           /\ pending' = pending \ {b} /\ cursor' = cursor \ {b}
           /\ dead' = dead \cup {wire}
        \/ /\ wire[2] = "retry"
           /\ cursor' = {}
           /\ UNCHANGED <<pending, dead>>
    /\ wire' = None
    /\ UNCHANGED <<managerVars, sessionVars, recorded, delayed, upsets>>

\* The Manager cannot be reached, or its answer is lost: the flush ends.
Lose ==
    /\ cursor # {}
    /\ cursor' = {} /\ wire' = None
    /\ UNCHANGED <<managerVars, sessionVars, spoolVars, delayed, upsets>>

\* The Worker times out while the request is still on its way ...
TimeOut(b) ==
    /\ NextInFlush(b)
    /\ b \notin delayed /\ Cardinality(delayed) < MaxDelayed /\ Upset
    /\ cursor' = {} /\ delayed' = delayed \cup {b}
    /\ UNCHANGED <<managerVars, sessionVars, spoolVars, wire>>

\* ... and the Manager processes it later; nobody waits for the answer.
Arrive(b) ==
    /\ b \in delayed
    /\ delayed' = delayed \ {b}
    /\ Ingest(b)
    /\ UNCHANGED <<phase, cancelling, watermark, barred, sessionVars, spoolVars, cursor, wire, upsets>>

-----------------------------------------------------------------------------
Next ==
    \/ \E a \in Attempts : Start(a) \/ Cancel(a) \/ Expire(a) \/ Recover(a)
    \/ Revoke \/ ReEnroll \/ DamageConfig
    \/ \E k \in Kinds, x \in Sources : Record(k, x)
    \/ Seal \/ ReportTerminal \/ ReportFailed \/ ReportEpoch \/ Crash
    \/ StartFlush \/ Receive \/ Lose
    \/ \E b \in cursor : Send(b) \/ TimeOut(b)
    \/ \E b \in delayed : Arrive(b)

Spec == Init /\ [][Next]_vars

\* Heartbeats and delivery loops flush again and again, not every request or answer is
\* lost; a lease without a session is not renewed and its attempt is recovered;
\* an agent that is asked to stop seals and reports.
Fairness ==
    /\ WF_vars(StartFlush)
    /\ SF_vars(\E b \in cursor : Send(b))
    /\ SF_vars(Receive)
    /\ WF_vars(\/ \E a \in Attempts : (session # a /\ Expire(a)) \/ Recover(a) \/ (a \in cancelling /\ Seal)
               \/ ReportTerminal \/ ReportFailed)

FairSpec == Spec /\ Fairness

-----------------------------------------------------------------------------
(* Properties.                                                             *)

Answers == {"accepted", "duplicate", "retry"} \cup Refusals

TypeOK ==
    /\ phase \in [Attempts -> {"none", "active", "expired", "reported", "lost"}]
    /\ cancelling \subseteq Attempts
    /\ watermark \in [Counters -> Sequences \cup {None}]
    /\ stored \in [Slots -> Ordinals \cup {None}]
    /\ ingested \subseteq Batches
    /\ epoch \in 0..MaxEvents
    /\ barred \subseteq {"revoked", "damaged"}
    /\ session \in 0..MaxAttempts
    /\ next \in [Counters -> Sequences]
    /\ events \in [Counters -> 0..MaxEvents]
    /\ snapshots \in [Attempts -> Nat]
    /\ pendingEpoch \in 0..MaxEvents
    /\ sealed \in [Counters -> Sequences \cup {None}]
    /\ recorded \subseteq Batches /\ pending \subseteq Batches /\ dead \subseteq Batches \X Refusals
    /\ cursor \subseteq Batches /\ delayed \subseteq Batches
    /\ wire \in (Batches \X Answers) \cup {None}
    /\ upsets \in Nat

\* The counts of a terminal report are final: nothing at or beyond them is ever
\* stored for the attempt, neither before the report nor by a late batch.
WatermarkCoversStored ==
    \A p \in Slots :
        /\ stored[p] # None
        /\ watermark[<<p[1], p[2]>>] # None
        => p[3] < watermark[<<p[1], p[2]>>]

\* The spool "refuses to discard log or metric data": a record that was published
\* is still pending, kept as a dead letter, or stored by the Manager, whatever
\* answers are lost and whenever the process dies.
NothingLost ==
    \A b \in recorded : \/ b \in pending \/ \E d \in dead : d[1] = b
                        \/ \A p \in SlotsOf(b) : stored[p] = b[3]

\* The epoch shown for a job comes from its current attempt: late metrics of an
\* earlier attempt do not move it.
EpochIsCurrent ==
    \A a \in Attempts :
        phase[a] # "none" /\ (\A i \in (a + 1)..MaxAttempts : phase[i] = "none")
            => \A k \in Kinds \ {"log"} : epoch <= events[<<a, k>>]

\* The watermarks "atomically snapshot durable attempt counts": no record of a sealed
\* session starts beyond its counts, and one that starts right at them is one whose write
\* failed after it was published (its sequences are not counted and are given again).
SealCoversSpool ==
    \A b \in recorded : IsSealed(b[1]) => b[4] <= sealed[CounterOf(b)]

\* A row that was stored never changes: neither a replay nor a reused sequence
\* number overwrites it.
StoredImmutable ==
    [][\A p \in Slots : stored[p] # None => stored'[p] = stored[p]]_vars

\* The rows or the key of a batch were given to another event too: it, or the other one,
\* failed to be written after it was published.
GivenTwice(b) ==
    \E c \in recorded \ {b} : SlotsOf(b) \cap SlotsOf(c) # {} \/ KeyOf(b) = KeyOf(c)

\* Why a batch of a reported attempt may be missing: it was refused while the Worker was
\* revoked or the configuration damaged, for a metric the job does not allow, or because
\* another event has its rows or its key.
Excused(d) == d[2] \in {"barred", "invalid"} \/ GivenTwice(d[1])

\* "The terminal counts remain authoritative": once a terminal report was accepted, every
\* sequence below its counts is stored in the end, through lost answers, restarts, later
\* attempts and the records they leave in front of the queue - or it lies in a dead
\* letter that is excused.  A batch is refused as a whole, so one row it shares with
\* another event takes the others with it.
ReportedIsComplete ==
    \A a \in Attempts :
        phase[a] = "reported" ~>
            \A k \in Kinds, s \in Sequences :
                watermark[<<a, k>>] # None /\ s < watermark[<<a, k>>] =>
                    \/ stored[<<a, k, s>>] # None
                    \/ \E d \in dead : Excused(d) /\ <<a, k, s>> \in SlotsOf(d[1])
=============================================================================
