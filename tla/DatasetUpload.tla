----------------------------- MODULE DatasetUpload -----------------------------
(***************************************************************************)
(* One dataset: the upload sessions of routers/datasets.py, which are the  *)
(* generations of one idempotency key, the staging and canonical objects   *)
(* of each generation, the deletion of the dataset, and the staging        *)
(* cleanup of services/maintenance.py.                                     *)
(*                                                                         *)
(* A generation is written (through the API or by a presigned PUT),        *)
(* finalized (verified, prepared, published key by key, committed) and     *)
(* ends; the next generation starts when the latest one has expired.  A    *)
(* request owns a row by a token and a heartbeat; no transaction spans two *)
(* steps of a request.  Clocks advance at any moment.                      *)
(***************************************************************************)
EXTENDS Naturals

CONSTANTS
    None,
    Procs,       \* requests and cleanup passes that run at the same time
    Backends,    \* a subset of {"local", "s3"}
    MaxGen,      \* bound on generations
    NKeys,       \* canonical objects of a generation (4 in the code)
    Sources,     \* what the user may upload
    Outcome(_),  \* what the preparation makes of it
    MaxFaults    \* bound on crashes, lost heartbeats and failed calls

Gens == 1..MaxGen
Keys == 1..NKeys
Outcomes == {"ready", "decoder_pending", "unusable"}

ASSUME DatasetAssumption ==
    /\ MaxGen \in Nat /\ NKeys \in Nat /\ MaxFaults \in Nat
    /\ Backends \subseteq {"local", "s3"}
    /\ None \notin Procs
    /\ \A s \in Sources : Outcome(s) \in Outcomes

VARIABLES
    dataset,   \* Dataset: status, is_usable and the generation its URIs name
    up,        \* DatasetUploadSession, by generation
    staging, canon, \* the object store: staging bytes and published keys
    pc, ses, pub,   \* requests: label, generation, published_keys
    referenced, \* an experiment uses the dataset
    source, backend, faults

rows == <<dataset, up>>
objects == <<staging, canon>>
procs == <<pc, ses, pub>>
setting == <<source, backend>>
vars == <<rows, objects, procs, referenced, setting, faults>>

Statuses == {"none", "pending", "finalizing", "completed", "failed", "expired", "gone"}
Ended == {"failed", "expired"}

\* "wait": the cleanup grace is not over; "due"; "first": cleanup_first_deleted_at is
\* set; "confirm": and the confirmation grace is over; "done": cleanup_completed_at.
Phases == {"wait", "due", "first", "confirm", "done"}

WriterLabels == {"write", "wrote", "unwrite"}
FinalizerLabels == {"verify", "prepare", "publish", "undo", "settle", "settleFailed",
                    "commit", "resolve", "unstage", "lost"}
Labels == {"idle", "clean", "deleteObjects", "deleteRow"} \cup WriterLabels \cup FinalizerLabels

NoRow == [st |-> "none", past |-> FALSE, stale |-> FALSE, wtok |-> None, ftok |-> None,
          claim |-> None, clean |-> "wait"]
NewRow == [NoRow EXCEPT !.st = "pending"]

Init ==
    /\ dataset = [st |-> "absent", usable |-> FALSE, gen |-> 0]
    /\ up = [g \in Gens |-> NoRow]
    /\ staging = [g \in Gens |-> "none"]
    /\ canon = [g \in Gens |-> {}]
    /\ pc = [p \in Procs |-> "idle"]
    /\ ses = [p \in Procs |-> None]
    /\ pub = [p \in Procs |-> {}]
    /\ referenced = FALSE
    /\ source \in Sources /\ backend \in Backends
    /\ faults = 0

Rows == [st : Statuses, past : BOOLEAN, stale : BOOLEAN, wtok : Procs \cup {None},
         ftok : Procs \cup {None}, claim : Procs \cup {None}, clean : Phases]

DatasetStatuses == {"absent", "legacy_imported", "upload_pending", "processing", "failed",
                    "ready", "decoder_pending", "deleting", "delete_failed", "deleted"}

TypeOK ==
    /\ dataset \in [st : DatasetStatuses, usable : BOOLEAN, gen : Gens \cup {0}]
    /\ up \in [Gens -> Rows]
    /\ staging \in [Gens -> {"none", "good", "bad"}]
    /\ canon \in [Gens -> SUBSET Keys]
    /\ pc \in [Procs -> Labels]
    /\ ses \in [Procs -> Gens \cup {0, None}]
    /\ pub \in [Procs -> SUBSET Keys]
    /\ referenced \in BOOLEAN
    /\ source \in Sources /\ backend \in Backends /\ faults \in 0..MaxFaults
-----------------------------------------------------------------------------
(* Steps of a request *)

Goto(p, g, label) ==
    /\ pc' = [pc EXCEPT ![p] = label]
    /\ ses' = [ses EXCEPT ![p] = IF label = "idle" THEN None ELSE g]
    /\ pub' = IF label = "idle" THEN [pub EXCEPT ![p] = {}] ELSE pub

Stop(p) == Goto(p, None, "idle")

Fault == faults < MaxFaults /\ faults' = faults + 1

Exists(g) == up[g].st \notin {"none", "gone"}
Latest(g) == Exists(g) /\ (g = MaxGen \/ up[g + 1].st = "none")

\* What ends a generation takes its tokens; the dataset waits for another upload.
\* (The deadline of an ended session is not looked at again.)
Without(g, st) ==
    [up EXCEPT ![g] = [st |-> st, past |-> up[g].past /\ st = "pending", stale |-> FALSE,
                       wtok |-> None, ftok |-> None, claim |-> up[g].claim, clean |-> up[g].clean]]
End(g) == Without(g, "expired")
Reopened == [dataset EXCEPT !.st = "upload_pending"]
-----------------------------------------------------------------------------
(* Sessions: initialize_dataset_upload and the first part of every request *)

LegacyImport ==
    /\ dataset.st = "absent"
    /\ \E u \in BOOLEAN : dataset' = [dataset EXCEPT !.st = "legacy_imported", !.usable = u]
    /\ UNCHANGED <<up, objects, procs, referenced, setting, faults>>

\* The first session of the key creates the dataset; a later one is the generation
\* after an expired one.  The dataset's status is not looked at.
InitUpload(g) ==
    /\ up[g].st = "none"
    /\ IF g = 1 THEN dataset.st = "absent" ELSE Latest(g - 1) /\ up[g - 1].st = "expired"
    /\ up' = [up EXCEPT ![g] = NewRow]
    /\ dataset' = IF g = 1 THEN [dataset EXCEPT !.st = "upload_pending"] ELSE dataset
    /\ UNCHANGED <<objects, procs, referenced, setting, faults>>

\* An init or finalize request meets a finalization without a heartbeat.
RecoverStaleFinalizing(g) ==
    /\ up[g].st = "finalizing" /\ up[g].stale
    /\ up' = End(g)
    /\ dataset' = Reopened
    /\ UNCHANGED <<objects, procs, referenced, setting, faults>>

\* Any request meets a session whose deadline has passed, a writer's or not.
ExpireUpload(g) ==
    /\ up[g].st = "pending" /\ up[g].past
    /\ up' = End(g)
    /\ dataset' = Reopened
    /\ UNCHANGED <<objects, procs, referenced, setting, faults>>

\* A PUT or finalize request meets a writer without a heartbeat.
FenceStaleWriter(g) ==
    /\ up[g].st = "pending" /\ ~up[g].past /\ up[g].wtok # None /\ up[g].stale
    /\ up' = End(g)
    /\ dataset' = Reopened
    /\ UNCHANGED <<objects, procs, referenced, setting, faults>>
-----------------------------------------------------------------------------
(* Bytes: local_dataset_upload, or a presigned PUT *)

ClaimWrite(p, g) ==
    /\ pc[p] = "idle" /\ backend = "local"
    /\ up[g].st = "pending" /\ ~up[g].past /\ up[g].wtok = None
    /\ up' = [up EXCEPT ![g].wtok = p, ![g].stale = FALSE]
    /\ Goto(p, g, "write")
    /\ UNCHANGED <<dataset, objects, referenced, setting, faults>>

OwnsWrite(p) == up[ses[p]].st = "pending" /\ up[ses[p]].wtok = p

\* The stream ends in a rename that does not look at the row ...
Write(p) ==
    /\ pc[p] = "write"
    /\ \E c \in {"good", "bad"} : staging' = [staging EXCEPT ![ses[p]] = c]
    /\ Goto(p, ses[p], "wrote")
    /\ UNCHANGED <<rows, canon, referenced, setting, faults>>

\* ... or fails.
WriteFails(p) ==
    /\ pc[p] = "write" /\ Fault
    /\ Goto(p, ses[p], "unwrite")
    /\ UNCHANGED <<rows, objects, referenced, setting>>

\* The last heartbeat and the check under lock; the row is free for another writer.
Wrote(p) ==
    /\ pc[p] = "wrote"
    /\ IF OwnsWrite(p) /\ ~up[ses[p]].past
       THEN up' = [up EXCEPT ![ses[p]].wtok = None, ![ses[p]].stale = FALSE] /\ Stop(p)
       ELSE Goto(p, ses[p], "unwrite") /\ UNCHANGED up
    /\ UNCHANGED <<dataset, objects, referenced, setting, faults>>

\* _expire_upload_write_claim, when the deadline meets a write.
WriteTimesOut(p) ==
    /\ pc[p] \in {"write", "wrote"} /\ up[ses[p]].past
    /\ IF OwnsWrite(p) THEN up' = End(ses[p]) /\ dataset' = Reopened ELSE UNCHANGED rows
    /\ Goto(p, ses[p], "unwrite")
    /\ UNCHANGED <<objects, referenced, setting, faults>>

\* A write that did not count takes its object away and lets go of the row.
Unwrite(p) ==
    /\ pc[p] = "unwrite"
    /\ \/ staging' = [staging EXCEPT ![ses[p]] = "none"] /\ UNCHANGED faults
       \/ Fault /\ UNCHANGED staging
    /\ up' = IF OwnsWrite(p) THEN [up EXCEPT ![ses[p]].wtok = None, ![ses[p]].stale = FALSE] ELSE up
    /\ Stop(p)
    /\ UNCHANGED <<dataset, canon, referenced, setting>>

\* A presigned PUT with If-None-Match: * needs no row.  It may end after the URL
\* expired, but before the confirmation grace is over.
S3Put(g) ==
    /\ backend = "s3" /\ Exists(g) /\ up[g].clean \notin {"confirm", "done"} /\ staging[g] = "none"
    /\ \E c \in {"good", "bad"} : staging' = [staging EXCEPT ![g] = c]
    /\ UNCHANGED <<rows, canon, procs, referenced, setting, faults>>
-----------------------------------------------------------------------------
(* finalize_dataset_upload *)

ClaimFinalization(p, g) ==
    /\ pc[p] = "idle"
    /\ up[g].st = "pending" /\ ~up[g].past /\ up[g].wtok = None
    /\ up' = [up EXCEPT ![g].st = "finalizing", ![g].ftok = p, ![g].stale = FALSE]
    /\ dataset' = [dataset EXCEPT !.st = "processing"]
    /\ Goto(p, g, "verify")
    /\ UNCHANGED <<objects, referenced, setting, faults>>

Owns(p) == up[ses[p]].st = "finalizing" /\ up[ses[p]].ftok = p

\* _set_upload_failure: only the owner changes the rows.
SetUploadFailure(p, retryable) ==
    LET g == ses[p] IN
    IF Owns(p)
    THEN /\ up' = Without(g, IF retryable THEN "pending" ELSE "failed")
         /\ dataset' = [dataset EXCEPT !.st = IF retryable THEN "upload_pending" ELSE "failed"]
    ELSE UNCHANGED rows

\* A final failure of the owner deletes the staging object under the row lock.
FailForGood(p) ==
    /\ SetUploadFailure(p, FALSE)
    /\ \/ /\ staging' = IF Owns(p) THEN [staging EXCEPT ![ses[p]] = "none"] ELSE staging
          /\ UNCHANGED faults
       \/ Owns(p) /\ Fault /\ UNCHANGED staging
    /\ Stop(p)
    /\ UNCHANGED canon

TryAgain(p) == SetUploadFailure(p, TRUE) /\ Stop(p) /\ UNCHANGED objects

\* Reads the staging object and compares it with the declaration.
Verify(p) ==
    /\ pc[p] = "verify"
    /\ \/ staging[ses[p]] = "none" /\ TryAgain(p) /\ UNCHANGED faults
       \/ Fault /\ TryAgain(p)
       \/ staging[ses[p]] = "bad" /\ FailForGood(p)
       \/ /\ staging[ses[p]] = "good"
          /\ Goto(p, ses[p], "prepare")
          /\ UNCHANGED <<rows, objects, faults>>
    /\ UNCHANGED <<referenced, setting>>

\* prepare_dataset_snapshot works on private files.
Prepare(p) ==
    /\ pc[p] = "prepare"
    /\ \/ Fault /\ TryAgain(p)
       \/ Outcome(source) = "unusable" /\ FailForGood(p)
       \/ /\ Outcome(source) # "unusable"
          /\ Goto(p, ses[p], "publish")
          /\ UNCHANGED <<rows, objects, faults>>
    /\ UNCHANGED <<referenced, setting>>

NextKey(p) == CHOOSE k \in Keys \ pub[p] : \A l \in Keys \ pub[p] : k <= l

\* store_verified_file never replaces an object and does not look at the row; the key
\* is noted in published_keys when the call returns.
Publish(p) ==
    LET g == ses[p] IN
    /\ pc[p] = "publish" /\ pub[p] # Keys
    /\ \/ /\ NextKey(p) \notin canon[g]
          /\ canon' = [canon EXCEPT ![g] = @ \cup {NextKey(p)}]
          /\ pub' = [pub EXCEPT ![p] = @ \cup {NextKey(p)}]
          /\ UNCHANGED <<pc, ses, faults>>
       \/ /\ NextKey(p) \in canon[g]
          /\ Goto(p, g, "undo")
          /\ UNCHANGED <<canon, faults>>
       \/ /\ Fault
          /\ canon' \in {canon, [canon EXCEPT ![g] = @ \cup {NextKey(p)}]}
          /\ Goto(p, g, "undo")
    /\ UNCHANGED <<rows, staging, referenced, setting>>

Published(p) ==
    /\ pc[p] = "publish" /\ pub[p] = Keys
    /\ Goto(p, ses[p], "commit")
    /\ UNCHANGED <<rows, objects, referenced, setting, faults>>

\* A heartbeat before or after an operation finds that the token is gone.
LoseLease(p) ==
    /\ pc[p] \in {"verify", "prepare", "publish"} /\ ~Owns(p)
    /\ Goto(p, ses[p], "lost")
    /\ UNCHANGED <<rows, objects, referenced, setting, faults>>

\* _cleanup_published_keys deletes what this request published: every key, or all but
\* some when a call fails.
Removed(p, g) ==
    \/ canon' = [canon EXCEPT ![g] = @ \ pub[p]] /\ UNCHANGED faults
    \/ Fault /\ \E k \in pub[p] : canon' = [canon EXCEPT ![g] = @ \ (pub[p] \ {k})]

\* A request without its token only takes back what it published.
Lost(p) ==
    /\ pc[p] = "lost"
    /\ Removed(p, ses[p])
    /\ Stop(p)
    /\ UNCHANGED <<rows, staging, referenced, setting>>

\* A failed publication takes back the published keys and then gives up the token.
Undo(p) ==
    /\ pc[p] = "undo"
    /\ Removed(p, ses[p])
    /\ Goto(p, ses[p], IF faults' = faults THEN "settle" ELSE "settleFailed")
    /\ UNCHANGED <<rows, staging, referenced, setting>>

Settle(p) ==
    /\ pc[p] \in {"settle", "settleFailed"}
    /\ SetUploadFailure(p, pc[p] = "settle")
    /\ Stop(p)
    /\ UNCHANGED <<objects, referenced, setting, faults>>

\* The snapshot of a generation becomes the dataset's.
Commit(p) ==
    /\ pc[p] = "commit"
    /\ IF Owns(p)
       THEN /\ up' = Without(ses[p], "completed")
            /\ dataset' = [st |-> Outcome(source), usable |-> Outcome(source) = "ready", gen |-> ses[p]]
            /\ \/ Goto(p, ses[p], "unstage") /\ UNCHANGED faults
               \/ Fault /\ Goto(p, ses[p], "resolve")   \* committed, and the answer is lost
       ELSE Goto(p, ses[p], "lost") /\ UNCHANGED <<rows, faults>>
    /\ UNCHANGED <<objects, referenced, setting>>

\* A cancelled request, an unexpected error, or a commit that failed.
Abort(p) ==
    /\ pc[p] \in {"verify", "prepare", "publish", "commit"} /\ Fault
    /\ Goto(p, ses[p], "resolve")
    /\ UNCHANGED <<rows, objects, referenced, setting>>

\* _recover_aborted_finalization reads the durable outcome under lock.
Resolve(p) ==
    LET g == ses[p] IN
    /\ pc[p] = "resolve"
    /\ \/ up[g].st = "completed" /\ Goto(p, g, "unstage") /\ UNCHANGED <<rows, canon, faults>>
       \/ /\ ~Exists(g) \/ (up[g].st = "finalizing" /\ ~Owns(p))
          /\ Stop(p)
          /\ UNCHANGED <<rows, canon, faults>>
       \/ /\ Exists(g) /\ up[g].st # "completed" /\ (up[g].st = "finalizing" => Owns(p))
          /\ Removed(p, g) /\ SetUploadFailure(p, faults' = faults) /\ Stop(p)
    /\ UNCHANGED <<staging, referenced, setting>>

Unstage(p) ==
    /\ pc[p] = "unstage"
    /\ \/ staging' = [staging EXCEPT ![ses[p]] = "none"] /\ UNCHANGED faults
       \/ Fault /\ UNCHANGED staging
    /\ Stop(p)
    /\ UNCHANGED <<rows, canon, referenced, setting>>
-----------------------------------------------------------------------------
(* delete_dataset, and the reference an experiment takes *)

\* (mutant) only is_usable is looked at
CreateExperimentIfUsable ==
    /\ ~referenced /\ dataset.usable
    /\ referenced' = TRUE
    /\ UNCHANGED <<rows, objects, procs, setting, faults>>

\* dataset_ready_for_training, under the dataset's row lock.
CreateExperiment ==
    /\ ~referenced /\ dataset.usable /\ dataset.st \in {"ready", "legacy_imported"}
    /\ referenced' = TRUE
    /\ UNCHANGED <<rows, objects, procs, setting, faults>>

Active(g) == up[g].wtok # None \/ up[g].st = "finalizing" \/ (up[g].st = "pending" /\ ~up[g].past)
CleanupPending(g) == up[g].st \in {"pending", "expired", "failed"} /\ up[g].clean # "done"

StartDelete(p) ==
    /\ pc[p] = "idle" /\ dataset.st \notin {"absent", "deleted"} /\ ~referenced
    /\ \A g \in Gens : ~Active(g) /\ ~CleanupPending(g)
    /\ dataset' = [dataset EXCEPT !.st = "deleting"]
    /\ \E n \in Gens \cup {0} : (\A g \in Gens : Exists(g) <=> g <= n) /\ Goto(p, n, "deleteObjects")
    /\ UNCHANGED <<up, objects, referenced, setting, faults>>

\* Deletes the objects of the generations it found, without a lock.
DeleteObjects(p) ==
    /\ pc[p] = "deleteObjects"
    /\ \/ /\ staging' = [g \in Gens |-> IF g <= ses[p] THEN "none" ELSE staging[g]]
          /\ canon' = [g \in Gens |-> IF g <= ses[p] THEN {} ELSE canon[g]]
          /\ Goto(p, ses[p], "deleteRow")
          /\ UNCHANGED <<dataset, faults>>
       \/ /\ Fault
          /\ \E h \in 1..ses[p], k \in Keys \cup {0} :
               /\ staging' = [g \in Gens |-> IF g <= ses[p] /\ <<g, 0>> # <<h, k>> THEN "none" ELSE staging[g]]
               /\ canon' = [g \in Gens |-> IF g <= ses[p] THEN IF g = h THEN canon[g] \cap {k} ELSE {} ELSE canon[g]]
          /\ dataset' = IF dataset.st = "deleted" THEN dataset ELSE [dataset EXCEPT !.st = "delete_failed"]
          /\ Stop(p)
    /\ UNCHANGED <<up, referenced, setting>>

\* The row goes, and its sessions with it; a reference taken meanwhile keeps it.
DeleteRow(p) ==
    /\ pc[p] = "deleteRow"
    /\ IF referenced \/ dataset.st = "deleted" THEN UNCHANGED rows
       ELSE /\ dataset' = [dataset EXCEPT !.st = "deleted"]
            /\ up' = [g \in Gens |-> IF Exists(g) THEN [NoRow EXCEPT !.st = "gone"] ELSE up[g]]
    /\ Stop(p)
    /\ UNCHANGED <<objects, referenced, setting, faults>>
-----------------------------------------------------------------------------
(* The staging cleanup of a maintenance run *)

Cleaning(g) == \E p \in Procs : pc[p] = "clean" /\ ses[p] = g

\* (mutant) sessions left in "pending" are not taken
ClaimCleanupOfEnded(p, g) ==
    /\ pc[p] = "idle" /\ up[g].st \in Ended /\ up[g].clean \notin {"wait", "done"}
    /\ up' = [up EXCEPT ![g].claim = p]
    /\ Goto(p, g, "clean")
    /\ UNCHANGED <<dataset, objects, referenced, setting, faults>>

\* The claim of another run is taken over when it is too old: that run has ended, or
\* it is late.
ClaimCleanup(p, g) ==
    /\ pc[p] = "idle"
    /\ up[g].st \in {"pending"} \cup Ended /\ up[g].clean \notin {"wait", "done"}
    /\ up[g].wtok = None \/ up[g].stale
    /\ IF up[g].claim \notin {None, p} /\ Cleaning(g) THEN Fault ELSE UNCHANGED faults
    /\ up' = [Without(g, IF up[g].st = "pending" THEN "expired" ELSE up[g].st) EXCEPT ![g].claim = p]
    /\ Goto(p, g, "clean")
    /\ UNCHANGED <<dataset, objects, referenced, setting>>

\* (mutant) the first delete is taken for the last one
DeleteStagingOnce(p) ==
    LET g == ses[p] IN
    /\ pc[p] = "clean" /\ up[g].claim = p /\ up[g].st \in Ended
    /\ staging' = [staging EXCEPT ![g] = "none"]
    /\ up' = [up EXCEPT ![g].clean = "done"]
    /\ Stop(p)
    /\ UNCHANGED <<dataset, canon, referenced, setting, faults>>

\* Checks the claim again under lock; the first delete only starts the confirmation.
DeleteClaimedStaging(p) ==
    LET g == ses[p] IN
    /\ pc[p] = "clean"
    /\ \/ /\ up[g].claim = p /\ up[g].st \in Ended /\ up[g].clean \in {"due", "confirm"}
          /\ \/ /\ staging' = [staging EXCEPT ![g] = "none"]
                /\ up' = [up EXCEPT ![g].clean = IF up[g].clean = "due" THEN "first" ELSE "done"]
                /\ UNCHANGED faults
             \/ Fault /\ UNCHANGED <<staging, up>>
       \/ /\ up[g].claim # p \/ up[g].st \notin Ended \/ up[g].clean \notin {"due", "confirm"}
          /\ UNCHANGED <<staging, up, faults>>
    /\ Stop(p)
    /\ UNCHANGED <<dataset, canon, referenced, setting>>
-----------------------------------------------------------------------------
(* Time and crashes *)

\* The deadline of an open session passes.
Pass(g) ==
    /\ up[g].st \in {"pending", "finalizing"} /\ ~up[g].past
    /\ up' = [up EXCEPT ![g].past = TRUE]
    /\ UNCHANGED <<dataset, objects, procs, referenced, setting, faults>>

Running(g) == \E p \in Procs : ses[p] = g /\ (up[g].wtok = p \/ up[g].ftok = p)

\* The heartbeat of a token gets too old: because its request is gone, or as a fault.
Stale(g) ==
    /\ (up[g].wtok # None \/ up[g].ftok # None) /\ ~up[g].stale
    /\ IF Running(g) THEN Fault ELSE UNCHANGED faults
    /\ up' = [up EXCEPT ![g].stale = TRUE]
    /\ UNCHANGED <<dataset, objects, procs, referenced, setting>>

\* _touch_upload_write and _touch_finalization, by the owner of the token.
Heartbeat(p) ==
    /\ \/ pc[p] \in {"write", "wrote"} /\ OwnsWrite(p) /\ ~up[ses[p]].past
       \/ pc[p] \in {"verify", "prepare", "publish"} /\ Owns(p)
    /\ up[ses[p]].stale
    /\ up' = [up EXCEPT ![ses[p]].stale = FALSE]
    /\ UNCHANGED <<dataset, objects, procs, referenced, setting, faults>>

Writing(g) == \E p \in Procs : ses[p] = g /\ pc[p] \in WriterLabels

\* The cleanup grace, and the confirmation grace, at whose end no write is under way.
Grace(g) ==
    /\ \/ /\ up[g].clean = "wait" /\ (up[g].st \in Ended \/ (up[g].st = "pending" /\ up[g].past))
          /\ up' = [up EXCEPT ![g].clean = "due"]
       \/ /\ up[g].clean = "first" /\ ~Writing(g)
          /\ up' = [up EXCEPT ![g].clean = "confirm"]
    /\ UNCHANGED <<dataset, objects, procs, referenced, setting, faults>>

\* The process that serves the request ends, or the client of a PUT goes away.
Crash(p) ==
    /\ pc[p] # "idle" /\ Fault
    /\ Stop(p)
    /\ UNCHANGED <<rows, objects, referenced, setting>>
-----------------------------------------------------------------------------
RequestStep(p) ==
    \/ Write(p) \/ WriteFails(p) \/ Wrote(p) \/ WriteTimesOut(p) \/ Unwrite(p)
    \/ Verify(p) \/ Prepare(p) \/ Publish(p) \/ Published(p) \/ LoseLease(p)
    \/ Lost(p) \/ Undo(p) \/ Settle(p) \/ Commit(p) \/ Resolve(p) \/ Unstage(p)
    \/ DeleteObjects(p) \/ DeleteRow(p) \/ DeleteClaimedStaging(p)

Recover(g) == RecoverStaleFinalizing(g) \/ ExpireUpload(g) \/ FenceStaleWriter(g)

Next ==
    \/ LegacyImport \/ CreateExperiment
    \/ \E g \in Gens : InitUpload(g) \/ Recover(g) \/ S3Put(g) \/ Pass(g) \/ Stale(g) \/ Grace(g)
    \/ \E p \in Procs : RequestStep(p) \/ Heartbeat(p) \/ Abort(p) \/ StartDelete(p) \/ Crash(p)
    \/ \E p \in Procs, g \in Gens : ClaimWrite(p, g) \/ ClaimFinalization(p, g) \/ ClaimCleanup(p, g)

Spec == Init /\ [][Next]_vars

\* The server runs the requests it has begun, and time passes.  Nothing is assumed of
\* users, who begin requests, or of administrators, who begin maintenance runs.
Tick(g) == Pass(g) \/ Grace(g) \/ (Stale(g) /\ faults' = faults)

Fairness ==
    /\ \A p \in Procs : WF_vars(RequestStep(p))
    /\ WF_vars(\E g \in Gens : Tick(g))

FairSpec == Spec /\ Fairness
-----------------------------------------------------------------------------
(* Properties *)

\* A dataset that is offered as finalized has every object its URIs name, and the
\* generation they belong to is completed: no late, cancelled or failed finalization,
\* no cleanup and no deletion takes one of them away while the dataset is offered.
SnapshotAvailable ==
    dataset.st \in {"ready", "decoder_pending"} =>
        dataset.gen \in Gens /\ up[dataset.gen].st = "completed" /\ canon[dataset.gen] = Keys

\* An experiment keeps its dataset, with every object and without a file that waits
\* for a decoder, whatever deletion was under way when it was created.
ExperimentHasData ==
    referenced =>
        /\ dataset.usable /\ dataset.st # "deleted"
        /\ dataset.gen # 0 => canon[dataset.gen] = Keys /\ Outcome(source) = "ready"

\* No dataset that is offered or used is without its objects.
DataAvailable == SnapshotAvailable /\ ExperimentHasData

\* Once the cleanup of a session is recorded as complete, its staging object is gone
\* and does not come back through a late writer.
CleanedStaysGone == \A g \in Gens : up[g].clean = "done" => staging[g] = "none"

Settled(g) == up[g].st \in {"completed", "gone"} \/ up[g].clean = "done"

\* An init or finalize request of its user would end the session (_recover_stale_finalizing).
AwaitsUser(g) == ENABLED RecoverStaleFinalizing(g)

\* A maintenance run would take the session (_claim_candidate).
AwaitsMaintenance(g) == \E p \in Procs : ENABLED ClaimCleanup(p, g)

\* Every session is completed, or its staging object is removed for good, or the
\* dataset is deleted; or from some time on it waits for a request of its user or for a
\* maintenance run, which can move it at once.  No session blocks the deletion of its
\* dataset in a state that neither of them gets it out of.
SessionsSettle ==
    \A g \in Gens : Exists(g) ~> (Settled(g) \/ [](AwaitsUser(g) \/ AwaitsMaintenance(g)))

=============================================================================
