------------------------------- MODULE TestSets -------------------------------
(***************************************************************************)
(* One test set revision: the item uploads of routers/test_sets.py, the    *)
(* finalization of the set with its manifest, its deletion, and the        *)
(* staging cleanup of services/maintenance.py.                             *)
(*                                                                         *)
(* An upload session reserves an item of a draft, is written (through the  *)
(* API or by a presigned PUT) and finalized (verified, published,          *)
(* committed as an item).  Unlike a dataset generation it never returns to *)
(* "pending": a retry is a new session with new keys.  Finalizing and      *)
(* deleting the set keep the row lock of the test set while they work on   *)
(* the object store; an item finalization keeps nothing but its token.     *)
(***************************************************************************)
EXTENDS Naturals

CONSTANTS
    None,
    Procs,       \* requests and cleanup passes that run at the same time
    Backends,    \* a subset of {"local", "s3"}
    NItems,      \* number of items, by their sort_order
    MaxUploads,  \* bound on upload sessions
    MaxFaults    \* bound on crashes, lost heartbeats and failed calls

Uploads == 1..MaxUploads
Items == 1..NItems

ASSUME TestSetAssumption ==
    /\ MaxUploads \in Nat /\ NItems \in Nat /\ MaxFaults \in Nat
    /\ Backends \subseteq {"local", "s3"}
    /\ None \notin Procs

VARIABLES
    testSet,    \* TestSet: its status
    up,         \* TestSetItemUploadSession; a completed one stands for its TestSetItem
    staging, canon, manifest, \* the object store
    pc, ses, published,       \* requests: label, session, canonical_publication
    held,       \* the request that keeps the test set's row lock over several steps
    backend, faults

objects == <<staging, canon, manifest>>
procs == <<pc, ses, published>>
vars == <<testSet, up, objects, procs, held, backend, faults>>

Statuses == {"none", "pending", "finalizing", "completed", "failed", "expired", "gone"}
Ended == {"failed", "expired"}
Open == {"pending", "finalizing"}

\* "wait": the cleanup grace is not over; "due"; "first": cleanup_first_deleted_at is
\* set; "confirm": and the confirmation grace is over; "done": cleanup_completed_at.
Phases == {"wait", "due", "first", "confirm", "done"}

WriterLabels == {"write", "wrote", "unwrite"}
FinalizerLabels == {"verify", "publish", "commit", "unpublish", "unstage"}
SetLabels == {"checkItems", "storeManifest", "ready", "dropManifest", "deleteObjects", "deleteRow"}
Labels == {"idle", "clean"} \cup WriterLabels \cup FinalizerLabels \cup SetLabels

NoRow == [st |-> "none", item |-> 0, past |-> FALSE, stale |-> FALSE, wtok |-> None,
          ftok |-> None, claim |-> None, clean |-> "wait"]

Init ==
    /\ testSet = "draft"
    /\ up = [s \in Uploads |-> NoRow]
    /\ staging = [s \in Uploads |-> "none"]
    /\ canon = [s \in Uploads |-> FALSE]
    /\ manifest = FALSE
    /\ pc = [p \in Procs |-> "idle"]
    /\ ses = [p \in Procs |-> None]
    /\ published = [p \in Procs |-> FALSE]
    /\ held = None
    /\ backend \in Backends
    /\ faults = 0

Rows == [st : Statuses, item : Items \cup {0}, past : BOOLEAN, stale : BOOLEAN,
         wtok : Procs \cup {None}, ftok : Procs \cup {None}, claim : Procs \cup {None}, clean : Phases]

TypeOK ==
    /\ testSet \in {"draft", "ready", "failed", "deleted"}
    /\ up \in [Uploads -> Rows]
    /\ staging \in [Uploads -> {"none", "good", "bad"}]
    /\ canon \in [Uploads -> BOOLEAN] /\ manifest \in BOOLEAN
    /\ pc \in [Procs -> Labels]
    /\ ses \in [Procs -> Uploads \cup {None}]
    /\ published \in [Procs -> BOOLEAN]
    /\ held \in Procs \cup {None}
    /\ backend \in Backends /\ faults \in 0..MaxFaults
-----------------------------------------------------------------------------
(* Steps of a request *)

Goto(p, s, label) ==
    /\ pc' = [pc EXCEPT ![p] = label]
    /\ ses' = [ses EXCEPT ![p] = IF label = "idle" THEN None ELSE s]
    /\ published' = IF label = "idle" THEN [published EXCEPT ![p] = FALSE] ELSE published

Stop(p) == Goto(p, None, "idle")

Fault == faults < MaxFaults /\ faults' = faults + 1
OrFault(cond) == (cond /\ UNCHANGED faults) \/ Fault

\* SELECT ... FOR UPDATE on the test set, for one transaction.
Locked == held = None

Exists(s) == up[s].st \notin {"none", "gone"}
Unwritten(s) == [up EXCEPT ![s].wtok = None, ![s].stale = FALSE]

\* What ends a session takes its tokens.  (Its deadline is not looked at again.)
Ending(r, st) == [st |-> st, item |-> r.item, past |-> FALSE, stale |-> FALSE, wtok |-> None,
                  ftok |-> None, claim |-> r.claim, clean |-> r.clean]
End(s, st) == [up EXCEPT ![s] = Ending(up[s], st)]
-----------------------------------------------------------------------------
(* Sessions: initialize_test_set_item_upload, and the first part of every request *)

Reserved(i) == [NoRow EXCEPT !.st = "pending", !.item = i]
Of(s, i) == Exists(s) /\ up[s].item = i

\* Under the row locks of user and test set.  A retry under the same key ends an
\* overdue session, and every init ends the failed sessions of its item; an item that
\* is uploaded or being uploaded is taken.  (Items are numbered as they are first used.)
InitUpload(s, i) ==
    /\ Locked /\ testSet = "draft"
    /\ i <= s /\ up[s].st = "none" /\ \A t \in 1..(s - 1) : up[t].st # "none"
    /\ \A t \in Uploads : Of(t, i) => up[t].st \in Ended \/ (up[t].st = "pending" /\ up[t].past)
    /\ up' = [t \in Uploads |->
                IF t = s THEN Reserved(i)
                ELSE IF Of(t, i) THEN Ending(up[t], "expired") ELSE up[t]]
    /\ UNCHANGED <<testSet, objects, procs, held, backend, faults>>

\* A PUT or finalize request meets a session whose deadline has passed, or a writer
\* without a heartbeat.
ExpireUpload(s) ==
    /\ Locked /\ testSet = "draft" /\ up[s].st = "pending"
    /\ up[s].past \/ (up[s].wtok # None /\ up[s].stale)
    /\ up' = End(s, "expired")
    /\ UNCHANGED <<testSet, objects, procs, held, backend, faults>>

\* A finalize request meets a finalization without a heartbeat; the object it may
\* have published is left alone.
RecoverStaleFinalizing(s) ==
    /\ Locked /\ testSet = "draft" /\ up[s].st = "finalizing" /\ up[s].stale
    /\ up' = End(s, "failed")
    /\ UNCHANGED <<testSet, objects, procs, held, backend, faults>>
-----------------------------------------------------------------------------
(* Bytes: local_test_set_item_upload, or a presigned PUT *)

ClaimWrite(p, s) ==
    /\ Locked /\ testSet = "draft" /\ pc[p] = "idle" /\ backend = "local"
    /\ up[s].st = "pending" /\ ~up[s].past /\ up[s].wtok = None
    /\ up' = [up EXCEPT ![s].wtok = p, ![s].stale = FALSE]
    /\ Goto(p, s, "write")
    /\ UNCHANGED <<testSet, objects, held, backend, faults>>

OwnsWrite(p) == up[ses[p]].st = "pending" /\ up[ses[p]].wtok = p

\* The stream ends in a rename that does not look at the row ...
Write(p) ==
    /\ pc[p] = "write"
    /\ \E c \in {"good", "bad"} : staging' = [staging EXCEPT ![ses[p]] = c]
    /\ Goto(p, ses[p], "wrote")
    /\ UNCHANGED <<testSet, up, canon, manifest, held, backend, faults>>

\* ... or fails.
WriteFails(p) ==
    /\ pc[p] = "write" /\ Fault
    /\ Goto(p, ses[p], "unwrite")
    /\ UNCHANGED <<testSet, up, objects, held, backend>>

\* The check under lock frees the row for another writer or the finalization.
Wrote(p) ==
    /\ pc[p] = "wrote" /\ Locked
    /\ IF testSet = "draft" /\ OwnsWrite(p)
       THEN up' = Unwritten(ses[p]) /\ Stop(p)
       ELSE Goto(p, ses[p], "unwrite") /\ UNCHANGED up
    /\ UNCHANGED <<testSet, objects, held, backend, faults>>

\* _expire_upload_write_claim, when the deadline meets the stream.
WriteTimesOut(p) ==
    /\ pc[p] = "write" /\ up[ses[p]].past
    /\ up' = IF OwnsWrite(p) THEN End(ses[p], "expired") ELSE up
    /\ Goto(p, ses[p], "unwrite")
    /\ UNCHANGED <<testSet, objects, held, backend, faults>>

\* A write that did not count takes its object away and lets go of the row.
Unwrite(p) ==
    /\ pc[p] = "unwrite"
    /\ \/ staging' = [staging EXCEPT ![ses[p]] = "none"] /\ UNCHANGED faults
       \/ Fault /\ UNCHANGED staging
    /\ up' = IF OwnsWrite(p) THEN Unwritten(ses[p]) ELSE up
    /\ Stop(p)
    /\ UNCHANGED <<testSet, canon, manifest, held, backend>>

\* A presigned PUT with If-None-Match: * needs no row.  It may end after the URL
\* expired, but before the confirmation grace is over.
S3Put(s) ==
    /\ backend = "s3" /\ Exists(s) /\ up[s].clean \notin {"confirm", "done"} /\ staging[s] = "none"
    /\ \E c \in {"good", "bad"} : staging' = [staging EXCEPT ![s] = c]
    /\ UNCHANGED <<testSet, up, canon, manifest, procs, held, backend, faults>>
-----------------------------------------------------------------------------
(* finalize_test_set_item_upload *)

ClaimFinalization(p, s) ==
    /\ Locked /\ testSet = "draft" /\ pc[p] = "idle"
    /\ up[s].st = "pending" /\ ~up[s].past /\ up[s].wtok = None
    /\ up' = [up EXCEPT ![s].st = "finalizing", ![s].ftok = p, ![s].stale = FALSE]
    /\ Goto(p, s, "verify")
    /\ UNCHANGED <<testSet, objects, held, backend, faults>>

Owns(p) == up[ses[p]].st = "finalizing" /\ up[ses[p]].ftok = p

\* _mark_finalizing_upload_failed: one UPDATE that names the token.
MarkFailed(p) == up' = IF Owns(p) THEN End(ses[p], "failed") ELSE up

\* Reads the staging object, compares it with the declaration and inspects the WAV.
Verify(p) ==
    /\ pc[p] = "verify"
    /\ \/ OrFault(staging[ses[p]] = "none") /\ MarkFailed(p) /\ Stop(p)
       \/ /\ staging[ses[p]] = "bad" /\ MarkFailed(p)
          /\ IF Owns(p) THEN Goto(p, ses[p], "unstage") ELSE Stop(p)
          /\ UNCHANGED faults
       \/ staging[ses[p]] = "good" /\ Goto(p, ses[p], "publish") /\ UNCHANGED <<up, faults>>
    /\ UNCHANGED <<testSet, objects, held, backend>>

\* store_verified_file never replaces an object and does not look at the row;
\* canonical_publication is set when the call returns.
Publish(p) ==
    LET s == ses[p] IN
    /\ pc[p] = "publish"
    /\ \/ /\ ~canon[s]
          /\ canon' = [canon EXCEPT ![s] = TRUE]
          /\ published' = [published EXCEPT ![p] = TRUE]
          /\ pc' = [pc EXCEPT ![p] = "commit"]
          /\ UNCHANGED <<up, ses, faults>>
       \/ /\ Fault                      \* the object may be there nevertheless
          /\ \E b \in BOOLEAN : canon' = [canon EXCEPT ![s] = @ \/ b]
          /\ MarkFailed(p) /\ Stop(p)
    /\ UNCHANGED <<testSet, staging, manifest, held, backend>>

\* A heartbeat before, during or after an operation finds that the token is gone.
LoseLease(p) ==
    /\ pc[p] \in {"verify", "publish", "commit"} /\ ~Owns(p)
    /\ IF published[p] THEN Goto(p, ses[p], "unpublish") ELSE Stop(p)
    /\ UNCHANGED <<testSet, up, objects, held, backend, faults>>

\* The item of another session with the same key.
ItemTaken(s) == \E t \in Uploads \ {s} : up[t].st = "completed" /\ up[t].item = up[s].item

\* The item and the completed session, if the token, the draft and the reservation
\* still hold; otherwise what was published is taken back.  (A test set that is gone
\* answers 404 and nothing is taken back.)
Commit(p) ==
    /\ pc[p] = "commit" /\ Locked
    /\ \/ testSet = "deleted" /\ Stop(p) /\ UNCHANGED up
       \/ /\ testSet = "draft" /\ Owns(p) /\ ~ItemTaken(ses[p])
          /\ up' = End(ses[p], "completed") /\ Goto(p, ses[p], "unstage")
       \/ /\ testSet # "deleted" /\ (testSet # "draft" \/ ~Owns(p) \/ ItemTaken(ses[p]))
          /\ MarkFailed(p) /\ Goto(p, ses[p], "unpublish")
    /\ UNCHANGED <<testSet, objects, held, backend, faults>>

\* _delete_best_effort
Unpublish(p) ==
    /\ pc[p] = "unpublish"
    /\ \/ canon' = [canon EXCEPT ![ses[p]] = FALSE] /\ UNCHANGED faults
       \/ Fault /\ UNCHANGED canon
    /\ Stop(p)
    /\ UNCHANGED <<testSet, up, staging, manifest, held, backend>>

Unstage(p) ==
    /\ pc[p] = "unstage"
    /\ \/ staging' = [staging EXCEPT ![ses[p]] = "none"] /\ UNCHANGED faults
       \/ Fault /\ UNCHANGED staging
    /\ Stop(p)
    /\ UNCHANGED <<testSet, up, canon, manifest, held, backend>>
-----------------------------------------------------------------------------
(* finalize_test_set: the row lock is kept until the first commit *)

Completed == {s \in Uploads : up[s].st = "completed"}

StartFinalizeSet(p) ==
    /\ Locked /\ testSet = "draft" /\ pc[p] = "idle"
    /\ \A s \in Uploads : up[s].st \notin Open \cup {"failed"}
    /\ Completed # {}
    /\ held' = p
    /\ Goto(p, None, "checkItems")
    /\ UNCHANGED <<testSet, up, objects, backend, faults>>

\* (mutant) the items are checked without their objects
CheckLedgerOnly(p) ==
    /\ pc[p] = "checkItems"
    /\ Goto(p, None, "storeManifest")
    /\ UNCHANGED <<testSet, up, objects, held, backend, faults>>

\* _canonical_object_matches_item
Matches(s) == canon[s]

\* Every canonical object is read again; what does not match only leaves a failure code.
CheckItems(p) ==
    /\ pc[p] = "checkItems"
    /\ \/ (\A s \in Completed : Matches(s)) /\ Goto(p, None, "storeManifest") /\ UNCHANGED <<held, faults>>
       \/ OrFault(\E s \in Completed : ~Matches(s)) /\ held' = None /\ Stop(p)
    /\ UNCHANGED <<testSet, up, objects, backend>>

\* No-replace again: a manifest that is there already is an error like any other.  The
\* failure code is committed, which frees the lock, before the key is deleted.
StoreManifest(p) ==
    /\ pc[p] = "storeManifest"
    /\ \/ ~manifest /\ manifest' = TRUE /\ Goto(p, None, "ready") /\ UNCHANGED <<held, faults>>
       \/ /\ \/ manifest /\ UNCHANGED <<manifest, faults>>
             \/ Fault /\ manifest' \in {manifest, TRUE}
          /\ held' = None /\ Goto(p, None, "dropManifest")
    /\ UNCHANGED <<testSet, up, staging, canon, backend>>

\* The commit succeeds, or fails before or after the database took it.
Ready(p) ==
    /\ pc[p] = "ready"
    /\ \/ testSet' = "ready" /\ Stop(p) /\ UNCHANGED faults
       \/ Fault /\ testSet' \in {"draft", "ready"} /\ Goto(p, None, "dropManifest")
    /\ held' = None
    /\ UNCHANGED <<up, objects, backend>>

DropManifest(p) ==
    /\ pc[p] = "dropManifest"
    /\ manifest' = FALSE
    /\ Stop(p)
    /\ UNCHANGED <<testSet, up, staging, canon, held, backend, faults>>
-----------------------------------------------------------------------------
(* delete_test_set: the row lock is kept until the end *)

StartDelete(p) ==
    /\ Locked /\ testSet \in {"draft", "failed"} /\ pc[p] = "idle"
    /\ \A s \in Uploads : up[s].st \notin Open
    /\ held' = p
    /\ Goto(p, None, "deleteObjects")
    /\ UNCHANGED <<testSet, up, objects, backend, faults>>

Delete(kept) ==
    /\ staging' = [s \in Uploads |-> IF Exists(s) /\ s \notin kept THEN "none" ELSE staging[s]]
    /\ canon' = [s \in Uploads |-> canon[s] /\ ~(Exists(s) /\ s \notin kept)]
    /\ manifest' = FALSE

\* Every key of every session, and the manifest; a call that fails keeps the row.
DeleteObjects(p) ==
    /\ pc[p] = "deleteObjects"
    /\ \/ Delete({}) /\ Goto(p, None, "deleteRow") /\ UNCHANGED <<testSet, held, faults>>
       \/ Fault /\ (\E s \in Uploads : Delete({s})) /\ testSet' = "failed" /\ held' = None /\ Stop(p)
    /\ UNCHANGED <<up, backend>>

DeleteRow(p) ==
    /\ pc[p] = "deleteRow"
    /\ testSet' = "deleted" /\ held' = None
    /\ up' = [s \in Uploads |-> IF Exists(s) THEN [NoRow EXCEPT !.st = "gone"] ELSE up[s]]
    /\ Stop(p)
    /\ UNCHANGED <<objects, backend, faults>>
-----------------------------------------------------------------------------
(* The staging cleanup of a maintenance run *)

Cleaning(s) == \E p \in Procs : pc[p] = "clean" /\ ses[p] = s

\* The claim of another run is taken over when it is too old: that run has ended, or
\* it is late.
ClaimCleanup(p, s) ==
    /\ Locked /\ pc[p] = "idle"
    /\ up[s].st \in {"pending"} \cup Ended /\ up[s].clean \notin {"wait", "done"}
    /\ up[s].wtok = None \/ up[s].stale
    /\ IF up[s].claim \notin {None, p} /\ Cleaning(s) THEN Fault ELSE UNCHANGED faults
    /\ up' = LET st == IF up[s].st = "pending" THEN "expired" ELSE up[s].st
             IN [up EXCEPT ![s] = [Ending(up[s], st) EXCEPT !.claim = p]]
    /\ Goto(p, s, "clean")
    /\ UNCHANGED <<testSet, objects, held, backend>>

Cleanable(p) ==
    /\ up[ses[p]].claim = p /\ up[ses[p]].st \in Ended
    /\ up[ses[p]].clean \in {"due", "confirm"}

\* Checks the claim again under lock; the first delete only starts the confirmation,
\* and the canonical object is never touched.  (The claim of a pass that has ended keeps
\* nobody out once it is old, and is dropped here.)
DeleteClaimedStaging(p) ==
    LET s == ses[p] IN
    /\ pc[p] = "clean" /\ Locked
    /\ \/ /\ Cleanable(p)
          /\ staging' = [staging EXCEPT ![s] = "none"]
          /\ up' = [up EXCEPT ![s].clean = IF up[s].clean = "due" THEN "first" ELSE "done",
                               ![s].claim = None]
          /\ UNCHANGED faults
       \/ /\ OrFault(~Cleanable(p))
          /\ up' = IF up[s].claim = p THEN [up EXCEPT ![s].claim = None] ELSE up
          /\ UNCHANGED staging
    /\ Stop(p)
    /\ UNCHANGED <<testSet, canon, manifest, held, backend>>
-----------------------------------------------------------------------------
(* Time and crashes *)

\* The deadline of a pending session; a finalization does not look at it again.
Pass(s) ==
    /\ up[s].st = "pending" /\ ~up[s].past
    /\ up' = [up EXCEPT ![s].past = TRUE]
    /\ UNCHANGED <<testSet, objects, procs, held, backend, faults>>

Running(s) == \E p \in Procs : ses[p] = s /\ (up[s].wtok = p \/ up[s].ftok = p)

\* The heartbeat of a token gets too old: because its request is gone, or as a fault.
Stale(s) ==
    /\ (up[s].wtok # None \/ up[s].ftok # None) /\ ~up[s].stale
    /\ IF Running(s) THEN Fault ELSE UNCHANGED faults
    /\ up' = [up EXCEPT ![s].stale = TRUE]
    /\ UNCHANGED <<testSet, objects, procs, held, backend>>

\* _touch_upload_write and _touch_finalization, by the owner of the token.
Heartbeat(p) ==
    /\ \/ pc[p] = "write" /\ OwnsWrite(p)
       \/ pc[p] \in {"verify", "publish"} /\ Owns(p)
    /\ up[ses[p]].stale
    /\ up' = [up EXCEPT ![ses[p]].stale = FALSE]
    /\ UNCHANGED <<testSet, objects, procs, held, backend, faults>>

Writing(s) == \E p \in Procs : ses[p] = s /\ pc[p] \in WriterLabels

\* The cleanup grace, and the confirmation grace, at whose end no write is under way.
Grace(s) ==
    /\ \/ /\ up[s].clean = "wait" /\ (up[s].st \in Ended \/ (up[s].st = "pending" /\ up[s].past))
          /\ up' = [up EXCEPT ![s].clean = "due"]
       \/ /\ up[s].clean = "first" /\ ~Writing(s)
          /\ up' = [up EXCEPT ![s].clean = "confirm"]
    /\ UNCHANGED <<testSet, objects, procs, held, backend, faults>>

\* The process that serves the request ends: its transaction is rolled back.
Crash(p) ==
    /\ pc[p] # "idle" /\ Fault
    /\ held' = IF held = p THEN None ELSE held
    /\ Stop(p)
    /\ UNCHANGED <<testSet, up, objects, backend>>
-----------------------------------------------------------------------------
RequestStep(p) ==
    \/ Write(p) \/ WriteFails(p) \/ Wrote(p) \/ WriteTimesOut(p) \/ Unwrite(p)
    \/ Verify(p) \/ Publish(p) \/ LoseLease(p) \/ Commit(p) \/ Unpublish(p) \/ Unstage(p)
    \/ CheckItems(p) \/ StoreManifest(p) \/ Ready(p) \/ DropManifest(p)
    \/ DeleteObjects(p) \/ DeleteRow(p) \/ DeleteClaimedStaging(p)

Next ==
    \/ \E s \in Uploads : \E i \in Items : InitUpload(s, i)
    \/ \E s \in Uploads : ExpireUpload(s) \/ RecoverStaleFinalizing(s) \/ S3Put(s)
    \/ \E s \in Uploads : Pass(s) \/ Stale(s) \/ Grace(s)
    \/ \E p \in Procs : RequestStep(p) \/ Heartbeat(p) \/ Crash(p)
    \/ \E p \in Procs : StartFinalizeSet(p) \/ StartDelete(p)
    \/ \E p \in Procs, s \in Uploads : ClaimWrite(p, s) \/ ClaimFinalization(p, s) \/ ClaimCleanup(p, s)

Spec == Init /\ [][Next]_vars
-----------------------------------------------------------------------------
(* Properties *)

\* A ready revision is complete: it has items, one completed upload for each, the
\* canonical bytes of all of them, and no upload that could still change it -- whatever
\* late finalizations, half-finished deletions and cleanup passes came before.
ReadyIsComplete ==
    testSet = "ready" =>
        /\ Completed # {}
        /\ \A s \in Uploads : up[s].st \in {"none", "completed", "expired"}
        /\ \A s \in Completed : canon[s] /\ ~ItemTaken(s)

\* Once the cleanup of a session is recorded as complete, its staging object is gone
\* and does not come back through a late writer.
CleanedStaysGone == \A s \in Uploads : up[s].clean = "done" => staging[s] = "none"

\* The ledger of a test set is true of the store: what it offers is there, and what it
\* calls cleaned is gone.
StorageMatchesLedger == ReadyIsComplete /\ CleanedStaysGone

=============================================================================
