---------------------------- MODULE ArtifactUpload ----------------------------
(***************************************************************************)
(* Artifact uploads of one attempt: the upload sessions of                 *)
(* routers/artifacts.py, the objects behind storage.py and the cleanup     *)
(* reconciler of services/artifact_cleanup.py.                             *)
(*                                                                         *)
(* A Worker asks for a session, puts the bytes into the staging object and *)
(* finalizes: the Manager reads the staging object into a spool, checks    *)
(* size and SHA-256, publishes the spool as the canonical object and       *)
(* commits the Artifact row.  No transaction spans two of these steps:     *)
(* requests own a session by a token in its row, and a token whose         *)
(* heartbeat is too old can be taken away from a request that still runs.  *)
(* Every session has objects of its own.  Clocks are phases that time may  *)
(* advance at any moment.                                                  *)
(***************************************************************************)
EXTENDS Naturals, FiniteSets

CONSTANTS
    None,
    Procs,      \* requests and reconciler passes that run at the same time;
                \* a token is known by its owner
    Backends,   \* a subset of {"local", "s3"}
    MaxSessions,\* bound on sessions
    Quota,      \* artifact_attempt_max_sessions
    MaxFaults   \* bound on crashes, storage errors and late heartbeats

Sessions == 1..MaxSessions

ASSUME UploadAssumption ==
    /\ MaxSessions \in Nat /\ Quota \in Nat /\ MaxFaults \in Nat
    /\ Backends \subseteq {"local", "s3"}
    /\ None \notin Procs

VARIABLES
    \* ArtifactUploadSession
    status,     \* "none" is a session that does not exist yet
    wtok,       \* upload_write_token
    sealed,     \* uploaded_at is set (local)
    past,       \* expires_at has passed
    ftok,       \* finalization_token
    stale,      \* updated_at is older than artifact_finalizing_stale_seconds
    ctok,       \* cleanup_token
    cstale,     \* cleanup_heartbeat_at is older than the claim may be
    sclean,     \* the staging_cleanup columns: see Phases
    cclean,     \* the canonical_cleanup columns
    \* the object store
    staging, canonical,
    \* requests and passes
    pc, ses, todo,
    lease,      \* the Worker's lease is active and its job is not damaged
    backend, faults

rowVars == <<status, wtok, sealed, past, ftok, stale>>
cleanVars == <<ctok, cstale, sclean, cclean>>
objectVars == <<staging, canonical>>
procVars == <<pc, ses, todo>>
vars == <<rowVars, cleanVars, objectVars, procVars, lease, backend, faults>>

Terminal == {"completed", "failed", "expired"}
Statuses == {"none", "pending", "finalizing"} \cup Terminal

\* "wait": the first delete is not due; "due"; "first": first_deleted_at is set;
\* "confirm": and the confirmation grace is over; "done": completed_at is set after
\* both; "skipped": completed_at is set without a delete.
Phases == {"wait", "due", "first", "confirm", "done", "skipped"}

Idle == "idle"
WriterLabels == {"write", "seal"}
FinalizerLabels == {"verify", "recheck", "publish", "put", "commit"}
CleanerLabels == {"claim", "canonical", "recordCanonical", "staging", "recordStaging", "release"}
Labels == {Idle} \cup WriterLabels \cup FinalizerLabels \cup CleanerLabels

Passes == {"none", "local", "first", "confirm"}

Init ==
    /\ status = [s \in Sessions |-> "none"]
    /\ wtok = [s \in Sessions |-> None]
    /\ sealed = [s \in Sessions |-> FALSE]
    /\ past = [s \in Sessions |-> FALSE]
    /\ ftok = [s \in Sessions |-> None]
    /\ stale = [s \in Sessions |-> FALSE]
    /\ ctok = [s \in Sessions |-> None]
    /\ cstale = [s \in Sessions |-> FALSE]
    /\ sclean = [s \in Sessions |-> "wait"]
    /\ cclean = [s \in Sessions |-> "wait"]
    /\ staging = [s \in Sessions |-> "none"]
    /\ canonical = [s \in Sessions |-> "none"]
    /\ pc = [p \in Procs |-> Idle]
    /\ ses = [p \in Procs |-> None]
    /\ todo = [p \in Procs |-> [canonical |-> "none", staging |-> "none"]]
    /\ lease = TRUE
    /\ backend \in Backends
    /\ faults = 0

TypeOK ==
    /\ status \in [Sessions -> Statuses]
    /\ wtok \in [Sessions -> Procs \cup {None}]
    /\ sealed \in [Sessions -> BOOLEAN]
    /\ past \in [Sessions -> BOOLEAN]
    /\ ftok \in [Sessions -> Procs \cup {None}]
    /\ stale \in [Sessions -> BOOLEAN]
    /\ ctok \in [Sessions -> Procs \cup {None}]
    /\ cstale \in [Sessions -> BOOLEAN]
    /\ sclean \in [Sessions -> Phases]
    /\ cclean \in [Sessions -> Phases]
    /\ staging \in [Sessions -> {"none", "good", "bad"}]
    /\ canonical \in [Sessions -> {"none", "good"}]
    /\ pc \in [Procs -> Labels]
    /\ ses \in [Procs -> Sessions \cup {None}]
    /\ todo \in [Procs -> [canonical : Passes, staging : Passes]]
    /\ lease \in BOOLEAN /\ backend \in Backends /\ faults \in 0..MaxFaults
-----------------------------------------------------------------------------
(* Requests *)

Goto(p, s, label) ==
    /\ pc' = [pc EXCEPT ![p] = label]
    /\ ses' = [ses EXCEPT ![p] = IF label = Idle THEN None ELSE s]
    /\ todo' = IF label = Idle
               THEN [todo EXCEPT ![p] = [canonical |-> "none", staging |-> "none"]]
               ELSE todo

Fault == faults < MaxFaults /\ faults' = faults + 1

\* (mutant) an ended session leaves the quota at once
ChargedWhileOpen(s) == status[s] \in {"pending", "finalizing", "completed"}

\* Sessions that count against the attempt's quota.
Charged(s) ==
    \/ status[s] \in {"pending", "finalizing", "completed"}
    \/ status[s] \in {"failed", "expired"}
       /\ (sclean[s] # "done" \/ cclean[s] \notin {"done", "skipped"})

WithinQuota == Cardinality({s \in Sessions : Charged(s)}) < Quota

\* Sessions are numbered as they are reserved, for another artifact or as the next
\* generation of an expired one; any other request gets the session that exists.
NeedsSession(s) == status[s] = "none" /\ \A r \in 1..(s - 1) : status[r] # "none"

Reserve(s) ==
    /\ lease /\ NeedsSession(s) /\ WithinQuota
    /\ status' = [status EXCEPT ![s] = "pending"]
    /\ UNCHANGED <<wtok, sealed, past, ftok, stale, cleanVars, objectVars, procVars, lease, backend, faults>>

\* An init or finalize request meets a finalization without a heartbeat.
RecoverStale(s) ==
    /\ lease /\ status[s] = "finalizing" /\ stale[s]
    /\ status' = [status EXCEPT ![s] = "pending"]
    /\ wtok' = [wtok EXCEPT ![s] = None]
    /\ ftok' = [ftok EXCEPT ![s] = None]
    /\ stale' = [stale EXCEPT ![s] = FALSE]
    /\ UNCHANGED <<sealed, past, cleanVars, objectVars, procVars, lease, backend, faults>>

\* The rest of a request that ended a session is a cleanup pass for it.
ExpireUpload(p, s) ==
    /\ pc[p] = Idle /\ (lease \/ backend = "local")
    /\ status[s] = "pending" /\ past[s] /\ wtok[s] = None /\ ftok[s] = None
    /\ status' = [status EXCEPT ![s] = "expired"]
    /\ Goto(p, s, "claim")
    /\ UNCHANGED <<wtok, sealed, past, ftok, stale, cleanVars, objectVars, lease, backend, faults>>

\* What is left of a row that a writer owns when the deadline has passed.
ExpiredWrite(s, w) ==
    IF status[s] = "pending" /\ wtok[s] = w /\ ~sealed[s]
    THEN /\ status' = [status EXCEPT ![s] = "expired"]
         /\ wtok' = [wtok EXCEPT ![s] = None]
    ELSE UNCHANGED <<status, wtok>>

ExpireWrite(s) ==
    /\ status[s] = "pending" /\ past[s] /\ wtok[s] # None
    /\ ExpiredWrite(s, wtok[s])
    /\ UNCHANGED <<sealed, past, ftok, stale, cleanVars, objectVars, procVars, lease, backend, faults>>
-----------------------------------------------------------------------------
(* Bytes *)

\* The local upload endpoint claims the write ...
ClaimWrite(p, s) ==
    /\ pc[p] = Idle /\ backend = "local"
    /\ status[s] = "pending" /\ ~past[s] /\ ~sealed[s] /\ wtok[s] = None /\ ftok[s] = None
    /\ wtok' = [wtok EXCEPT ![s] = p]
    /\ Goto(p, s, "write")
    /\ UNCHANGED <<status, sealed, past, ftok, stale, cleanVars, objectVars, lease, backend, faults>>

\* ... streams into a partial file and renames it, before the deadline, ...
Write(p) ==
    /\ pc[p] = "write" /\ ~past[ses[p]]
    /\ \E c \in {"good", "bad"} : staging' = [staging EXCEPT ![ses[p]] = c]
    /\ Goto(p, ses[p], "seal")
    /\ UNCHANGED <<rowVars, cleanVars, canonical, lease, backend, faults>>

\* ... or fails and lets go of the write, ...
WriteFails(p) ==
    /\ pc[p] = "write" /\ Fault
    /\ wtok' = IF status[ses[p]] = "pending" /\ wtok[ses[p]] = p /\ ~sealed[ses[p]]
               THEN [wtok EXCEPT ![ses[p]] = None] ELSE wtok
    /\ Goto(p, None, Idle)
    /\ UNCHANGED <<status, sealed, past, ftok, stale, cleanVars, objectVars, lease, backend>>

\* ... or meets the deadline or a row that it no longer owns, ...
WriteLost(p) ==
    /\ pc[p] = "write" /\ (past[ses[p]] \/ wtok[ses[p]] # p)
    /\ ExpiredWrite(ses[p], p)
    /\ Goto(p, None, Idle)
    /\ UNCHANGED <<sealed, past, ftok, stale, cleanVars, objectVars, lease, backend, faults>>

\* ... and seals the session, so that nobody writes again.
Seal(p) ==
    /\ pc[p] = "seal"
    /\ LET s == ses[p] IN
         IF status[s] = "pending" /\ wtok[s] = p /\ ftok[s] = None /\ ~sealed[s] /\ ~past[s]
         THEN /\ sealed' = [sealed EXCEPT ![s] = TRUE]
              /\ wtok' = [wtok EXCEPT ![s] = None]
              /\ UNCHANGED status
         ELSE ExpiredWrite(s, p) /\ UNCHANGED sealed
    /\ Goto(p, None, Idle)
    /\ UNCHANGED <<past, ftok, stale, cleanVars, objectVars, lease, backend, faults>>

\* A presigned PUT with If-None-Match: * goes to the object store.  It may end after
\* the URL expired and after the first delete, but before the confirmation grace is over.
\* Nobody reads the bytes once the session has ended.
S3Put(s) ==
    /\ backend = "s3" /\ status[s] # "none" /\ sclean[s] \notin {"confirm", "done"} /\ staging[s] = "none"
    /\ \E c \in IF status[s] \in Terminal THEN {"bad"} ELSE {"good", "bad"} :
         staging' = [staging EXCEPT ![s] = c]
    /\ UNCHANGED <<rowVars, cleanVars, canonical, procVars, lease, backend, faults>>
-----------------------------------------------------------------------------
(* Finalization *)

Owns(p) == status[ses[p]] = "finalizing" /\ ftok[ses[p]] = p

ClaimFinalization(p, s) ==
    /\ pc[p] = Idle /\ lease
    /\ status[s] = "pending" /\ ~past[s] /\ wtok[s] = None /\ ftok[s] = None
    /\ backend = "local" => sealed[s]
    /\ status' = [status EXCEPT ![s] = "finalizing"]
    /\ ftok' = [ftok EXCEPT ![s] = p]
    /\ stale' = [stale EXCEPT ![s] = FALSE]
    /\ Goto(p, s, "verify")
    /\ UNCHANGED <<wtok, sealed, past, cleanVars, objectVars, lease, backend, faults>>

\* The owner leaves "finalizing"; a request that lost its token changes nothing.
Leave(p, st, phase) ==
    LET s == ses[p] IN
    IF Owns(p)
    THEN /\ status' = [status EXCEPT ![s] = st]
         /\ wtok' = [wtok EXCEPT ![s] = None]
         /\ ftok' = [ftok EXCEPT ![s] = None]
         /\ stale' = [stale EXCEPT ![s] = FALSE]
         /\ cclean' = [cclean EXCEPT ![s] = phase]
         /\ Goto(p, s, IF st = "pending" THEN Idle ELSE "claim")
    ELSE /\ Goto(p, None, Idle)
         /\ UNCHANGED <<status, wtok, ftok, stale, cclean>>

\* A failed verification needs no canonical cleanup: it is recorded as complete.
MarkVerificationFailure(p) == Leave(p, "failed", "skipped")

FailAfterPublish(p) == Leave(p, "failed", cclean[ses[p]])

Heartbeat(p) ==
    /\ pc[p] \in {"verify", "put"} /\ Owns(p) /\ stale[ses[p]]
    /\ stale' = [stale EXCEPT ![ses[p]] = FALSE]
    /\ UNCHANGED <<status, wtok, sealed, past, ftok, cleanVars, objectVars, procVars, lease, backend, faults>>

\* Reads the staging object and compares it with the declaration.
Verify(p) ==
    /\ pc[p] = "verify"
    /\ \/ /\ staging[ses[p]] = "none" \/ ~Owns(p)
          /\ Leave(p, "pending", cclean[ses[p]])
          /\ UNCHANGED faults
       \/ /\ staging[ses[p]] # "none" /\ Fault
          /\ Leave(p, "pending", cclean[ses[p]])
       \/ /\ staging[ses[p]] = "bad"
          /\ MarkVerificationFailure(p)
          /\ UNCHANGED faults
       \/ /\ staging[ses[p]] = "good" /\ Owns(p)
          /\ stale' = [stale EXCEPT ![ses[p]] = FALSE]
          /\ Goto(p, ses[p], "recheck")
          /\ UNCHANGED <<status, wtok, ftok, cclean, faults>>
    /\ UNCHANGED <<sealed, past, ctok, cstale, sclean, objectVars, lease, backend>>

\* The claim may have ended during the verification.
Recheck(p) ==
    /\ pc[p] = "recheck"
    /\ \/ /\ lease
          /\ Goto(p, ses[p], "publish")
          /\ UNCHANGED <<status, wtok, ftok, stale, cclean>>
       \/ /\ ~lease
          /\ MarkVerificationFailure(p)
    /\ UNCHANGED <<sealed, past, ctok, cstale, sclean, objectVars, lease, backend, faults>>

\* The heartbeat before the publish ...
Publish(p) ==
    /\ pc[p] = "publish"
    /\ IF Owns(p)
       THEN stale' = [stale EXCEPT ![ses[p]] = FALSE] /\ Goto(p, ses[p], "put")
       ELSE Goto(p, None, Idle) /\ UNCHANGED stale
    /\ UNCHANGED <<status, wtok, sealed, past, ftok, cleanVars, objectVars, lease, backend, faults>>

\* (mutant) a publisher that finds an object there takes it away
PutCanonicalDeleting(p) ==
    LET s == ses[p] IN
    /\ pc[p] = "put"
    /\ IF canonical[s] = "none"
       THEN /\ canonical' = [canonical EXCEPT ![s] = "good"]
            /\ Goto(p, s, IF Owns(p) THEN "commit" ELSE Idle)
            /\ UNCHANGED <<status, wtok, ftok, stale, cclean>>
       ELSE /\ canonical' = [canonical EXCEPT ![s] = "none"]
            /\ FailAfterPublish(p)
    /\ UNCHANGED <<sealed, past, ctok, cstale, sclean, staging, lease, backend, faults>>

\* ... and the publish, which does not look at the row and never replaces an object.
\* An error leaves the object or not; the heartbeat after it decides on ownership.
PutCanonical(p) ==
    LET s == ses[p] IN
    /\ pc[p] = "put"
    /\ \/ /\ canonical[s] = "none"
          /\ canonical' = [canonical EXCEPT ![s] = "good"]
          /\ Goto(p, s, IF Owns(p) THEN "commit" ELSE Idle)
          /\ stale' = IF Owns(p) THEN [stale EXCEPT ![s] = FALSE] ELSE stale
          /\ UNCHANGED <<status, wtok, ftok, cclean, faults>>
       \/ /\ canonical[s] = "none" /\ Fault
          /\ canonical' \in {canonical, [canonical EXCEPT ![s] = "good"]}
          /\ FailAfterPublish(p)
       \/ /\ canonical[s] # "none"
          /\ FailAfterPublish(p)
          /\ UNCHANGED <<canonical, faults>>
    /\ UNCHANGED <<sealed, past, ctok, cstale, sclean, staging, lease, backend>>

\* The write fence: lease, session and token are read again in the transaction that
\* adds the Artifact row.  A conflict with another row is a fault.
Commit(p) ==
    /\ pc[p] = "commit"
    /\ \/ /\ lease /\ Owns(p)
          /\ Leave(p, "completed", cclean[ses[p]])
          /\ sealed' = [sealed EXCEPT ![ses[p]] = TRUE]
          /\ UNCHANGED faults
       \/ /\ ~lease \/ ~Owns(p)
          /\ FailAfterPublish(p)
          /\ UNCHANGED <<sealed, faults>>
       \/ /\ lease /\ Owns(p) /\ Fault
          /\ FailAfterPublish(p)
          /\ UNCHANGED sealed
    /\ UNCHANGED <<past, ctok, cstale, sclean, objectVars, lease, backend>>
-----------------------------------------------------------------------------
(* Cleanup *)

CanonicalAction(s) ==
    IF status[s] \in {"failed", "expired"}
    THEN CASE cclean[s] = "due"     -> "first"
           [] cclean[s] = "confirm" -> "confirm"
           [] OTHER                 -> "none"
    ELSE "none"

StagingAction(s) ==
    IF status[s] \in Terminal
    THEN CASE sclean[s] = "confirm" -> "confirm"
           [] sclean[s] = "due"     -> "first"
           [] sclean[s] = "wait" /\ backend = "local" -> "local"
           [] OTHER                 -> "none"
    ELSE "none"

\* (mutant) the claim of a pass that died is never taken over
CandidateUnclaimed(s) ==
    /\ ctok[s] = None
    /\ CanonicalAction(s) # "none" \/ StagingAction(s) # "none"

Candidate(s) ==
    /\ ctok[s] = None \/ cstale[s]
    /\ CanonicalAction(s) # "none" \/ StagingAction(s) # "none"

\* A pass of the reconciler, or the rest of a request that ended a session.
ClaimCleanup(p, s) ==
    /\ pc[p] = Idle \/ (pc[p] = "claim" /\ ses[p] = s)
    /\ Candidate(s)
    /\ ctok' = [ctok EXCEPT ![s] = p]
    /\ cstale' = [cstale EXCEPT ![s] = FALSE]
    /\ pc' = [pc EXCEPT ![p] = "canonical"]
    /\ ses' = [ses EXCEPT ![p] = s]
    /\ todo' = [todo EXCEPT ![p] = [canonical |-> CanonicalAction(s), staging |-> StagingAction(s)]]
    /\ UNCHANGED <<rowVars, sclean, cclean, objectVars, lease, backend, faults>>

NothingToClean(p) ==
    /\ pc[p] = "claim" /\ ~Candidate(ses[p])
    /\ Goto(p, None, Idle)
    /\ UNCHANGED <<rowVars, cleanVars, objectVars, lease, backend, faults>>

OwnsCleanup(p) == ctok[ses[p]] = p

After(kind) == IF kind = "canonical" THEN "staging" ELSE "release"
RecordLabel(kind) == IF kind = "canonical" THEN "recordCanonical" ELSE "recordStaging"

Skip(p, kind) ==
    /\ pc[p] = kind /\ todo[p][kind] = "none"
    /\ Goto(p, ses[p], After(kind))
    /\ UNCHANGED <<rowVars, cleanVars, objectVars, lease, backend, faults>>

\* The delete itself does not look at the row: the token can be lost after the
\* heartbeat before it.  The heartbeat after it decides whether it is recorded.
Delete(p, kind) ==
    /\ pc[p] = kind /\ todo[p][kind] # "none"
    /\ IF kind = "canonical"
       THEN canonical' = [canonical EXCEPT ![ses[p]] = "none"] /\ UNCHANGED staging
       ELSE staging' = [staging EXCEPT ![ses[p]] = "none"] /\ UNCHANGED canonical
    /\ IF OwnsCleanup(p)
       THEN Goto(p, ses[p], RecordLabel(kind)) /\ cstale' = [cstale EXCEPT ![ses[p]] = FALSE]
       ELSE Goto(p, None, Idle) /\ UNCHANGED cstale
    /\ UNCHANGED <<rowVars, ctok, sclean, cclean, lease, backend, faults>>

CleanupLost(p, kind) ==
    /\ pc[p] = kind /\ todo[p][kind] # "none" /\ ~OwnsCleanup(p)
    /\ Goto(p, None, Idle)
    /\ UNCHANGED <<rowVars, cleanVars, objectVars, lease, backend, faults>>

\* The next pass tries again; the other object is still looked at in this one.
DeleteFails(p, kind) ==
    /\ pc[p] = kind /\ todo[p][kind] # "none" /\ Fault
    /\ Goto(p, ses[p], After(kind))
    /\ cstale' = IF OwnsCleanup(p) THEN [cstale EXCEPT ![ses[p]] = FALSE] ELSE cstale
    /\ UNCHANGED <<rowVars, ctok, sclean, cclean, objectVars, lease, backend>>

\* (mutant) the first delete is taken for the last one
RecordedAtOnce(phase, act) == "done"

Recorded(phase, act) ==
    CASE act = "first" /\ phase \in {"wait", "due"}        -> "first"
      [] act = "confirm" /\ phase \in {"first", "confirm"} -> "done"
      [] act = "local" /\ phase # "done"                   -> "done"
      [] OTHER                                             -> phase

Record(p, kind) ==
    LET s == ses[p]
        act == todo[p][kind]
    IN
    /\ pc[p] = RecordLabel(kind)
    /\ IF OwnsCleanup(p)
       THEN /\ cclean' = IF kind = "canonical"
                         THEN [cclean EXCEPT ![s] = Recorded(@, act)] ELSE cclean
            /\ sclean' = IF kind = "staging"
                         THEN [sclean EXCEPT ![s] = Recorded(@, act)] ELSE sclean
            /\ cstale' = [cstale EXCEPT ![s] = FALSE]
       ELSE UNCHANGED <<cclean, sclean, cstale>>
    /\ Goto(p, s, After(kind))
    /\ UNCHANGED <<rowVars, ctok, objectVars, lease, backend, faults>>

Release(p) ==
    /\ pc[p] = "release"
    /\ ctok' = IF OwnsCleanup(p) THEN [ctok EXCEPT ![ses[p]] = None] ELSE ctok
    /\ cstale' = IF OwnsCleanup(p) THEN [cstale EXCEPT ![ses[p]] = FALSE] ELSE cstale
    /\ Goto(p, None, Idle)
    /\ UNCHANGED <<rowVars, sclean, cclean, objectVars, lease, backend, faults>>
-----------------------------------------------------------------------------
(* Time and failures *)

Expire(s) ==
    /\ status[s] # "none" /\ ~past[s]
    /\ past' = [past EXCEPT ![s] = TRUE]
    /\ UNCHANGED <<status, wtok, sealed, ftok, stale, cleanVars, objectVars, procVars, lease, backend, faults>>

\* Heartbeats end with their owner.  That they stop while it runs, because its
\* process or the database was suspended, is a fault.
Late(p, s) == IF p \in Procs /\ ses[p] = s THEN Fault ELSE UNCHANGED faults

FinalizerStale(s) ==
    /\ status[s] = "finalizing" /\ ~stale[s] /\ Late(ftok[s], s)
    /\ stale' = [stale EXCEPT ![s] = TRUE]
    /\ UNCHANGED <<status, wtok, sealed, past, ftok, cleanVars, objectVars, procVars, lease, backend>>

CleanerStale(s) ==
    /\ ctok[s] # None /\ ~cstale[s] /\ Late(ctok[s], s)
    /\ cstale' = [cstale EXCEPT ![s] = TRUE]
    /\ UNCHANGED <<rowVars, ctok, sclean, cclean, objectVars, procVars, lease, backend>>

StagingDue(s) ==
    /\ backend = "s3" /\ past[s] /\ sclean[s] = "wait"
    /\ sclean' = [sclean EXCEPT ![s] = "due"]
    /\ UNCHANGED <<rowVars, ctok, cstale, cclean, objectVars, procVars, lease, backend, faults>>

\* artifact_finalizing_stale_seconds after the end of the session; a publish that
\* outlived its token may still be under way.
CanonicalDue(s) ==
    /\ status[s] \in {"failed", "expired"} /\ cclean[s] = "wait"
    /\ cclean' = [cclean EXCEPT ![s] = "due"]
    /\ UNCHANGED <<rowVars, ctok, cstale, sclean, objectVars, procVars, lease, backend, faults>>

Publishing(s) == \E p \in Procs : pc[p] = "put" /\ ses[p] = s

\* artifact_cleanup_confirmation_grace_seconds after a first delete, when no write of
\* the object is under way any more.
ConfirmationDue(s) ==
    /\ \/ sclean[s] = "first" /\ sclean' = [sclean EXCEPT ![s] = "confirm"] /\ UNCHANGED cclean
       \/ /\ cclean[s] = "first" /\ ~Publishing(s)
          /\ cclean' = [cclean EXCEPT ![s] = "confirm"] /\ UNCHANGED sclean
    /\ UNCHANGED <<rowVars, ctok, cstale, objectVars, procVars, lease, backend, faults>>

LoseLease ==
    /\ lease /\ lease' = FALSE
    /\ UNCHANGED <<rowVars, cleanVars, objectVars, procVars, backend, faults>>

Crash(p) ==
    /\ pc[p] # Idle /\ Fault
    /\ Goto(p, None, Idle)
    /\ UNCHANGED <<rowVars, cleanVars, objectVars, lease, backend>>
-----------------------------------------------------------------------------
Kinds == {"canonical", "staging"}

CleanerStep(p) ==
    \/ NothingToClean(p) \/ Release(p)
    \/ \E s \in Sessions : pc[p] = "claim" /\ ClaimCleanup(p, s)
    \/ \E kind \in Kinds :
         Skip(p, kind) \/ Delete(p, kind) \/ CleanupLost(p, kind) \/ DeleteFails(p, kind) \/ Record(p, kind)

RequestStep(p) ==
    \/ Write(p) \/ WriteFails(p) \/ WriteLost(p) \/ Seal(p)
    \/ Verify(p) \/ Recheck(p) \/ Publish(p) \/ PutCanonical(p) \/ Commit(p)

NextProc(p) ==
    \/ CleanerStep(p) \/ RequestStep(p) \/ Heartbeat(p) \/ Crash(p)
    \/ \E s \in Sessions :
         \/ ExpireUpload(p, s) \/ ClaimWrite(p, s) \/ ClaimFinalization(p, s)
         \/ pc[p] = Idle /\ ClaimCleanup(p, s)

NextSession(s) ==
    \/ Reserve(s) \/ RecoverStale(s) \/ ExpireWrite(s) \/ S3Put(s)
    \/ Expire(s) \/ FinalizerStale(s) \/ CleanerStale(s)
    \/ StagingDue(s) \/ CanonicalDue(s) \/ ConfirmationDue(s)

Next ==
    \/ \E p \in Procs : NextProc(p)
    \/ \E s \in Sessions : NextSession(s)
    \/ LoseLease

Spec == Init /\ [][Next]_vars

Tick(s) ==
    \/ Expire(s) \/ FinalizerStale(s) \/ CleanerStale(s)
    \/ StagingDue(s) \/ CanonicalDue(s) \/ ConfirmationDue(s)

\* Some request or pass goes on, some clock advances, and the reconciler of some
\* replica takes a candidate again.
Fairness ==
    /\ WF_vars(\E p \in Procs : CleanerStep(p) \/ RequestStep(p))
    /\ WF_vars(\E s \in Sessions : Tick(s))
    /\ WF_vars(\E p \in Procs, s \in Sessions : pc[p] = Idle /\ ClaimCleanup(p, s))

FairSpec == Spec /\ Fairness
-----------------------------------------------------------------------------
(* Properties *)

\* A completed session has its canonical object, with the declared bytes: no late
\* publisher, no replaced finalizer and no cleanup pass takes it away
\* (finalize_artifact_upload, reconcile_artifact_upload_cleanup).
ArtifactHasBytes == \A s \in Sessions : status[s] = "completed" => canonical[s] = "good"

\* When both deletes of an object are recorded the object is gone and stays gone, so
\* that the session may leave the quota (_record_cleanup_complete).  A PUT or a publish
\* that ends after the first delete brings the object back; the confirming one takes it.
CleanedMeansGone ==
    \A s \in Sessions :
        /\ sclean[s] = "done" => staging[s] = "none"
        /\ cclean[s] = "done" => canonical[s] = "none"

\* No more sessions than the quota allows occupy storage, though ended ones are
\* followed by new ones while their objects are still being deleted
\* (_enforce_attempt_artifact_quota).  Canonical objects of "skipped" cleanups, which
\* the Manager forgets, are not counted.
Occupies(s) == staging[s] # "none" \/ (canonical[s] # "none" /\ cclean[s] # "skipped")
QuotaBoundsObjects == Cardinality({s \in Sessions : Occupies(s)}) <= Quota

\* A session that ended never changes its status again, whatever a request that lost
\* its token still does (_transition_owned_finalizing, _expire_upload).
EndIsFinal ==
    [][\A s \in Sessions : status[s] \in Terminal => status'[s] = status[s]]_vars

\* The bytes that a finalizer reads are not replaced or removed under it
\* (local_presigned_upload, If-None-Match of the presigned PUT).
BytesStable ==
    [][\A s \in Sessions :
         status[s] = "finalizing" /\ staging[s] # "none" => staging'[s] = staging[s]]_vars

\* The staging object of every ended session, and the canonical object of one that did
\* not complete, are cleaned up in the end (ArtifactCleanupReconciler.run).  Sessions
\* are finitely many and a cleaned one stays so: none is left over for ever.
LeftOver(s) ==
    /\ status[s] \in Terminal
    /\ sclean[s] # "done" \/ (status[s] # "completed" /\ cclean[s] \notin {"done", "skipped"})

CleanedUp == (\E s \in Sessions : LeftOver(s)) ~> (\A s \in Sessions : ~LeftOver(s))
=============================================================================
