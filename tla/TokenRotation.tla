----------------------------- MODULE TokenRotation -----------------------------
(***************************************************************************)
(* The bearer token of one Worker: the two-phase rotation of               *)
(* rvc_worker/token_rotation.py with its credential file (credentials.py,  *)
(* cli.py) against the Manager's Worker row (routers/workers.py), under    *)
(* lost answers, requests that are processed late, failing writes,         *)
(* crashes, revocation and re-enrolment.                                   *)
(*                                                                         *)
(* A token is known by the number of the rotation or enrolment that issued *)
(* it; 0 is the token of the first registration.  One process uses the     *)
(* credential file at a time: the service, or a one-shot command while the *)
(* service is stopped.                                                     *)
(***************************************************************************)
EXTENDS Naturals

CONSTANTS
    None,
    MaxIds,     \* bound on rotations, enrolments and revocations
    MaxFaults,  \* bound on lost answers, failing writes and crashes
    Late        \* may a request be processed after the Worker gave up on it?

Ids == 0..MaxIds

\* A request is <<operation, bearer token, id>>.
Requests == {"prepare", "activate", "abort", "enroll"} \X Ids \X Ids

ASSUME RotationAssumption ==
    /\ MaxIds \in Nat /\ MaxFaults \in Nat /\ Late \in BOOLEAN
    /\ None \notin Nat \cup {"ok", "refused", "lost"} /\ None \notin Requests

VARIABLES
    \* the Manager's Worker row
    active,     \* is_active
    token,      \* token_hash
    pend,       \* token_rotation_id and pending_token_hash
    expired,    \* token_rotation_expires_at has passed
    busy,       \* current_job_id is set
    enrolled,   \* tokens that were issued by re-enrolment (history)
    \* the Worker
    file,       \* the credential file: worker_token, pending_worker_token
    cred,       \* the credential in memory
    mode,       \* what the process is for
    pc,         \* where it is
    id,         \* the rotation or enrolment it is about
    sent,       \* the request it waits for
    answer,
    \* the environment
    net,        \* requests on their way
    lastId, faults

managerVars == <<active, token, pend, expired, busy, enrolled>>
workerVars == <<file, cred, mode, pc, id, sent, answer>>
vars == <<managerVars, workerVars, net, lastId, faults>>

Credential(t, p) == [token |-> t, pending |-> p]

Init ==
    /\ active = TRUE /\ token = 0 /\ pend = None /\ expired = FALSE /\ busy = FALSE
    /\ enrolled = {}
    /\ file = Credential(0, None) /\ cred = file
    /\ mode = "agent" /\ pc = "off" /\ id = 0
    /\ sent = None /\ answer = None
    /\ net = {} /\ lastId = 0 /\ faults = 0

Fault == faults < MaxFaults /\ faults' = faults + 1

-----------------------------------------------------------------------------
(* The Manager.                                                            *)

\* require_worker; the row is locked and compared again before it is changed.
Authenticated(t) == active /\ t = token

\* prepare_token_rotation refuses while another rotation is pending.
MayPrepare(t) == Authenticated(t) /\ ~busy /\ (pend = None \/ expired)

\* activate_token_rotation
MayActivate(t, r) == Authenticated(t) /\ ~busy /\ pend = r /\ ~expired

\* abort_token_rotation
MayAbort(t, r) == Authenticated(t) /\ pend \in {None, r}

\* re_enroll_worker, with the bootstrap secret
MayEnroll == ~active /\ ~busy

Accepted(q) ==
    CASE q[1] = "prepare"  -> MayPrepare(q[2])
      [] q[1] = "activate" -> MayActivate(q[2], q[3])
      [] q[1] = "abort"    -> MayAbort(q[2], q[3])
      [] q[1] = "enroll"   -> MayEnroll

\* What an accepted request does to the row.
Effect(q) ==
    \/ /\ q[1] = "prepare"
       /\ pend' = q[3] /\ expired' = FALSE
       /\ UNCHANGED <<active, token, enrolled>>
    \/ /\ q[1] = "activate"
       /\ token' = pend /\ pend' = None /\ expired' = FALSE
       /\ UNCHANGED <<active, enrolled>>
    \/ /\ q[1] = "abort"
       /\ pend' = None /\ expired' = FALSE
       /\ UNCHANGED <<active, token, enrolled>>
    \/ /\ q[1] = "enroll"
       /\ active' = TRUE /\ token' = q[3] /\ pend' = None /\ expired' = FALSE
       /\ enrolled' = enrolled \cup {q[3]}

\* One request is processed; only the process that waits for it is answered.
Handle(q) ==
    /\ q \in net
    /\ net' = net \ {q}
    /\ \/ Accepted(q) /\ Effect(q)
       \/ ~Accepted(q) /\ UNCHANGED <<active, token, pend, expired, enrolled>>
    /\ answer' = IF sent = q /\ answer = None
                 THEN IF Accepted(q) THEN "ok" ELSE "refused"
                 ELSE answer
    /\ UNCHANGED <<busy, file, cred, mode, pc, id, sent, lastId, faults>>

Expire ==
    /\ pend # None /\ ~expired
    /\ expired' = TRUE
    /\ UNCHANGED <<active, token, pend, busy, enrolled, workerVars, net, lastId, faults>>

\* revoke_worker_token: the hash is replaced by one that nobody knows, and an
\* assignment is cancelled.
Revoke ==
    /\ active /\ lastId < MaxIds
    /\ lastId' = lastId + 1
    /\ active' = FALSE /\ token' = lastId' /\ pend' = None /\ expired' = FALSE /\ busy' = FALSE
    /\ UNCHANGED <<enrolled, workerVars, net, faults>>

\* claim_job of the running agent, refused while a rotation is pending.
Claim ==
    /\ pc = "running" /\ Authenticated(cred.token)
    /\ pend = None /\ ~busy
    /\ busy' = TRUE
    /\ UNCHANGED <<active, token, pend, expired, enrolled, workerVars, net, lastId,
                   faults>>

\* The job ends, or its lease is recovered.
Finish ==
    /\ busy
    /\ busy' = FALSE
    /\ UNCHANGED <<active, token, pend, expired, enrolled, workerVars, net, lastId,
                   faults>>

-----------------------------------------------------------------------------
(* The Worker's process.                                                   *)

\* main: the credential file is loaded.  Whatever the process is for, except
\* re-enrolment, reconcile_worker_token_rotation comes first.
Start(m) ==
    /\ pc = "off"
    /\ mode' = m /\ cred' = file
    /\ \/ /\ m = "enroll" /\ lastId < MaxIds
          /\ lastId' = lastId + 1 /\ id' = lastId'
          /\ pc' = "enroll"
       \/ /\ m # "enroll"
          /\ pc' = IF file.pending # None THEN "activate" ELSE "check"
          /\ id' = IF file.pending # None THEN file.pending ELSE 0
          /\ UNCHANGED lastId
    /\ UNCHANGED <<managerVars, file, sent, answer, net, faults>>

Goto(next) == pc' = next /\ UNCHANGED <<mode, id>>

\* (mutant) a pending rotation of the Manager is left alone
CheckLeavingPending ==
    /\ pc = "check"
    /\ Goto(IF Authenticated(cred.token) THEN "ready" ELSE "off")
    /\ UNCHANGED <<managerVars, file, cred, sent, answer, net, lastId, faults>>

\* get_token_rotation_status without a local pending token: a rotation that the
\* Manager has prepared is one whose token was lost, and is aborted.
Check ==
    /\ pc = "check"
    /\ \/ ~Authenticated(cred.token) /\ Goto("off")
       \/ Authenticated(cred.token) /\ pend = None /\ Goto("ready")
       \/ /\ Authenticated(cred.token) /\ pend # None
          /\ pc' = "abortOrphan" /\ id' = pend /\ UNCHANGED mode
    /\ UNCHANGED <<managerVars, file, cred, sent, answer, net, lastId, faults>>

\* Reconciled: the agent establishes its session, a rotation goes on when the
\* Worker is idle, and a failed rotation ends.
Ready ==
    /\ pc = "ready"
    /\ \/ mode = "agent" /\ Authenticated(cred.token) /\ Goto("running") /\ UNCHANGED lastId
       \/ /\ mode = "rotate" /\ Authenticated(cred.token) /\ ~busy /\ lastId < MaxIds
          /\ lastId' = lastId + 1 /\ id' = lastId' /\ pc' = "prepare" /\ UNCHANGED mode
       \/ /\ mode = "quit" \/ ~Authenticated(cred.token) \/ (mode = "rotate" /\ (busy \/ lastId = MaxIds))
          /\ Goto("off") /\ UNCHANGED lastId
    /\ UNCHANGED <<managerVars, file, cred, sent, answer, net, faults>>

\* The requests that change the Manager's row, and where their answers lead.
Operation ==
    [prepare |-> "prepare", activate |-> "activate", retry |-> "activate",
     abortOrphan |-> "abort", abortStaged |-> "abort", abortExpired |-> "abort",
     enroll |-> "enroll"]

AfterOk ==
    [prepare |-> "stage", activate |-> "confirm", retry |-> "confirm",
     abortOrphan |-> "ready", abortStaged |-> "off", abortExpired |-> "clear",
     enroll |-> "saveEnrolled"]

\* (mutant) a refused or unanswered activation is taken for a failed one
AfterFailureGivingUp ==
    [prepare |-> "check", activate |-> "clear", retry |-> "off",
     abortOrphan |-> "off", abortStaged |-> "off", abortExpired |-> "off",
     enroll |-> "off"]

AfterFailure ==
    [prepare |-> "check", activate |-> "probe", retry |-> "off",
     abortOrphan |-> "off", abortStaged |-> "off", abortExpired |-> "off",
     enroll |-> "off"]

Send ==
    /\ pc \in DOMAIN Operation /\ sent = None
    /\ sent' = <<Operation[pc], cred.token, id>>
    /\ net' = net \cup {sent'}
    /\ UNCHANGED <<managerVars, file, cred, mode, pc, id, answer, lastId, faults>>

Receive ==
    /\ answer # None
    /\ pc' = IF answer = "ok" THEN AfterOk[pc] ELSE AfterFailure[pc]
    /\ mode' = IF pc = "prepare" /\ answer # "ok" THEN "quit" ELSE mode
    /\ sent' = None /\ answer' = None
    /\ UNCHANGED <<managerVars, file, cred, id, net, lastId, faults>>

\* No answer in time: the request may have been processed, and if not it may
\* still be.
TimeOut ==
    /\ sent # None /\ answer # "lost"
    /\ answer' = "lost"
    /\ net' = IF Late THEN net ELSE net \ {sent}
    /\ Fault
    /\ UNCHANGED <<managerVars, file, cred, mode, pc, id, sent, lastId>>

\* What the process saves at a place, and where it goes on when it could and
\* when it could not.
Saved(p) ==
    CASE p = "stage"        -> Credential(cred.token, id)
      [] p = "persist"      -> Credential(cred.pending, None)
      [] p = "clear"        -> Credential(cred.token, None)
      [] p = "saveEnrolled" -> Credential(id, None)

AfterSave ==
    [stage |-> "activate", persist |-> "ready", clear |-> "ready", saveEnrolled |-> "off"]

\* CredentialStore.save replaces the file atomically.  A rotation that staged its
\* token ends when it is completed.
Save ==
    /\ pc \in DOMAIN AfterSave
    /\ file' = Saved(pc) /\ cred' = Saved(pc)
    /\ pc' = AfterSave[pc]
    /\ mode' = IF pc = "stage" THEN "quit" ELSE mode
    /\ UNCHANGED <<managerVars, id, sent, answer, net, lastId, faults>>

\* It may fail before or after the file was replaced.
SaveFailed ==
    /\ pc \in DOMAIN AfterSave
    /\ file' \in {file, Saved(pc)}
    /\ pc' = IF pc = "stage" THEN "abortStaged" ELSE "off"
    /\ Fault
    /\ UNCHANGED <<managerVars, cred, mode, id, sent, answer, net, lastId>>

\* (mutant) only the old token is asked
ProbeSkipped ==
    /\ pc = "probe"
    /\ Goto("status")
    /\ UNCHANGED <<managerVars, file, cred, sent, answer, net, lastId, faults>>

\* _complete_pending_rotation after a failed activation: first the pending
\* token is tried ...
Probe ==
    /\ pc = "probe"
    /\ Goto(IF Authenticated(cred.pending) THEN "persist" ELSE "status")
    /\ UNCHANGED <<managerVars, file, cred, sent, answer, net, lastId, faults>>

\* ... then the old one is asked about the rotation.
StatusGone ==
    /\ pc = "status"
    /\ \/ ~Authenticated(cred.token) /\ Goto("off")
       \/ Authenticated(cred.token) /\ pend = None /\ Goto("clear")
       \/ Authenticated(cred.token) /\ pend \notin {None, cred.pending} /\ Goto("off")
    /\ UNCHANGED <<managerVars, file, cred, sent, answer, net, lastId, faults>>

\* The Worker compares the expiry with its own clock, which may be ahead or
\* behind.
StatusExpired ==
    /\ pc = "status"
    /\ Authenticated(cred.token) /\ pend = cred.pending
    /\ Goto("abortExpired")
    /\ UNCHANGED <<managerVars, file, cred, sent, answer, net, lastId, faults>>

StatusPending ==
    /\ pc = "status"
    /\ Authenticated(cred.token) /\ pend = cred.pending
    /\ Goto("retry")
    /\ UNCHANGED <<managerVars, file, cred, sent, answer, net, lastId, faults>>

Confirm ==
    /\ pc = "confirm"
    /\ Goto(IF Authenticated(cred.pending) THEN "persist" ELSE "off")
    /\ UNCHANGED <<managerVars, file, cred, sent, answer, net, lastId, faults>>

\* The process ends: the service is stopped, or any step fails or crashes.
Stop ==
    /\ pc = "running"
    /\ Goto("off")
    /\ UNCHANGED <<managerVars, file, cred, sent, answer, net, lastId, faults>>

Crash ==
    /\ pc # "off"
    /\ Goto("off")
    /\ sent' = None /\ answer' = None
    /\ net' = IF Late \/ sent = None THEN net ELSE net \ {sent}
    /\ Fault
    /\ UNCHANGED <<managerVars, file, cred, lastId>>

-----------------------------------------------------------------------------
Steps ==
    Check \/ Ready \/ Send \/ Receive \/ Save \/ Probe \/ StatusGone \/ StatusPending \/ Confirm

Next ==
    \/ Steps
    \/ \E m \in {"agent", "rotate", "enroll"} : Start(m)
    \/ \E q \in net : Handle(q)
    \/ Expire \/ Revoke \/ Claim \/ Finish
    \/ TimeOut \/ SaveFailed \/ StatusExpired \/ Stop \/ Crash

Spec == Init /\ [][Next]_vars

\* The process takes its steps, the Manager handles what arrives, the service is
\* started again when it ended, jobs end, and the Worker's clock passes an expiry.
Fairness ==
    /\ WF_vars(Steps)
    /\ WF_vars(\E q \in net : Handle(q))
    /\ SF_vars(Start("agent"))
    /\ WF_vars(Finish)
    /\ SF_vars(StatusExpired)

FairSpec == Spec /\ Fairness

-----------------------------------------------------------------------------
(* Properties.                                                             *)

Places == DOMAIN Operation \cup DOMAIN AfterSave
            \cup {"off", "check", "ready", "running", "probe", "status", "confirm"}
Credentials == [token : Ids, pending : Ids \cup {None}]

TypeOK ==
    /\ active \in BOOLEAN /\ expired \in BOOLEAN /\ busy \in BOOLEAN
    /\ token \in Ids /\ pend \in Ids \cup {None}
    /\ enrolled \subseteq Ids
    /\ file \in Credentials /\ cred \in Credentials
    /\ mode \in {"agent", "rotate", "enroll", "quit"} /\ pc \in Places /\ id \in Ids
    /\ sent \in Requests \cup {None} /\ answer \in {None, "ok", "refused", "lost"}
    /\ net \subseteq Requests /\ lastId \in Ids /\ faults \in 0..MaxFaults

\* A rotation can be recovered "at any rotation boundary": the token that the
\* Manager accepts is in the credential file, as the current or the pending one,
\* whatever is lost, late or crashes.  (A token from re-enrolment whose answer
\* was lost has to be revoked and issued again.)
TokenKnown ==
    active => token \in {file.token, file.pending} \cup enrolled

\* "Reconciliation observes and aborts a server-side pending rotation": while the
\* agent runs no rotation is pending, which would close every claim to it.
AgentNotBlocked == pc = "running" => pend = None

\* A Worker whose token is in its file comes up again, once failures end.
ComesUp ==
    (pc = "off" /\ active /\ token \in {file.token, file.pending})
        ~> (pc = "running" \/ ~active)
=============================================================================
